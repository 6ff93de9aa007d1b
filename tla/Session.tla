------------------------------ MODULE Session -------------------------------
(***************************************************************************)
(* Commands run one after the other on an open port until one fails, the   *)
(* way run_payload and crash_to_brom use them, with a device that may      *)
(* refuse, be slow or die at any point, and with bytes of an earlier       *)
(* handshake that are still on their way.                                  *)
(***************************************************************************)
EXTENDS Loader

CONSTANTS Requests, \* the commands run: [name, args]
          Programs, \* what runs on the device: "loader" or "da"
          Leftovers,\* sequences of bytes that may be in the port at the start
          MaxCalls  \* a bound: commands in a session

VARIABLES calls, \* commands run so far
          log    \* history: what the device has ended with a status of success, or
                 \* with one that looks like it, one per call at most

vars == <<toDev, toHost, run, dev, calls, log>>

Init ==
    /\ toDev = <<>> /\ run = NotRunning
    /\ \E p \in Programs :
          dev = DevInit(p) /\ toHost \in IF p = "da" THEN {<<>>} ELSE Leftovers
    /\ calls = <<>> /\ log = <<>>

(* A Download Agent is set up first.                                       *)
Speaks(name) ==
    IF dev.prog = "da" THEN (name = "DA1Setup") = (calls = <<>>) /\ name \in {"DA1Setup", "Write32"}
    ELSE name \notin {"DA1Setup", "Write32"}

(* The next command.  A failed one ended the session, run_payload and its  *)
(* callers return the error, and after a jump there is no loader.          *)
Call(r) ==
    /\ run.out = "ok" /\ Len(calls) < MaxCalls
    /\ (calls # <<>> => Last(calls).name # "JumpDA")
    /\ Speaks(r.name)
    /\ Begin(r.name, r.args)
    /\ calls' = Append(calls, r)
    /\ UNCHANGED <<toDev, toHost, dev, log>>

RunCommand == RunStep /\ UNCHANGED <<dev, calls, log>>

(* The host compares the low 16 bits of a status, so that some refusals    *)
(* pass for success.                                                       *)
Passes(s) == s % U16 = Head(dev.todo)[3] % U16

Logged(s) ==
    log' = IF Passes(s)
           THEN Append(log, [name |-> dev.name, args |-> dev.args, out |-> dev.sent,
                             refused |-> ~Accepts(s)])
           ELSE log

Device ==
    /\ \/ LoaderStep /\ UNCHANGED log
       \/ Doing("finish") /\ \E s \in LastStatuses : Finish(s) /\ Logged(s)
    /\ UNCHANGED <<run, calls>>

(* The device hangs or resets.                                             *)
Die ==
    /\ dev.st = "on" /\ dev' = [dev EXCEPT !.st = "dead"]
    /\ UNCHANGED <<toDev, toHost, run, calls, log>>

Over == run.out # "running" /\ UNCHANGED vars

Next == (\E r \in Requests : Call(r)) \/ RunCommand \/ Device \/ Die \/ Over

Spec == Init /\ [][Next]_vars /\ WF_vars(RunCommand)

-----------------------------------------------------------------------------
(* Properties *)

(* A command that returned Ok leaves host and device in step: no byte of   *)
(* it is left on the wire in either direction, and the device is back in   *)
(* its loop, so that the next command starts afresh.                       *)
InStep ==
    run.out = "ok" /\ calls # <<>> =>
        /\ toDev = <<>> /\ toHost = <<>>
        /\ dev.todo = <<>>

(* The two errors of err.rs that blame the device are deserved: an echo    *)
(* differs only where bytes of the handshake were still on their way, at   *)
(* the first command, and a status is invalid only if the device refused.  *)
ErrorsAreTrue ==
    /\ run.out = "echo" => Len(calls) = 1
    /\ run.out = "status" => Len(log) < Len(calls) \/ Last(log).refused

(* The generated method as a remote call: log belongs to calls, one entry  *)
(* to one call.                                                            *)
ResultOf(name, self) ==
    LET rs == Results(Structs[name]) IN [i \in 1..Len(rs) |-> self[rs[i].ident]]
Executed == Len(log) = Len(calls) /\ calls # <<>>
Phase == IF calls = <<>> THEN "idle"
         ELSE IF run.out = "running" THEN "called"
         ELSE IF run.out = "ok" THEN "idle" ELSE "failed"
Remote == INSTANCE RemoteCall WITH
    phase <- Phase,
    call <- IF calls = <<>> THEN <<>> ELSE Last(calls),
    open <- calls # <<>> /\ ~Executed,
    did <- IF Executed THEN [name |-> Last(log).name, args |-> Last(log).args] ELSE <<>>,
    result <- IF Executed THEN Last(log).out ELSE <<>>,
    answer <- IF Phase = "idle" /\ calls # <<>> THEN ResultOf(run.name, run.self) ELSE <<>>

(* Running commands implements RemoteCall: a command is carried out at     *)
(* most once, only with the arguments it was run with, Ok means that it    *)
(* was, with the values the device sent, and every run returns.  One       *)
(* refusal is counted as having carried the command out: a status that     *)
(* differs from success only above its low 16 bits, which only             *)
(* dram_status of DA1Setup has; no other status is let through by the cut. *)
CommandIsCall == Remote!Spec
=============================================================================
