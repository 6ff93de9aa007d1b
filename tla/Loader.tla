------------------------------- MODULE Loader -------------------------------
(***************************************************************************)
(* The other end of the commands: the loop of the mask ROM and of the      *)
(* preloader ("loader"), and of a Download Agent ("da").  None of it is    *)
(* part of the repository.  What is here is what the structs of            *)
(* crates/da-boot/src/commands and their comments say of it, written down  *)
(* from the device's side: a byte that is no command is dropped, a word    *)
(* that is echoed goes back as it came, and a status may be a refusal.     *)
(***************************************************************************)
EXTENDS Commands

CONSTANTS HwCode,   \* the code of this SoC
          Refusals  \* statuses with which a device refuses a command

VARIABLE dev \* see DevInit

(* What the device does once it has taken a command byte.                  *)
Handlers ==
    [loader |-> << [byte |-> 253, name |-> "GetHwCode",
                    steps |-> <<<<"put", 2, HwCode>>, <<"finish", 2, 0>>>>],
                   [byte |-> 216, name |-> "GetTargetConfig",
                    steps |-> <<<<"put", 4, 5>>, <<"finish", 2, 0>>>>],
                   [byte |-> 209, name |-> "Read32",
                    steps |-> <<<<"arg">>, <<"arg">>, <<"check">>, <<"words">>,
                                <<"finish", 2, 0>>>>],
                   [byte |-> 213, name |-> "JumpDA",
                    steps |-> <<<<"arg">>, <<"finish", 2, 0>>>>],
                   [byte |-> 215, name |-> "SendDA",
                    steps |-> <<<<"arg">>, <<"arg">>, <<"arg">>, <<"check">>, <<"data">>,
                                <<"put", 2, 4660>>, <<"finish", 2, 0>>>>] >>,
     da     |-> << [byte |-> 123, name |-> "Write32",
                    steps |-> <<<<"get", 4>>, <<"get", 4>>, <<"finish", 1, 90>>>>] >>]

(* A Download Agent speaks first.                                          *)
DaHello ==
    LET put(w, i) == <<"put", w, i>> IN
    <<<<"const", 1, 192>>>>
    \o <<put(4, 1), put(2, 2), put(2, 3), put(2, 4), put(2, 5), put(2, 6)>>
    \o <<put(4, 7), put(4, 8), put(4, 9), put(4, 10), put(4, 11)>>
    \o <<<<"skip", 1>>>> \o <<put(1, 4), put(1, 2), put(1, 12)>>
    \o <<<<"skip", 9>>, <<"skip", 5>>, <<"skip", 4>>, <<"finish", 4, 0>>>>

DevInit(prog) ==
    [prog |-> prog, st |-> "on", name |-> IF prog = "da" THEN "DA1Setup" ELSE "none",
     todo |-> IF prog = "da" THEN DaHello ELSE <<>>, args |-> <<>>, sent |-> <<>>]

Doing(what) == dev.st = "on" /\ dev.todo # <<>> /\ Head(dev.todo)[1] = what

Taken(n) == SubSeq(toDev, 1, n)
Take(n) == Len(toDev) >= n /\ toDev' = SubSeq(toDev, n + 1, Len(toDev))
Give(bytes) == toHost' = toHost \o bytes
Done(d) == [d EXCEPT !.todo = Tail(@)]
Dropped(d) == [d EXCEPT !.todo = <<>>]

(* One byte in the loop: a command, echoed by a loader, or nothing.        *)
TakeCommand ==
    /\ dev.st = "on" /\ dev.todo = <<>> /\ Take(1)
    /\ LET hs == Handlers[dev.prog]
           hit == {i \in 1..Len(hs) : hs[i].byte = toDev[1]} IN
       IF hit = {} THEN UNCHANGED <<dev, toHost>>
       ELSE /\ \E i \in hit : dev' = [dev EXCEPT !.name = hs[i].name, !.todo = hs[i].steps,
                                                 !.args = <<>>, !.sent = <<>>]
            /\ Give(IF dev.prog = "loader" THEN Taken(1) ELSE <<>>)

TakeArg ==
    /\ Doing("arg") /\ Take(4) /\ Give(Taken(4))
    /\ dev' = [Done(dev) EXCEPT !.args = Append(@, Word(Taken(4)))]

TakeWord ==
    /\ Doing("get") /\ Take(4)
    /\ dev' = [Done(dev) EXCEPT !.args = Append(@, Word(Taken(4)))]
    /\ UNCHANGED toHost

SkipBytes == Doing("skip") /\ Take(Head(dev.todo)[2]) /\ dev' = Done(dev) /\ UNCHANGED toHost

TakeData ==
    /\ Doing("data") /\ Take(dev.args[2])
    /\ dev' = [Done(dev) EXCEPT !.args = Append(@, Taken(dev.args[2]))]
    /\ UNCHANGED toHost

Put ==
    /\ Doing("put")
    /\ Give(Bytes(Head(dev.todo)[3], Head(dev.todo)[2]))
    /\ dev' = [Done(dev) EXCEPT !.sent = Append(@, Head(dev.todo)[3])]
    /\ UNCHANGED toDev

PutConst ==
    /\ Doing("const")
    /\ Give(Bytes(Head(dev.todo)[3], Head(dev.todo)[2]))
    /\ dev' = Done(dev)
    /\ UNCHANGED toDev

(* The words in memory are their own addresses.                            *)
PutWords ==
    LET words == [i \in 1..dev.args[2] |-> dev.args[1] + 4 * (i - 1)] IN
    /\ Doing("words")
    /\ Give(FlattenSeq([i \in 1..Len(words) |-> Bytes(words[i], 4)]))
    /\ dev' = [Done(dev) EXCEPT !.sent = Append(@, words)]
    /\ UNCHANGED toDev

(* The statuses that fit a word of w bytes and are refusals.               *)
RefusalsOf(w) == IF w = 4 THEN Refusals ELSE {s \in Refusals : s < 256 ^ w}

Check ==
    /\ Doing("check")
    /\ \E s \in {0} \cup RefusalsOf(2) :
          Give(Bytes(s, 2)) /\ dev' = IF s = 0 THEN Done(dev) ELSE Dropped(dev)
    /\ UNCHANGED toDev

(* What a command that ends with status s has done: nothing if it refuses. *)
Accepts(s) == s = Head(dev.todo)[3]
DidIt(s) ==
    IF Accepts(s) THEN [name |-> dev.name, args |-> dev.args, out |-> dev.sent]
    ELSE [name |-> "none"]

(* The last status.                                                        *)
LastStatuses == {Head(dev.todo)[3]} \cup RefusalsOf(Head(dev.todo)[2])
Finish(s) ==
    /\ Doing("finish") /\ s \in LastStatuses
    /\ Give(Bytes(s, Head(dev.todo)[2]))
    /\ dev' = IF Accepts(s)
              THEN [Done(dev) EXCEPT !.st = IF dev.name = "JumpDA" THEN "jumped" ELSE "on"]
              ELSE Dropped(dev)
    /\ UNCHANGED toDev

LoaderStep ==
    \/ TakeCommand \/ TakeArg \/ TakeWord \/ SkipBytes \/ TakeData
    \/ Put \/ PutConst \/ PutWords \/ Check
=============================================================================
