-------------------------------- MODULE Frame --------------------------------
(***************************************************************************)
(* The bytes of crates/da-protocol: a frame is a length and a postcard     *)
(* encoding that both ends build and take apart in one fixed buffer, and   *)
(* the data of a transfer follows without a frame.  The host is the REPL,  *)
(* which goes on after a transfer that it gave up.                         *)
(*                                                                         *)
(* A message is [kind, fields], kind counting the variants from 0.  A u32  *)
(* is written as in Macro: the integer of -2^31..2^31-1 that is congruent. *)
(***************************************************************************)
EXTENDS Integers, SequencesExt, FiniteSetsExt

CONSTANTS Requests,  \* messages the user has sent
          Responses, \* responses of the device
          DataBytes, \* what memory holds
          MaxSends,  \* a bound: messages in a session
          MaxLen     \* a bound: bytes a transfer out of step may claim

VARIABLES toDev, toHost,   \* the wire, in bytes
          hostBuf, devBuf, \* Protocol.buf of both ends
          host, dev,       \* "prompt", "data", "response", ...; "loop", "serve", "gone"
          asked,           \* the messages the user had sent, whatever became of them
          sent, heard,     \* history: frames written in full before the stream broke,
                           \* and messages as the device decoded them
          broken,          \* history: a write has stopped part-way
          told, got,       \* history: responses sent, and as the host decoded them
          gaveUp           \* history: the REPL went on after a failed transfer

wire == <<toDev, toHost>>
hostVars == <<hostBuf, host, asked, sent, broken, got, gaveUp>>
devVars == <<devBuf, dev, heard, told>>
vars == <<wire, hostVars, devVars>>

-----------------------------------------------------------------------------
(* Types *)

(* The fields of the variants; BlacklistRange's is a Range of two u32.     *)
MessageShape ==
    << <<>>, <<"u32", "u32">>, <<"u32", "u32">>, <<"u32", "u32">>, <<"u32", "opt", "opt">>,
       <<>>, <<"HookId">>, <<"u32">>, <<"u32", "u32">>, <<"ParamsType">> >>
ResponseShape == << <<>>, <<"ProtocolError">>, <<"opt">> >>

Read == 1
Write == 2
Jump == 4
Reset == 5

(* The parameters of LK are three pointers, those of the preloader one.    *)
Pointers(params) == IF params = 0 THEN 1 ELSE 3

(* Layout in memory.  A fieldless enum of one variant takes no byte.       *)
Layout == [u32 |-> [size |-> 4, align |-> 4], opt |-> [size |-> 8, align |-> 4],
           HookId |-> [size |-> 0, align |-> 1], ProtocolError |-> [size |-> 1, align |-> 1],
           ParamsType |-> [size |-> 4 + 4 * Pointers(1), align |-> 4]]
Up(x, a) == ((x + a - 1) \div a) * a

(* repr(u8): a tag of one byte, and the fields as in C.                    *)
SizeOf(shapes) ==
    Max({Up(FoldLeft(LAMBDA at, ty : Up(at, Layout[ty].align) + Layout[ty].size, 1, shapes[k]), 4)
            : k \in 1..Len(shapes)})

\* Mutant: the buffer is made for responses.
BufSize_response == SizeOf(ResponseShape)

BufSize == Max({SizeOf(MessageShape), SizeOf(ResponseShape)})

-----------------------------------------------------------------------------
(* External: postcard.  Integers, and positions of variants, are varints.  *)

VarLen(v) == IF v < 0 THEN 5 ELSE Min({n \in 1..4 : v < 128 ^ n} \cup {5})
Varint(v) == [i \in 1..VarLen(v) |->
                 IF i = 5 THEN (v \div 128 ^ 4) % 16
                 ELSE ((v \div 128 ^ (i - 1)) % 128) + (IF i < VarLen(v) THEN 128 ELSE 0)]

Varints(vs) == FlattenSeq([i \in 1..Len(vs) |-> Varint(vs[i])])

FieldBytes(ty, v) ==
    CASE ty = "opt" -> IF v = <<>> THEN <<0>> ELSE <<1>> \o Varint(v[1])
      [] ty = "ParamsType" -> Varint(v[1]) \o Varints(v[2])
      [] OTHER -> Varint(v)

ToSlice(shapes, m) ==
    LET shape == shapes[m.kind + 1] IN
    Varint(m.kind)
        \o FlattenSeq([i \in 1..Len(shape) |-> FieldBytes(shape[i], m.fields[i])])

(* Reading is a fold over what is expected, with the place in the buffer.  *)
Error == [kind |-> -1, fields |-> <<>>]
Failed == [ok |-> FALSE, at |-> 0, v |-> 0]

TakeVarint(b, at) ==
    LET ends == {i \in at..Len(b) : i < at + 5 /\ b[i] < 128} IN
    IF ends = {} \/ (Min(ends) = at + 4 /\ b[at + 4] > 15) THEN Failed
    ELSE LET e == Min(ends)
             top == IF e = at + 4 /\ b[e] >= 8 THEN b[e] - 16 ELSE b[e]
         IN  [ok |-> TRUE, at |-> e + 1,
              v |-> FoldRight(LAMBDA x, acc : acc * 128 + (x % 128), SubSeq(b, at, e - 1), top)]

TakeVarints(b, at, n) ==
    FoldLeft(LAMBDA acc, i :
                LET t == TakeVarint(b, acc.at) IN
                IF acc.ok /\ t.ok THEN [t EXCEPT !.v = Append(acc.v, t.v)] ELSE Failed,
             [ok |-> TRUE, at |-> at, v |-> <<>>], [i \in 1..n |-> i])

TakeField(ty, b, at) ==
    LET t == TakeVarint(b, at)
        below(n) == IF t.ok /\ t.v \in 0..n - 1 THEN t ELSE Failed
    IN  CASE ty = "opt" -> IF at > Len(b) \/ b[at] > 1 THEN Failed
                           ELSE IF b[at] = 0 THEN [ok |-> TRUE, at |-> at + 1, v |-> <<>>]
                           ELSE TakeVarints(b, at + 1, 1)
          [] ty = "ParamsType" ->
                LET ps == TakeVarints(b, t.at, Pointers(t.v)) IN
                IF below(2).ok /\ ps.ok THEN [ps EXCEPT !.v = <<t.v, ps.v>>] ELSE Failed
          [] ty = "HookId" -> below(1)
          [] ty = "ProtocolError" -> below(4)
          [] OTHER -> t

FromBytes(shapes, b) ==
    LET k == TakeVarint(b, 1)
        fs == FoldLeft(LAMBDA acc, ty :
                          LET t == TakeField(ty, b, acc.at) IN
                          IF acc.ok /\ t.ok THEN [t EXCEPT !.v = Append(acc.v, t.v)] ELSE Failed,
                       [k EXCEPT !.v = <<>>], shapes[k.v + 1])
    IN  IF k.ok /\ k.v \in 0..Len(shapes) - 1 /\ fs.ok THEN [kind |-> k.v, fields |-> fs.v]
        ELSE Error

-----------------------------------------------------------------------------
(* Protocol *)

(* The buffer with bytes at its start; the rest stays as it was.           *)
Filled(buf, bytes) == bytes \o SubSeq(buf, Len(bytes) + 1, BufSize)

LenBytes(bytes) == <<0, 0, 0, Len(bytes)>>

(* The length a frame begins with, as a u32.                               *)
SizeAt(w) == FoldLeft(LAMBDA acc, b : acc * 256 + b,
                      IF w[1] >= 128 THEN w[1] - 256 ELSE w[1], SubSeq(w, 2, 4))

HasSize(w) == Len(w) >= 4
HasFrame(w) == HasSize(w) /\ SizeAt(w) \in 0..BufSize /\ Len(w) >= 4 + SizeAt(w)
Body(w) == SubSeq(w, 5, 4 + SizeAt(w))

\* Mutant: the last byte of a frame is not read.
Received_short(buf, w) == Filled(buf, SubSeq(w, 5, 3 + SizeAt(w)))

Received(buf, w) == Filled(buf, Body(w))

Dropped(w, n) == SubSeq(w, n + 1, Len(w))
AfterFrame(w) == Dropped(w, 4 + SizeAt(w))

-----------------------------------------------------------------------------
(* The host: run_repl, upload and download *)

Init ==
    /\ toDev = <<>> /\ toHost = <<>>
    /\ hostBuf = [i \in 1..BufSize |-> 0] /\ devBuf = hostBuf
    /\ host = "prompt" /\ dev = "loop"
    /\ asked = <<>> /\ sent = <<>> /\ heard = <<>> /\ told = <<>> /\ got = <<>>
    /\ gaveUp = FALSE /\ broken = FALSE

IsTransfer(m) == m.kind \in {Read, Write}

FrameOf(m) == LET bytes == ToSlice(MessageShape, m) IN LenBytes(bytes) \o bytes
DataOf(m, b) == IF m.kind = Write THEN [i \in 1..m.fields[2] |-> b] ELSE <<>>

Fits(m) == Len(ToSlice(MessageShape, m)) <= BufSize

(* The user enters m, which is put together in the buffer.                 *)
Enters(m) ==
    /\ host = "prompt" /\ Len(asked) < MaxSends
    /\ asked' = Append(asked, m)
    /\ hostBuf' = IF Fits(m) THEN Filled(hostBuf, ToSlice(MessageShape, m)) ELSE hostBuf
    /\ UNCHANGED <<toHost, got, devVars>>

(* send_message, and the data of a Write right behind it.                  *)
Send(m) ==
    /\ Enters(m)
    /\ IF Fits(m)
       THEN /\ \E b \in DataBytes : toDev' = toDev \o FrameOf(m) \o DataOf(m, b)
            /\ sent' = IF broken THEN sent ELSE Append(sent, m)
            /\ host' = IF m.kind = Read THEN "data" ELSE "response"
       ELSE host' = "send failed" /\ UNCHANGED <<toDev, sent>>
    /\ UNCHANGED <<broken, gaveUp>>

(* After a failed transfer the REPL prompts again, after any other failed  *)
(* command it ends.                                                        *)
Fails(m) ==
    IF IsTransfer(m) THEN host' = "prompt" /\ gaveUp' = TRUE
    ELSE host' = "over" /\ UNCHANGED gaveUp

(* One of the writes of the length, the encoding and the data fails or     *)
(* times out when n bytes are out, and nobody takes them back.             *)
SendStops(m) ==
    /\ Enters(m) /\ Fits(m)
    /\ \E b \in DataBytes :
          LET all == FrameOf(m) \o DataOf(m, b) IN
          \E n \in 0..Len(all) - 1 :
             /\ toDev' = toDev \o SubSeq(all, 1, n)
             /\ sent' = IF ~broken /\ n >= Len(FrameOf(m)) THEN Append(sent, m) ELSE sent
             /\ broken' = (broken \/ n > 0)
    /\ Fails(m)

\* Mutant: the last byte of the data is left on the wire.
ReadData_short ==
    LET size == Last(asked).fields[2] IN
    /\ host = "data" /\ Len(toHost) >= size
    /\ toHost' = Dropped(toHost, size - 1)
    /\ host' = "response"
    /\ UNCHANGED <<toDev, hostBuf, asked, sent, broken, got, gaveUp, devVars>>

ReadData ==
    LET size == Last(asked).fields[2] IN
    /\ host = "data" /\ Len(toHost) >= size
    /\ toHost' = Dropped(toHost, size)
    /\ host' = "response"
    /\ UNCHANGED <<toDev, hostBuf, asked, sent, broken, got, gaveUp, devVars>>

(* read_response; the buffer is decoded whole, what an earlier frame left  *)
(* in it included, and a length beyond the buffer is a slice out of range. *)
ReadResponse ==
    /\ host = "response" /\ HasSize(toHost)
    /\ IF SizeAt(toHost) \notin 0..BufSize
       THEN host' = "panic" /\ UNCHANGED <<toHost, hostBuf, got, gaveUp>>
       ELSE /\ HasFrame(toHost)
            /\ toHost' = AfterFrame(toHost)
            /\ hostBuf' = Received(hostBuf, toHost)
            /\ LET r == FromBytes(ResponseShape, hostBuf') IN
               /\ got' = Append(got, r)
               /\ IF r = Error \/ (Last(asked).kind = Read /\ r.kind # 0) THEN Fails(Last(asked))
                  ELSE host' = "prompt" /\ UNCHANGED gaveUp
    /\ UNCHANGED <<toDev, asked, sent, broken, devVars>>

(* The device is slow.  What has come of the word, the frame or the data   *)
(* that was waited for is consumed.                                        *)
Timeout ==
    /\ host \in {"data", "response"}
    /\ \E n \in 0..Len(toHost) :
          /\ n < IF host = "data" THEN Last(asked).fields[2]
                 ELSE IF HasSize(toHost) /\ SizeAt(toHost) \in 0..BufSize
                 THEN 4 + SizeAt(toHost) ELSE 4
          /\ toHost' = Dropped(toHost, n)
    /\ Fails(Last(asked))
    /\ UNCHANGED <<toDev, hostBuf, asked, sent, broken, got, devVars>>

Quit == /\ host = "prompt" /\ host' = "over"
        /\ UNCHANGED <<wire, hostBuf, asked, sent, broken, got, gaveUp, devVars>>

-----------------------------------------------------------------------------
(* The payload: one turn of handler *)

(* A length beyond the buffer is a panic here, too, and panic_handler      *)
(* loops for ever.                                                         *)
ReadMessage ==
    /\ dev = "loop" /\ HasSize(toDev)
    /\ IF SizeAt(toDev) \notin 0..BufSize
       THEN dev' = "gone" /\ UNCHANGED <<toDev, devBuf, heard>>
       ELSE /\ HasFrame(toDev)
            /\ toDev' = AfterFrame(toDev)
            /\ devBuf' = Received(devBuf, toDev)
            /\ heard' = Append(heard, FromBytes(MessageShape, devBuf'))
            /\ dev' = "serve"
    /\ UNCHANGED <<toHost, told, hostVars>>

Ack == [kind |-> 0, fields |-> <<>>]
NackUnreachable == [kind |-> 1, fields |-> <<1>>]

Answers(m) == IF m = Error THEN {NackUnreachable} ELSE IF IsTransfer(m) THEN {Ack} ELSE Responses

(* The data of a transfer, and the response, which reuses the buffer.  A   *)
(* Write waits for all of its data, without a timeout.                     *)
Serve ==
    LET m == Last(heard)
        len == IF IsTransfer(m) THEN m.fields[2] ELSE 0 IN
    /\ dev = "serve" /\ len \in 0..MaxLen
    /\ m.kind = Write => Len(toDev) >= len
    /\ toDev' = IF m.kind = Write THEN Dropped(toDev, len) ELSE toDev
    /\ \E r \in Answers(m), b \in DataBytes :
          LET bytes == ToSlice(ResponseShape, r) IN
          /\ toHost' = toHost \o (IF m.kind = Read THEN [i \in 1..len |-> b] ELSE <<>>)
                              \o LenBytes(bytes) \o bytes
          /\ devBuf' = Filled(devBuf, bytes)
          /\ told' = Append(told, r)
    /\ dev' = "loop"
    /\ UNCHANGED <<heard, hostVars>>

(* A jump or a reset that does not come back, and a transfer that brings   *)
(* the payload down: any address is taken.                                 *)
Gone ==
    /\ dev = "serve" /\ Last(heard).kind \in {Read, Write, Jump, Reset}
    /\ dev' = "gone"
    /\ UNCHANGED <<wire, devBuf, heard, told, hostVars>>

Over == host \in {"over", "panic", "send failed"} /\ UNCHANGED vars

Next ==
    \/ \E m \in Requests : Send(m) \/ SendStops(m)
    \/ ReadData \/ ReadResponse \/ Timeout \/ Quit
    \/ ReadMessage \/ Serve \/ Gone \/ Over

Spec == Init /\ [][Next]_vars

-----------------------------------------------------------------------------
(* Properties *)

(* Every message fits the buffer, which is as large as a Message in        *)
(* memory, although a varint can take more bytes than the integer.         *)
SendsFit == host # "send failed"

(* The device hears the messages that were sent, one by one, whatever      *)
(* earlier frames have left in the buffer that it decodes, and whatever    *)
(* answers the host has given up.  When a write stops part-way the REPL    *)
(* goes on, and the device takes the next message for the rest of a frame  *)
(* or of the data: from there on it may hear anything, but what was        *)
(* written before, the frame with the missing data included, it has heard  *)
(* right.                                                                  *)
DeviceHears == IsPrefix(heard, sent) \/ (broken /\ IsPrefix(sent, heard))

(* So does the host, and it does not panic, as long as it has given up no  *)
(* transfer.                                                               *)
HostHears == ~gaveUp => IsPrefix(got, told) /\ host # "panic"
=============================================================================
