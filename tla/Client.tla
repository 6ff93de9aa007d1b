------------------------------- MODULE Client -------------------------------
(***************************************************************************)
(* The payload with a client that may send any message of the protocol at  *)
(* any time, in any order and on either build, not only what da-boot sends *)
(* today: it speaks the protocol (one request at a time, the data of a     *)
(* Write behind its message) but owes the payload nothing else.  A range   *)
(* the payload grants may be reserved or ignored.                          *)
(***************************************************************************)
EXTENDS Payload

CONSTANTS
  Loads,         \* how the payload is loaded: [which, addr, params]
  ClientMessages,\* the messages, a sequence of [kind, arg]
  MaxRequests    \* how many requests are explored

(* As for find_unused_range, the memory ends below the top of the address  *)
(* space, and so does the image where it is loaded.                        *)
ASSUME LoadsAssumption ==
  Loads \subseteq [which : {"brom", "pl"}, addr : {a \in U32 : a + ImageSize <= U32Max},
                   params : [memory : {m \in MemoryRange : m.end < U32Max},
                             blacklist : Seq(BlacklistRange)]]
ASSUME MaxRequestsAssumption == MaxRequests \in Nat

(* The fields that are numbers are numbers; "junk" is a frame that decodes *)
(* as no message.                                                          *)
ASSUME ClientMessagesAssumption ==
  \A i \in 1..Len(ClientMessages) :
    LET m == ClientMessages[i]
    IN  /\ m.kind = "junk" \/ \E k \in 1..Len(MessageKinds) : m.kind = MessageKinds[k]
        /\ m.kind = "Jump" => m.arg.addr \in U32
        /\ m.kind = "GetFreeRange" => m.arg.size \in U32

VARIABLES
  sent,      \* the number of requests so far
  pending,   \* a request has not been answered
  asked,     \* the size asked for by the last GetFreeRange
  grant,     \* the range the payload granted last, NoRange if none
  reserved   \* the granted ranges that were reserved, in order

client == <<sent, pending, asked, grant, reserved>>
vars == <<client, dev, wire>>

Init ==
  /\ \E l \in Loads :
       /\ DeviceInit(IF l.which = "brom" THEN "rom" ELSE "preloader")
  /\ toDev = <<>> /\ toHost = <<>>
  /\ sent = 0 /\ pending = FALSE /\ asked = 0 /\ grant = NoRange /\ reserved = <<>>

Load ==
  /\ \E l \in Loads : LoadPayload(l.which, l.addr, l.params)
  /\ UNCHANGED <<client, wire>>

Greet ==
  /\ phase = "hello"
  /\ toHost # <<>> /\ Decode(MessageKinds, Head(toHost)) = "Ack"
  /\ toHost' = Tail(toHost)
  /\ toDev' = Append(toDev, Message("Ack", Empty, 0))
  /\ UNCHANGED <<client, dev>>

Submit(items) ==
  /\ phase = "serving" /\ ~ pending /\ toDev = <<>>
  /\ sent < MaxRequests
  /\ sent' = sent + 1
  /\ pending' = TRUE
  /\ toDev' = items
  /\ UNCHANGED <<reserved, dev, toHost>>

(* Any message, as request number n.                                       *)
Items(m, n) ==
  CASE m.kind = "Write" -> <<Message("Write", m.arg, n),
                             Data(<<"repl", n>>, 0, m.arg.size, n)>>
    [] m.kind = "junk" -> <<[Message("Ack", Empty, n) EXCEPT !.pos = 99]>>
    [] OTHER -> <<Message(m.kind, m.arg, n)>>

Request ==
  /\ \E i \in 1..Len(ClientMessages) :
       /\ Submit(Items(ClientMessages[i], sent + 1))
       /\ asked' = IF ClientMessages[i].kind = "GetFreeRange"
                     THEN ClientMessages[i].arg.size ELSE 0
  /\ grant' = NoRange

(* As the host does, one byte more than was asked for.                     *)
ReserveGrant ==
  /\ grant # NoRange
  /\ Submit(<<Message("BlacklistRange", [grant EXCEPT !.end = @ + 1], sent + 1)>>)
  /\ UNCHANGED <<asked, grant>>

(* An answer: an Ack to ReserveGrant makes the grant the client's own.     *)
Answer ==
  /\ pending
  /\ toHost # <<>>
  /\ LET last == toHost[Len(toHost)]
         kind == Decode(ResponseKinds, last)
     IN  /\ grant' = IF kind = "Range" /\ last.arg.start # NoRange.start
                       THEN Range(last.arg.start, asked) ELSE NoRange
         /\ reserved' = IF kind = "Ack" /\ grant # NoRange
                          THEN Append(reserved, grant) ELSE reserved
  /\ toHost' = <<>>
  /\ pending' = FALSE
  /\ UNCHANGED <<sent, asked, dev, toDev>>

DeviceStep == PayloadStep /\ UNCHANGED client

(* The session is over: no more requests, or nobody to answer them.        *)
Gone == {"halted", "crashed", "booted", "reset"}

Done ==
  /\ (sent = MaxRequests /\ ~ pending) \/ phase \in Gone
  /\ UNCHANGED vars

Next == Load \/ Greet \/ Request \/ ReserveGrant \/ Answer \/ DeviceStep \/ Done

Spec == Init /\ [][Next]_vars /\ WF_vars(DeviceStep) /\ WF_vars(Answer)

-----------------------------------------------------------------------------
(* Every request is answered, with the request's own answer, unless it     *)
(* sends the payload away: no arm of the command loop forgets to answer    *)
(* and none answers twice.                                                 *)
EveryRequestAnswered == pending ~> ~ pending \/ phase \in Gone

(* At rest there is nothing in flight, and a request that was taken has    *)
(* exactly one response, behind the bytes of a Read.                       *)
OneAnswer ==
  phase = "serving" =>
    /\ ~ pending => toHost = <<>>
    /\ pending /\ toDev # <<>> => toHost = <<>>
    /\ pending /\ toDev = <<>> =>
         LET n == Len(toHost)
         IN  /\ n \in 1..2
             /\ Decode(ResponseKinds, toHost[n]) # "Error" /\ toHost[n].re = sent
             /\ n = 2 => toHost[1].tag = "data" /\ toHost[1].re = sent

(* What the payload keeps for itself and what it grants and is told to     *)
(* reserve never overlap, however many of each there are.                  *)
GrantsDisjoint ==
  /\ \A i, j \in 1..Len(reserved) : i # j => ~ Overlap(reserved[i], reserved[j])
  /\ \A i \in 1..Len(reserved), r \in OwnRanges : ~ Overlap(reserved[i], r)

(* A slot of the blacklist, once taken, is never changed or dropped by any *)
(* message.                                                                *)
SlotsKept ==
  [][phase \notin {"rom", "preloader"} =>
       /\ Len(params'.blacklist) >= Len(params.blacklist)
       /\ SubSeq(params'.blacklist, 1, Len(params.blacklist)) = params.blacklist]_vars

=============================================================================
