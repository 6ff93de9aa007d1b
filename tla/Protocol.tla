------------------------------ MODULE Protocol ------------------------------
(***************************************************************************)
(* crates/da-protocol: what the host and the payload say to each other.    *)
(*                                                                         *)
(* A frame is a length and a postcard encoding, and postcard encodes an    *)
(* enum by the position of its variant, not by the discriminant the enum   *)
(* declares; so a frame carries a position, and what it means depends on   *)
(* the type it is decoded as.  The bytes of a transfer travel on the same  *)
(* stream outside any frame.  Both directions are FIFO.                    *)
(*                                                                         *)
(* `re' is a history field: the number of the request an item belongs to.  *)
(***************************************************************************)
EXTENDS Integers, Sequences

VARIABLES
  toDev,    \* host to device: frames and the data of Write
  toHost    \* device to host: frames and the data of Read

wire == <<toDev, toHost>>

(* The variants of Message and Response, in the order of the source.       *)
MessageKinds ==
  <<"Ack", "Read", "Write", "FlushCache", "Jump", "Reset", "Hook",
    "GetFreeRange", "BlacklistRange", "SetParams">>

(* Mutant: Ack is not the first variant of Response.                       *)
ResponseKinds_nackFirst == <<"Nack", "Ack", "Range">>

ResponseKinds == <<"Ack", "Nack", "Range">>

(* postcard::to_slice of variant k of an enum.                             *)
Encode(kinds, k, arg, re) ==
  [tag |-> "frame", pos |-> CHOOSE i \in 1..Len(kinds) : kinds[i] = k,
   arg |-> arg, re |-> re]

(* The variant postcard::from_bytes finds; "Error" if there is none.       *)
Decode(kinds, item) ==
  IF item.tag = "frame" /\ item.pos \in 1..Len(kinds)
    THEN kinds[item.pos] ELSE "Error"

(* The fields of a variant are a record; Empty is that of a unit variant.  *)
Empty == [unit |-> 0]

Message(k, arg, re) == Encode(MessageKinds, k, arg, re)
Response(k, arg, re) == Encode(ResponseKinds, k, arg, re)

(* Raw bytes: length bytes of object obj, from offset off.                 *)
Data(obj, off, len, re) ==
  [tag |-> "data", pos |-> 0, arg |-> [obj |-> obj, off |-> off, len |-> len],
   re |-> re]
=============================================================================
