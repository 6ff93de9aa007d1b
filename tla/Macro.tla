------------------------------- MODULE Macro -------------------------------
(***************************************************************************)
(* #[derive(Protocol)] of crates/da-boot-macros: how the attributes of a   *)
(* struct become the method run, and how words go over the port.           *)
(*                                                                         *)
(* A struct is [command, echo, fields]; command is Naked for a struct      *)
(* without one.  A field is [ident, ty, attrs] with attrs a function whose *)
(* domain is the set of attributes written on it.  Code is the generated   *)
(* method, one item per fragment of Codegen; Commands runs it.             *)
(*                                                                         *)
(* A u32 is the integer in -2^31..2^31-1 congruent to it modulo 2^32,      *)
(* which keeps equality, the cut to 16 bits and the bytes, and fits the    *)
(* integers of TLC.                                                        *)
(***************************************************************************)
EXTENDS Integers, SequencesExt

U16 == 2^16
Naked == -1

-----------------------------------------------------------------------------
(* structs.rs: attributes *)

\* Mutant: a field marked rx with a status is taken for a plain rx field.
FieldType_plainStatus(attrs) ==
    LET has == DOMAIN attrs
        dir == has \cap {"tx", "rx", "echo", "ack"} IN
    IF Cardinality(dir) # 1 THEN "error"
    ELSE IF "rx" \in has THEN (IF "size" \in has THEN "size" ELSE "rx")
    ELSE CHOOSE d \in dir : TRUE

(* FieldType::try_from: exactly one direction; a tx field has no status,   *)
(* size or getter; status and size exclude each other.                     *)
FieldType(attrs) ==
    LET has == DOMAIN attrs
        dir == has \cap {"tx", "rx", "echo", "ack"} IN
    IF \/ Cardinality(dir) # 1
       \/ "tx" \in has /\ has \cap {"status", "size", "getter"} # {}
       \/ {"rx", "status", "size"} \subseteq has
    THEN "error"
    ELSE IF "rx" \in has /\ has \cap {"status", "size"} # {}
    THEN CHOOSE t \in {"status", "size"} : t \in has
    ELSE CHOOSE d \in dir : TRUE

-----------------------------------------------------------------------------
(* protocol.rs: code *)

Item(op, f) == [op |-> op, ident |-> f.ident, ty |-> f.ty, attrs |-> f.attrs]
Items(ops, f) == [i \in 1..Len(ops) |-> Item(ops[i], f)]

(* The arms for one field.  The order inside an arm is the order of the    *)
(* calls on Codegen; a reference is always sent.                           *)
FieldCode(f) ==
    LET t == FieldType(f.attrs) IN
    Items(IF f.ty = "slice" THEN <<"load", "tx">>
          ELSE CASE t = "echo"   -> <<"load", "tx", "rx", "echo_status", "store">>
                 [] t = "tx"     -> IF "always" \in DOMAIN f.attrs
                                    THEN <<"always", "load", "tx">> ELSE <<"load", "tx">>
                 [] t = "rx"     -> <<"rx", "store">>
                 [] t = "status" -> <<"rx", "status", "store">>
                 [] t = "size"   -> <<"push">>
                 [] t = "ack"    -> IF f.attrs.ack = "tx_then_rx"
                                    THEN <<"load", "tx", "rx", "echo_status", "store">>
                                    ELSE <<"rx", "store", "load", "tx">>, f)

\* Mutant: the echo of the command byte is read after the fields.
Code_lateEcho(s) ==
    LET c == [ident |-> "command", ty |-> "u8", attrs |-> <<>>] IN
    (IF s.command = Naked THEN <<>> ELSE Items(<<"load", "tx">>, c))
        \o FlattenSeq([i \in 1..Len(s.fields) |-> FieldCode(s.fields[i])])
        \o (IF s.echo THEN Items(<<"rx", "echo_status">>, c) ELSE <<>>)

(* The body of run: the command byte, with its echo if the struct has the  *)
(* attribute, and then the fields in the order of their declaration.       *)
Code(s) ==
    LET c == [ident |-> "command", ty |-> "u8", attrs |-> <<>>] IN
    (IF s.command = Naked THEN <<>>
     ELSE Items(IF s.echo THEN <<"load", "tx", "rx", "echo_status">>
                ELSE <<"load", "tx">>, c))
        \o FlattenSeq([i \in 1..Len(s.fields) |-> FieldCode(s.fields[i])])

(* The fields the generated constructor takes; the others are Default.     *)
IsArgument(f) == FieldType(f.attrs) \in {"echo", "ack"} \/
                 (FieldType(f.attrs) = "tx" /\ "always" \notin DOMAIN f.attrs)
Arguments(s) == SelectSeq(s.fields, IsArgument)
Results(s) == SelectSeq(s.fields, LAMBDA f : FieldType(f.attrs) \in {"rx", "size"})

(* new: arguments in the order of the fields. *)
New(s, args) ==
    LET names == {s.fields[i].ident : i \in 1..Len(s.fields)}
        as == Arguments(s)
        Pos(x) == {i \in 1..Len(as) : as[i].ident = x} IN
    [x \in names \cup {"command"} |->
        IF x = "command" THEN s.command
        ELSE IF Pos(x) # {} THEN args[CHOOSE i \in Pos(x) : TRUE]
        ELSE IF \E i \in 1..Len(s.fields) : s.fields[i].ident = x /\ s.fields[i].ty = "vec"
        THEN <<>> ELSE 0]

-----------------------------------------------------------------------------
(* simpleport: words on the port, most significant byte first *)

Width(ty) == CASE ty = "u8" -> 1 [] ty = "u16" -> 2 [] ty \in {"u32", "vec"} -> 4

Bytes(v, n) == [i \in 1..n |-> (v \div 256 ^ (n - i)) % 256]

\* Mutant: the least significant byte of a u16 first.
Word_le16(bs) ==
    LET top == IF Len(bs) = 4 /\ bs[1] >= 128 THEN bs[1] - 256 ELSE bs[1] IN
    IF Len(bs) = 2 THEN bs[2] * 256 + bs[1]
    ELSE FoldLeft(LAMBDA acc, b : acc * 256 + b, top, Tail(bs))

Word(bs) ==
    LET top == IF Len(bs) = 4 /\ bs[1] >= 128 THEN bs[1] - 256 ELSE bs[1] IN
    FoldLeft(LAMBDA acc, b : acc * 256 + b, top, Tail(bs))
=============================================================================
