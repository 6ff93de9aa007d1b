------------------------------ MODULE Commands ------------------------------
(***************************************************************************)
(* The commands of crates/da-boot/src/commands, as declared there, and the *)
(* generated methods running on an open port, which is two FIFOs of bytes. *)
(***************************************************************************)
EXTENDS Macro

VARIABLES toDev,  \* bytes written to the port that the device has not taken
          toHost, \* bytes of the device that the host has not read
          run     \* the generated method under way, see Begin

-----------------------------------------------------------------------------
(* The declarations.  F(i, t, a) is a field, Rx and the like its attributes. *)

F(ident, ty, attrs) == [ident |-> ident, ty |-> ty, attrs |-> attrs]
IsEcho == [echo |-> TRUE]
IsTx == [tx |-> TRUE]
IsRx == [rx |-> TRUE]
HasStatus(v) == [rx |-> TRUE, status |-> v]
Fixed(v) == [tx |-> TRUE, always |-> v]

GetTargetConfig ==
    [command |-> 216, echo |-> TRUE,
     fields |-> <<F("config", "u32", IsRx), F("status", "u16", HasStatus(0))>>]

GetHwCode ==
    [command |-> 253, echo |-> TRUE,
     fields |-> <<F("hwcode", "u16", [rx |-> TRUE, getter |-> TRUE]),
                  F("status", "u16", HasStatus(0))>>]

SendDA ==
    [command |-> 215, echo |-> TRUE,
     fields |-> <<F("addr", "u32", IsEcho), F("payload_len", "u32", IsEcho),
                  F("da_sig_len", "u32", IsEcho), F("zero_status", "u16", HasStatus(0)),
                  F("payload", "slice", IsTx), F("checksum", "u16", IsRx),
                  F("status", "u16", HasStatus(0))>>]

JumpDA ==
    [command |-> 213, echo |-> TRUE,
     fields |-> <<F("addr", "u32", IsEcho), F("status", "u16", HasStatus(0))>>]

\* Mutant: the struct ends before the second status.
Read32_noFinalStatus ==
    [command |-> 209, echo |-> TRUE,
     fields |-> <<F("addr", "u32", IsEcho), F("dwords", "u32", IsEcho),
                  F("status", "u16", HasStatus(0)),
                  F("buf", "vec", [rx |-> TRUE, getter |-> TRUE, size |-> "dwords"])>>]

Read32 ==
    [command |-> 209, echo |-> TRUE,
     fields |-> <<F("addr", "u32", IsEcho), F("dwords", "u32", IsEcho),
                  F("status", "u16", HasStatus(0)),
                  F("buf", "vec", [rx |-> TRUE, getter |-> TRUE, size |-> "dwords"]),
                  F("final_status", "u16", HasStatus(0))>>]

Write32 ==
    [command |-> 123, echo |-> FALSE,
     fields |-> <<F("addr", "u32", IsTx), F("data", "u32", IsTx),
                  F("ack", "u8", HasStatus(90))>>]

DA1Setup ==
    [command |-> Naked, echo |-> FALSE,
     fields |-> <<F("sync", "u8", HasStatus(192)),
                  F("nand_ret", "u32", IsRx), F("nand_id_count", "u16", IsRx),
                  F("_nand_id1", "u16", IsRx), F("_nand_id2", "u16", IsRx),
                  F("_nand_id3", "u16", IsRx), F("_nand_id4", "u16", IsRx),
                  F("emmc_ret", "u32", IsRx),
                  F("_emmc_id1", "u32", IsRx), F("_emmc_id2", "u32", IsRx),
                  F("_emmc_id3", "u32", IsRx), F("_emmc_id4", "u32", IsRx),
                  F("_cont", "u8", Fixed(0)),
                  F("minor", "u8", IsRx), F("major", "u8", IsRx), F("_unknown", "u8", IsRx),
                  F("brom_version", "u8", Fixed(1)), F("preloader_version", "u8", Fixed(1)),
                  F("_nor_chip_select1", "u8", Fixed(0)), F("_nor_chip_select2", "u8", Fixed(0)),
                  F("_nand_chip_select", "u8", Fixed(0)), F("_nand_acccon", "u32", Fixed(0)),
                  F("bmt_present", "u8", Fixed(0)), F("bmt_size", "u32", Fixed(0)),
                  F("charge_mode", "u8", Fixed(2)), F("reset_mode", "u8", Fixed(82)),
                  F("external_clock_freq", "u8", Fixed(2)), F("msdc_channel", "u8", Fixed(0)),
                  F("dram_status", "u32", HasStatus(0))>>]

Structs == [GetTargetConfig |-> GetTargetConfig, GetHwCode |-> GetHwCode,
            SendDA |-> SendDA, JumpDA |-> JumpDA, Read32 |-> Read32,
            Write32 |-> Write32, DA1Setup |-> DA1Setup]
CodeOf == [name \in DOMAIN Structs |-> Code(Structs[name])]

-----------------------------------------------------------------------------
(* Running the generated method *)

NotRunning == [name |-> "none", ip |-> 1, self |-> <<>>, tmp |-> 0, out |-> "ok"]

(* The struct of this name is built with args, and its run is called.      *)
Begin(name, args) ==
    run' = [name |-> name, ip |-> 1, self |-> New(Structs[name], args),
            tmp |-> 0, out |-> "running"]

Running == run.out = "running"
AtEnd == run.ip > Len(CodeOf[run.name])
Cur == CodeOf[run.name][run.ip]
At(op) == Running /\ ~AtEnd /\ Cur.op = op
Advanced == [run EXCEPT !.ip = @ + 1]

Return(out) == run' = [run EXCEPT !.out = out]

Local == UNCHANGED <<toDev, toHost>>

Load == At("load") /\ run' = [Advanced EXCEPT !.tmp = run.self[Cur.ident]] /\ Local
Store == At("store") /\ run' = [Advanced EXCEPT !.self[Cur.ident] = run.tmp] /\ Local
Always == At("always") /\ run' = [Advanced EXCEPT !.self[Cur.ident] = Cur.attrs.always] /\ Local

(* Both sides of the comparison are cut to 16 bits, whatever the type of   *)
(* the field.                                                              *)
Status ==
    /\ At("status")
    /\ IF run.tmp % U16 # Cur.attrs.status % U16 THEN Return("status") ELSE run' = Advanced
    /\ Local

EchoStatus ==
    /\ At("echo_status")
    /\ IF run.tmp # run.self[Cur.ident] THEN Return("echo") ELSE run' = Advanced
    /\ Local

Tx ==
    /\ At("tx")
    /\ toDev' = toDev \o (IF Cur.ty = "slice" THEN run.tmp ELSE Bytes(run.tmp, Width(Cur.ty)))
    /\ run' = Advanced
    /\ UNCHANGED toHost

(* The loop over 0..self.#size ends here.                                  *)
Pushed == At("push") /\ Len(run.self[Cur.ident]) = run.self[Cur.attrs.size]

Needs == IF At("rx") \/ (At("push") /\ ~Pushed) THEN Width(Cur.ty) ELSE 0
Reads == Needs > 0 /\ Len(toHost) >= Needs
Read == Word(SubSeq(toHost, 1, Needs))

Rx ==
    /\ At("rx") /\ Reads
    /\ run' = [Advanced EXCEPT !.tmp = Read]
    /\ toHost' = SubSeq(toHost, Needs + 1, Len(toHost))
    /\ UNCHANGED toDev

Push ==
    /\ At("push") /\ Reads
    /\ run' = [run EXCEPT !.self[Cur.ident] = Append(@, Read)]
    /\ toHost' = SubSeq(toHost, Needs + 1, Len(toHost))
    /\ UNCHANGED toDev

PushEnds == Pushed /\ run' = Advanced /\ Local

(* The two seconds of the port are over, and the bytes of a word that came *)
(* so far are lost.                                                        *)
ReadTimesOut ==
    /\ Needs > 0 /\ ~Reads
    /\ Return("io") /\ toHost' = <<>>
    /\ UNCHANGED toDev

Returns == Running /\ AtEnd /\ Return("ok") /\ Local

RunStep == \/ Load \/ Store \/ Always \/ Status \/ EchoStatus \/ Tx
           \/ Rx \/ Push \/ PushEnds \/ ReadTimesOut \/ Returns
=============================================================================
