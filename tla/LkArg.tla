-------------------------------- MODULE LkArg -------------------------------
(***************************************************************************)
(* The argument that the host builds for LK (boot/lk_arg.rs): what it says *)
(* about the memory, and how the structs become bytes.                     *)
(*                                                                         *)
(* A struct is a sequence of <<name, type, count>>; repr(C) puts every     *)
(* field at the next multiple of its alignment and rounds the whole up to  *)
(* the largest one.  Sizes and addresses of memory are in MiB.             *)
(***************************************************************************)
EXTENDS Integers, Sequences, FiniteSets, FiniteSetsExt

CONSTANTS Sizes, \* values of --dram-size-per-rank, in MiB
          Ranks  \* values of --dram-ranks

VARIABLES input, \* what run_rpc_preloader passes to get_for_soc
          arg    \* the argument, or None

vars == <<input, arg>>

None == [soc |-> "none"]
SoCs == {"MT6572", "MT6582", "MT6595"}

-----------------------------------------------------------------------------
(* The structs *)

Prims == [u8 |-> 1, u32 |-> 4, u64 |-> 8]
Word32(name) == <<name, "u32", 1>>

(* Structs inside the others; ForbiddenMode is an enum of C's int.         *)
Nested ==
    [SecLimit |-> <<Word32("magic_num"), Word32("forbid_mode")>>,
     DAInfo6572 |-> <<Word32("addr"), Word32("arg1"), Word32("arg2")>>,
     DAInfo6595 |-> <<Word32("addr"), Word32("arg1"), Word32("arg2"), Word32("len"),
                      Word32("sig_len")>>,
     Mblock |-> <<<<"start", "u64", 1>>, <<"size", "u64", 1>>, Word32("rank"), Word32("_pad")>>,
     MemDesc |-> <<<<"start", "u64", 1>>, <<"size", "u64", 1>>>>,
     VcoreDvfsInfo |-> <<<<"settings", "u32", 8>>>>]

Head5 == <<Word32("magic"), Word32("mode"), Word32("e_flag"), Word32("log_port"),
           Word32("log_baudrate")>>
Boot4 == <<Word32("boot_reason"), Word32("meta_com_type"), Word32("meta_com_id"),
           Word32("boot_time")>>
Rank2 == <<Word32("dram_rank_num"), <<"dram_rank_size", "u32", 4>>>>
Tail4 == <<Word32("part_info"), <<"md_type", "u8", 4>>, Word32("ddr_reserve_enable"),
           Word32("ddr_reserve_success")>>

BootArgument6572 ==
    Head5 \o <<<<"log_enable", "u8", 1>>, <<"reserved", "u8", 3>>>> \o Rank2 \o Boot4
    \o <<<<"da_info", "DAInfo6572", 1>>, <<"sec_limit", "SecLimit", 1>>>>

BootArgument6582 ==
    Head5 \o <<<<"log_enable", "u8", 1>>, <<"part_num", "u8", 1>>, <<"reserved", "u8", 2>>>>
    \o Rank2 \o Boot4
    \o <<<<"da_info", "DAInfo6595", 1>>, <<"sec_limit", "SecLimit", 1>>>> \o Tail4

\* Mutant: the word before mblock_num is left out.
BootArgument6595_unpadded ==
    Head5 \o <<<<"log_enable", "u8", 1>>, <<"part_num", "u8", 1>>, <<"_pad1", "u8", 2>>>>
    \o Rank2 \o <<Word32("mblock_num"), Word32("_pad3"), <<"mblock", "Mblock", 4>>>>
    \o <<Word32("orig_dram_num"), Word32("_pad4"), <<"orig_dram_info", "MemDesc", 4>>>>
    \o <<<<"lca_reserved_mem", "MemDesc", 1>>, <<"tee_reserved_mem", "MemDesc", 1>>>> \o Boot4
    \o <<<<"da_info", "DAInfo6595", 1>>, <<"sec_limit", "SecLimit", 1>>>> \o Tail4
    \o <<<<"vcore_dvfs_info", "VcoreDvfsInfo", 1>>, <<"rest", "u32", 7>>>>

(* rest is dram_buf_size to non_secure_sram_size.                          *)
BootArgument6595 ==
    Head5 \o <<<<"log_enable", "u8", 1>>, <<"part_num", "u8", 1>>, <<"_pad1", "u8", 2>>>>
    \o Rank2 \o <<Word32("_pad2")>>
    \o <<Word32("mblock_num"), Word32("_pad3"), <<"mblock", "Mblock", 4>>>>
    \o <<Word32("orig_dram_num"), Word32("_pad4"), <<"orig_dram_info", "MemDesc", 4>>>>
    \o <<<<"lca_reserved_mem", "MemDesc", 1>>, <<"tee_reserved_mem", "MemDesc", 1>>>> \o Boot4
    \o <<<<"da_info", "DAInfo6595", 1>>, <<"sec_limit", "SecLimit", 1>>>> \o Tail4
    \o <<<<"vcore_dvfs_info", "VcoreDvfsInfo", 1>>, <<"rest", "u32", 7>>>>

StructOf(soc) == CASE soc = "MT6572" -> BootArgument6572
                   [] soc = "MT6582" -> BootArgument6582
                   [] soc = "MT6595" -> BootArgument6595

-----------------------------------------------------------------------------
(* repr(C), of a struct s whose types have sizes Sz and alignments Al *)

Up(n, a) == ((n + a - 1) \div a) * a

Offsets(s, Sz, Al) ==
    LET at[i \in 1..Len(s)] ==
            IF i = 1 THEN 0
            ELSE Up(at[i - 1] + Sz[s[i - 1][2]] * s[i - 1][3], Al[s[i][2]])
    IN  [i \in 1..Len(s) |-> at[i]]

AlignOf(s, Al) == Max({Al[s[i][2]] : i \in 1..Len(s)})
EndOf(s, Sz, Al) == LET n == Len(s) IN Offsets(s, Sz, Al)[n] + Sz[s[n][2]] * s[n][3]
SizeOf(s, Sz, Al) == Up(EndOf(s, Sz, Al), AlignOf(s, Al))

TypeNames == DOMAIN Prims \cup DOMAIN Nested
Aligns == [t \in TypeNames |-> IF t \in DOMAIN Prims THEN Prims[t] ELSE AlignOf(Nested[t], Prims)]
SizesOf == [t \in TypeNames |-> IF t \in DOMAIN Prims THEN Prims[t]
                                ELSE SizeOf(Nested[t], Prims, Prims)]

(* The bytes of a struct that belong to no field.                          *)
Holes(s, Sz, Al) ==
    (0..SizeOf(s, Sz, Al) - 1)
        \ UNION {Offsets(s, Sz, Al)[i] .. Offsets(s, Sz, Al)[i] + Sz[s[i][2]] * s[i][3] - 1
                    : i \in 1..Len(s)}

-----------------------------------------------------------------------------
(* The values *)

LkBootModes == (0..7) \cup {99, 100}

RankSizes(size, ranks) == [i \in 1..4 |-> IF i - 1 < ranks THEN size ELSE 0]

Block(start, size, rank) == [start |-> start, size |-> size, rank |-> rank]

(* The memory of the mt6595, two ranks from 0x40000000 on, in mblock and   *)
(* in orig_dram_info, whatever the command line says.                      *)
Blocks == <<Block(1024, 1024, 0), Block(2048, 1024, 1)>>

lk(soc, mode, size, ranks) ==
    [soc |-> soc, mode |-> mode,
     log_port |-> IF soc = "MT6572" THEN 285233152 ELSE 285220864,
     dram_rank_num |-> ranks, dram_rank_size |-> RankSizes(size, ranks),
     mblock |-> IF soc = "MT6595" THEN Blocks ELSE <<>>,
     bytes |-> SizeOf(StructOf(soc), SizesOf, Aligns)]

(* get_for_soc and as_bytes, called once per boot of LK.                   *)
get_for_soc ==
    /\ arg = None
    /\ arg' = lk(input.soc, input.mode, input.size, input.ranks)
    /\ UNCHANGED input

Init ==
    /\ arg = None
    /\ input \in [soc : SoCs, mode : LkBootModes, size : Sizes, ranks : Ranks]

Sent == arg # None /\ UNCHANGED vars

Spec == Init /\ [][get_for_soc \/ Sent]_vars

-----------------------------------------------------------------------------
(* Properties *)

(* What LK reads is sound.  as_bytes, which reads the struct as raw        *)
(* memory, reads no byte that was never written: neither the argument nor  *)
(* a struct inside it has a hole.  LK walks the first dram_rank_num        *)
(* entries of dram_rank_size: as long as there are that many, it sees all  *)
(* the memory the user has described, and nothing behind it; and the       *)
(* blocks of the mt6595 tell the same as its ranks for two of 1024 MiB.    *)
ArgumentSound ==
    arg # None =>
        LET s == StructOf(arg.soc) IN
        /\ Holes(s, SizesOf, Aligns) = {}
        /\ \A i \in 1..Len(s) :
              s[i][2] \in DOMAIN Nested => Holes(Nested[s[i][2]], Prims, Prims) = {}
        /\ input.ranks <= 4 =>
              \A i \in 1..4 :
                 arg.dram_rank_size[i] = IF i <= arg.dram_rank_num THEN input.size ELSE 0
        /\ arg.soc = "MT6595" /\ input.size = 1024 /\ input.ranks = 2 =>
              \A i \in 1..Len(arg.mblock) :
                 /\ arg.mblock[i].rank = i - 1
                 /\ arg.mblock[i].size = arg.dram_rank_size[i]
                 /\ i > 1 => arg.mblock[i].start = arg.mblock[i - 1].start + arg.mblock[i - 1].size
=============================================================================
