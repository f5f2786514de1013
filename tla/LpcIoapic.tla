------------------------------ MODULE LpcIoapic ------------------------------
(*
 * The I/O APIC: two memory registers (index and window), and the registers reached through them.
 * One definition for each enumeration, word type and register of
 * generated/lpc_ioapic.dev.h; Registers.tla says what their accessors do.
 *)
EXTENDS Registers

\* Enumerations

Num_delivery_mode == [fixed |-> 0, lowest |-> 1, smi |-> 2, nmi |-> 4, init |-> 5,
    extint |-> 7]
Num_dest_mode == [physical |-> 0, logical |-> 1]
Num_delivery_status == [idle |-> 0, pending |-> 1]
Num_polarity == [active_high |-> 0, active_low |-> 1]
Num_trigger_mode == [edge |-> 0, level |-> 1]

\* Word types

T_eoir == WordType(32, [rec |-> <<0, 8>>], 8 .. 31, {}, {})
T_id == WordType(32, [spb |-> <<15, 1>>, id |-> <<24, 4>>],
    {}, {}, (0 .. 14) \cup (16 .. 23) \cup (28 .. 31))
T_ver == WordType(32, [ver |-> <<0, 8>>, prq |-> <<15, 1>>, mre |-> <<16, 8>>],
    {}, {}, (8 .. 14) \cup (24 .. 31))
T_arb == WordType(32, [id |-> <<24, 4>>], {}, {}, (0 .. 23) \cup (28 .. 31))
T_redir_tbl == WordType(64, [vector |-> <<0, 8>>, mode |-> <<8, 3>>,
    destmode |-> <<11, 1>>, status |-> <<12, 1>>, polarity |-> <<13, 1>>,
    rirr |-> <<14, 1>>, trigger |-> <<15, 1>>, mask |-> <<16, 1>>,
    edid |-> <<48, 8>>, dest |-> <<56, 8>>], {}, {}, 17 .. 47)

\* Registers

R_ind == ReadWrite(Plain(32), <<"mem", 0>>, {})
R_wdw == ReadWrite(Plain(32), <<"mem", 16>>, {})
R_eoir == WriteOnly(T_eoir, <<"mem", 64>>)
R_id == ReadWrite(T_id, <<"index", 0>>, {})
R_ver == ReadOnly(T_ver, <<"index", 1>>)
R_arb == ReadOnly(T_arb, <<"index", 2>>)
R_redirtbl == [i \in 0 .. 23 |-> ReadWrite(T_redir_tbl, <<"index", 16 + 2 * i>>, {"status", "rirr", "edid"})]

\* Every register of the device, for checks of the whole table.
Device == {R_ind, R_wdw, R_eoir, R_id, R_ver, R_arb}
          \cup {R_redirtbl[i] : i \in DOMAIN R_redirtbl}
==============================================================================
