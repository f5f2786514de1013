------------------------------- MODULE LpcTimer -------------------------------
(*
 * The 8254 timer (ports relative to the base, 0x40).
 * One definition for each enumeration, word type and register of
 * generated/lpc_timer.dev.h; Registers.tla says what their accessors do.
 *)
EXTENDS Registers

\* Enumerations

Num_cnt_mode == [oseoc |-> 0, hr1s |-> 1, rtgen |-> 2, rtgen_ |-> 6, sqwav |-> 3,
    sqwav_ |-> 7, swstr |-> 4, hwstr |-> 5]
Num_timer_rwsel == [clc |-> 0, lsb |-> 1, msb |-> 2, lmsb |-> 3]
Num_timer_cntsel == [c0 |-> 0, c1 |-> 1, c2 |-> 2, rb |-> 3]

\* Word types

T_tcw == WordType(8, [bcd |-> <<0, 1>>, mode |-> <<1, 3>>, rwsel |-> <<4, 2>>,
    select |-> <<6, 2>>], {}, {}, {})
T_rdbk_cmd == WordType(8, [c0 |-> <<1, 1>>, c1 |-> <<2, 1>>, c2 |-> <<3, 1>>,
    stat |-> <<4, 1>>, count |-> <<5, 1>>], {0}, {6, 7}, {})
T_ltch_cmd == WordType(8, [select |-> <<6, 2>>], 0 .. 5, {}, {})
T_sbyte_fmt == WordType(8, [bcd |-> <<0, 1>>, mode |-> <<1, 3>>, rwsel |-> <<4, 2>>,
    cnt_stat |-> <<6, 1>>, cnt_out |-> <<7, 1>>], {}, {}, {})

\* Registers

R_tcw == WriteOnly(T_tcw, <<"io", 3>>)
R_rdbk_cmd == WriteOnly(T_rdbk_cmd, <<"io", 3>>)
R_ltch_cmd == WriteOnly(T_ltch_cmd, <<"io", 3>>)
R_sbyte_fmt0 == ReadOnly(T_sbyte_fmt, <<"io", 0>>)
R_sbyte_fmt1 == ReadOnly(T_sbyte_fmt, <<"io", 1>>)
R_sbyte_fmt2 == ReadOnly(T_sbyte_fmt, <<"io", 2>>)
R_cntacc0 == ReadWrite(Plain(8), <<"io", 0>>, {})
R_cntacc1 == ReadWrite(Plain(8), <<"io", 1>>, {})
R_cntacc2 == ReadWrite(Plain(8), <<"io", 2>>, {})

\* Every register of the device, for checks of the whole table.
Device == {R_tcw, R_rdbk_cmd, R_ltch_cmd, R_sbyte_fmt0, R_sbyte_fmt1, R_sbyte_fmt2,
    R_cntacc0, R_cntacc1, R_cntacc2}
==============================================================================
