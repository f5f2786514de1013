------------------------------- MODULE LpcCmos -------------------------------
(*
 * The real-time clock and its CMOS memory, reached through index and target ports.
 * One definition for each enumeration, word type and register of
 * generated/lpc_cmos.dev.h; Registers.tla says what their accessors do.
 *)
EXTENDS Registers

\* Enumerations

Num_dcs == [normal |-> 2, divreset |-> 6, divreset2 |-> 7, bypass15 |-> 5,
    bypass10 |-> 4, bypass5 |-> 3]
Num_rate == [never |-> 0, ms3_90625_ |-> 1, ms7_8125_ |-> 2, us122_070 |-> 3,
    us244_141 |-> 4, us488_281 |-> 5, us976_5625 |-> 6, ms1_953125 |-> 7,
    ms3_906251 |-> 8, ms7_8125 |-> 9, ms15_625 |-> 10, ms31_25 |-> 11,
    ms62_5 |-> 12, ms125 |-> 13, ms250 |-> 14, ms500 |-> 15]

\* Word types

T_rega == WordType(8, [rs |-> <<0, 4>>, dv |-> <<4, 3>>, uip |-> <<7, 1>>],
    {}, {}, {})
T_regb == WordType(8, [dse |-> <<0, 1>>, hourform |-> <<1, 1>>, dm |-> <<2, 1>>,
    sqwe |-> <<3, 1>>, uie |-> <<4, 1>>, aie |-> <<5, 1>>, pie |-> <<6, 1>>,
    set |-> <<7, 1>>], {}, {}, {})
T_regc == WordType(8, [uf |-> <<4, 1>>, af |-> <<5, 1>>, pf |-> <<6, 1>>,
    irqf |-> <<7, 1>>], {}, {}, 0 .. 3)
T_regd == WordType(8, [al_date |-> <<0, 6>>], {7}, {}, {6})

\* Registers

R_ndx == ReadWrite(Plain(8), <<"io", 112>>, {})
R_target == ReadWrite(Plain(8), <<"io", 113>>, {})
R_standard == [i \in 0 .. 255 |-> ReadWrite(Plain(8), <<"std", 0 + i>>, {})]
R_endx == ReadWrite(Plain(8), <<"io", 114>>, {})
R_etarget == ReadWrite(Plain(8), <<"io", 115>>, {})
R_extended == [i \in 0 .. 255 |-> ReadWrite(Plain(8), <<"ext", 0 + i>>, {})]
R_seconds == ReadWrite(Plain(8), <<"std", 0>>, {})
R_al_seconds == ReadWrite(Plain(8), <<"std", 1>>, {})
R_minutes == ReadWrite(Plain(8), <<"std", 2>>, {})
R_al_minutes == ReadWrite(Plain(8), <<"std", 3>>, {})
R_hours == ReadWrite(Plain(8), <<"std", 4>>, {})
R_al_hours == ReadWrite(Plain(8), <<"std", 5>>, {})
R_weekday == ReadWrite(Plain(8), <<"std", 6>>, {})
R_date == ReadWrite(Plain(8), <<"std", 7>>, {})
R_month == ReadWrite(Plain(8), <<"std", 8>>, {})
R_year == ReadWrite(Plain(8), <<"std", 9>>, {})
R_rega == ReadWrite(T_rega, <<"std", 10>>, {})
R_regb == ReadWrite(T_regb, <<"std", 11>>, {})
R_regc == ReadOnly(T_regc, <<"std", 12>>)
R_regd == ReadWrite(T_regd, <<"std", 13>>, {})

\* Every register of the device, for checks of the whole table.
Device == {R_ndx, R_target, R_endx, R_etarget, R_seconds, R_al_seconds, R_minutes,
    R_al_minutes, R_hours, R_al_hours, R_weekday, R_date, R_month, R_year, R_rega,
    R_regb, R_regc, R_regd}
          \cup {R_standard[i] : i \in DOMAIN R_standard}
          \cup {R_extended[i] : i \in DOMAIN R_extended}
==============================================================================
