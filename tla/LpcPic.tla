-------------------------------- MODULE LpcPic --------------------------------
(*
 * The two 8259 interrupt controllers (ports relative to the base, 0).
 * One definition for each enumeration, word type and register of
 * generated/lpc_pic.dev.h; Registers.tla says what their accessors do.
 *)
EXTENDS Registers

\* Enumerations

Num_rrc == [read_irq |-> 2, read_is |-> 3]
Num_rsleoi == [raeoic |-> 0, eoi |-> 1, seoi |-> 3, raeois |-> 4, reoi |-> 5,
    sp |-> 6, rseoi |-> 7]

\* Word types

T_icw1 == WordType(8, [ltim |-> <<3, 1>>], {1, 2} \cup (5 .. 7), {0, 4}, {})
T_icw2 == WordType(8, [req_level |-> <<0, 3>>, base |-> <<3, 5>>], {}, {}, {})
T_pic_master_icw3 == WordType(8, [cascade |-> <<2, 1>>],
    {0, 1} \cup (3 .. 7), {}, {})
T_pic_slave_icw3 == WordType(8, [slave_id |-> <<0, 3>>], 3 .. 7, {}, {})
T_icw4 == WordType(8, [aeoi |-> <<1, 1>>, sfnm |-> <<4, 1>>],
    {2, 3} \cup (5 .. 7), {0}, {})
T_ocw2 == WordType(8, [level |-> <<0, 3>>, rsleoi |-> <<5, 3>>], {3, 4}, {}, {})
T_ocw3 == WordType(8, [rrc |-> <<0, 2>>, pmc |-> <<2, 1>>, esmm |-> <<5, 1>>,
    smm |-> <<6, 1>>], {4, 7}, {3}, {})
T_pic_master_trigger == WordType(8, [irq3_ecl |-> <<3, 1>>, irq4_ecl |-> <<4, 1>>,
    irq5_ecl |-> <<5, 1>>, irq6_ecl |-> <<6, 1>>, irq7_ecl |-> <<7, 1>>],
    0 .. 2, {}, {})
T_pic_slave_trigger == WordType(8, [irq9_ecl |-> <<1, 1>>, irq10_ecl |-> <<2, 1>>,
    irq11_ecl |-> <<3, 1>>, irq12_ecl |-> <<4, 1>>, irq14_ecl |-> <<6, 1>>,
    irq15_ecl |-> <<7, 1>>], {0, 5}, {}, {})

\* Registers

R_master_icw1 == WriteOnly(T_icw1, <<"io", 32>>)
R_master_ocw2 == WriteOnly(T_ocw2, <<"io", 32>>)
R_master_ocw3 == WriteOnly(T_ocw3, <<"io", 32>>)
R_master_ocw3rd == ReadOnly(Plain(8), <<"io", 32>>)
R_master_icw2 == WriteOnly(T_icw2, <<"io", 33>>)
R_master_icw3 == WriteOnly(T_pic_master_icw3, <<"io", 33>>)
R_master_icw4 == WriteOnly(T_icw4, <<"io", 33>>)
R_master_ocw1 == ReadWrite(Plain(8), <<"io", 33>>, {})
R_slave_icw1 == WriteOnly(T_icw1, <<"io", 160>>)
R_slave_ocw2 == WriteOnly(T_ocw2, <<"io", 160>>)
R_slave_ocw3 == WriteOnly(T_ocw3, <<"io", 160>>)
R_slave_ocw3rd == ReadOnly(Plain(8), <<"io", 160>>)
R_slave_icw2 == WriteOnly(T_icw2, <<"io", 161>>)
R_slave_icw3 == WriteOnly(T_pic_slave_icw3, <<"io", 161>>)
R_slave_icw4 == WriteOnly(T_icw4, <<"io", 161>>)
R_slave_ocw1 == ReadWrite(Plain(8), <<"io", 161>>, {})
R_master_trigger == ReadWrite(T_pic_master_trigger, <<"io", 1232>>, {})
R_slave_trigger == ReadWrite(T_pic_slave_trigger, <<"io", 1233>>, {})

\* Every register of the device, for checks of the whole table.
Device == {R_master_icw1, R_master_ocw2, R_master_ocw3, R_master_ocw3rd,
    R_master_icw2, R_master_icw3, R_master_icw4, R_master_ocw1, R_slave_icw1,
    R_slave_ocw2, R_slave_ocw3, R_slave_ocw3rd, R_slave_icw2, R_slave_icw3,
    R_slave_icw4, R_slave_ocw1, R_master_trigger, R_slave_trigger}
==============================================================================
