-------------------------------- MODULE Xapic --------------------------------
(*
 * The local APIC (offsets in its memory page).
 * One definition for each enumeration, word type and register of
 * generated/xapic.dev.h; Registers.tla says what their accessors do.
 *)
EXTENDS Registers

\* Enumerations

Num_timer_mode == [one_shot |-> 0, periodic |-> 1]
Num_int_mask == [not_masked |-> 0, masked |-> 1]
Num_vdm == [fixed |-> 0, lowest |-> 1, smi |-> 2, nmi |-> 4, init |-> 5,
    startup |-> 6, extint |-> 7]
Num_trigm == [edge |-> 0, level |-> 1]
Num_divide == [by1 |-> 11, by2 |-> 0, by4 |-> 1, by8 |-> 2, by16 |-> 3, by32 |-> 8,
    by64 |-> 9, by128 |-> 10]
Num_dst_shorthand == [none |-> 0, self |-> 1, all_inc |-> 2, all_exc |-> 3]
Num_dst_mode == [dst_phys |-> 0, dst_log |-> 1]
Num_int_level == [lvl_clr |-> 0, lvl_set |-> 1]
Num_model_type == [flat |-> 15, cluster |-> 0]

\* Word types

T_id == WordType(32, [id |-> <<24, 8>>], {}, {}, 0 .. 23)
T_version == WordType(32, [ver |-> <<0, 8>>, max_lvt |-> <<16, 8>>],
    {}, {}, (8 .. 15) \cup (24 .. 31))
T_lvt_timer == WordType(32, [vector |-> <<0, 8>>, status |-> <<12, 1>>,
    mask |-> <<16, 1>>, mode |-> <<17, 1>>],
    {}, {}, (8 .. 11) \cup (13 .. 15) \cup (18 .. 31))
T_lvt_lint == WordType(32, [vector |-> <<0, 8>>, dlv_mode |-> <<8, 4>>,
    status |-> <<13, 1>>, pinpol |-> <<14, 1>>, rirr |-> <<15, 1>>,
    trig_mode |-> <<16, 1>>, mask |-> <<17, 1>>], {}, {}, {12} \cup (18 .. 31))
T_lvt_err == WordType(32, [vector |-> <<0, 8>>, status |-> <<12, 1>>,
    mask |-> <<16, 1>>], {}, {}, (8 .. 11) \cup (13 .. 15) \cup (17 .. 31))
T_lvt_mon == WordType(32, [vector |-> <<0, 8>>, msgType |-> <<8, 3>>,
    status |-> <<12, 1>>, mask |-> <<16, 1>>],
    {}, {}, {11} \cup (13 .. 15) \cup (17 .. 31))
T_esr == WordType(32, [sce |-> <<0, 1>>, rce |-> <<1, 1>>, sae |-> <<2, 1>>,
    rae |-> <<3, 1>>, siv |-> <<5, 1>>, riv |-> <<6, 1>>, ira |-> <<7, 1>>],
    {}, {}, {4} \cup (8 .. 31))
T_dcr == WordType(32, [div_val |-> <<0, 4>>], {}, {}, 4 .. 31)
T_icr_lo == WordType(32, [vector |-> <<0, 8>>, dlv_mode |-> <<8, 3>>,
    dst_mode |-> <<11, 1>>, dlv_stat |-> <<12, 1>>, level |-> <<14, 1>>,
    trig_mode |-> <<15, 1>>, dst_short |-> <<18, 2>>],
    {}, {}, {13, 16, 17} \cup (20 .. 31))
T_icr_hi == WordType(32, [dest |-> <<24, 8>>], {}, {}, 0 .. 23)
T_ldr == WordType(32, [log_id |-> <<24, 8>>], {}, {}, 0 .. 23)
T_dfr == WordType(32, [model |-> <<28, 4>>], {}, 0 .. 27, {})
T_priority == WordType(32, [sub_class |-> <<0, 4>>, priority |-> <<4, 4>>],
    {}, {}, 8 .. 31)
T_svr == WordType(32, [vector |-> <<0, 8>>, enable |-> <<8, 1>>,
    focus |-> <<9, 1>>], {}, {}, 10 .. 31)
T_eafr == WordType(32, [inc |-> <<0, 1>>, snic |-> <<1, 1>>, xaidc |-> <<2, 1>>,
    xlc |-> <<16, 8>>], (3 .. 15) \cup (24 .. 31), {}, {})
T_eacr == WordType(32, [iern |-> <<0, 1>>, sn |-> <<1, 1>>, xaidn |-> <<2, 1>>],
    {}, {}, 3 .. 31)
T_seoi == WordType(32, [vector |-> <<0, 8>>], 8 .. 31, {}, {})

\* Registers

R_id == ReadWrite(T_id, <<"mem", 32>>, {})
R_version == ReadOnly(T_version, <<"mem", 48>>)
R_lvt_timer == ReadWrite(T_lvt_timer, <<"mem", 800>>, {})
R_lvt_lint0 == ReadWrite(T_lvt_lint, <<"mem", 848>>, {})
R_lvt_lint1 == ReadWrite(T_lvt_lint, <<"mem", 864>>, {})
R_lvt_err == ReadWrite(T_lvt_err, <<"mem", 880>>, {})
R_lvt_perf_cnt == ReadWrite(T_lvt_mon, <<"mem", 832>>, {})
R_lvt_thermal == ReadWrite(T_lvt_mon, <<"mem", 816>>, {})
R_esr == ReadWrite(T_esr, <<"mem", 640>>, {})
R_dcr == ReadWrite(T_dcr, <<"mem", 992>>, {})
R_init_count == ReadWrite(Plain(32), <<"mem", 896>>, {})
R_cur_count == ReadWrite(Plain(32), <<"mem", 912>>, {})
R_icr_lo == ReadWrite(T_icr_lo, <<"mem", 768>>, {"dlv_stat"})
R_icr_hi == ReadWrite(T_icr_hi, <<"mem", 784>>, {})
R_ldr == ReadWrite(T_ldr, <<"mem", 208>>, {})
R_dfr == ReadWrite(T_dfr, <<"mem", 224>>, {})
R_apr == ReadOnly(T_priority, <<"mem", 144>>)
R_tpr == ReadWrite(T_priority, <<"mem", 128>>, {})
R_ppr == ReadOnly(T_priority, <<"mem", 160>>)
R_isr == [i \in 0 .. 7 |-> ReadOnly(Plain(32), <<"mem", 256 + 16 * i>>)]
R_tmr == [i \in 0 .. 7 |-> ReadOnly(Plain(32), <<"mem", 384 + 16 * i>>)]
R_irr == [i \in 0 .. 7 |-> ReadOnly(Plain(32), <<"mem", 512 + 16 * i>>)]
R_eoi == WriteOnly(Plain(32), <<"mem", 176>>)
R_svr == ReadWrite(T_svr, <<"mem", 240>>, {})
R_eafr == ReadOnly(T_eafr, <<"mem", 1024>>)
R_eacr == ReadWrite(T_eacr, <<"mem", 1040>>, {})
R_seoi == WriteOnly(T_seoi, <<"mem", 1056>>)
R_ier == [i \in 0 .. 7 |-> ReadOnly(Plain(32), <<"mem", 1152 + 16 * i>>)]

\* Every register of the device, for checks of the whole table.
Device == {R_id, R_version, R_lvt_timer, R_lvt_lint0, R_lvt_lint1, R_lvt_err,
    R_lvt_perf_cnt, R_lvt_thermal, R_esr, R_dcr, R_init_count, R_cur_count,
    R_icr_lo, R_icr_hi, R_ldr, R_dfr, R_apr, R_tpr, R_ppr, R_eoi, R_svr, R_eafr,
    R_eacr, R_seoi}
          \cup {R_isr[i] : i \in DOMAIN R_isr}
          \cup {R_tmr[i] : i \in DOMAIN R_tmr}
          \cup {R_irr[i] : i \in DOMAIN R_irr}
          \cup {R_ier[i] : i \in DOMAIN R_ier}
==============================================================================
