-------------------------------- MODULE LpcKbd --------------------------------
(*
 * The keyboard controller (ports relative to the base, 0x60).
 * One definition for each enumeration, word type and register of
 * apps/generated/lpc_kbd.dev.h; Registers.tla says what their accessors do.
 *)
EXTENDS Registers

\* Enumerations

Num_cmd == [rd_ccmd |-> 32, wr_ccmd |-> 96, aux_disable |-> 167, aux_enable |-> 168,
    kbd_disable |-> 173, kbd_enable |-> 174, read_input |-> 192,
    poll_input_low |-> 193, poll_input_high |-> 194, read_output |-> 208,
    write_output |-> 209, write_kbd_out |-> 210, write_aux_out |-> 211,
    write_aux |-> 212]

\* Word types

T_status == WordType(8, [obf |-> <<0, 1>>, ibf |-> <<1, 1>>, sf |-> <<2, 1>>,
    cd |-> <<3, 1>>, is |-> <<4, 1>>, aobf |-> <<5, 1>>, timeout |-> <<6, 1>>,
    perr |-> <<7, 1>>], {}, {}, {})
T_command == WordType(8, [cmd |-> <<0, 8>>], {}, {}, {})
T_ccmd == WordType(8, [kbd_int |-> <<0, 1>>, aux_int |-> <<1, 1>>,
    sysflg |-> <<2, 1>>, kbd_dis |-> <<4, 1>>, aux_dis |-> <<5, 1>>,
    kbd_xl |-> <<6, 1>>], {}, {}, {3, 7})

\* Registers

R_input == ReadOnly(Plain(8), <<"io", 0>>)
R_status == ReadOnly(T_status, <<"io", 4>>)
R_output == WriteOnly(Plain(8), <<"io", 0>>)
R_command == WriteOnly(T_command, <<"io", 4>>)

\* Every register of the device, for checks of the whole table.
Device == {R_input, R_status, R_output, R_command}
==============================================================================
