----------------------------- MODULE MCInterrupts -----------------------------
(* Interrupts for TLC: the old timer, a device behind the slave 8259 and a pin
   whose vector is one of the local APIC's. The register tables are checked on the way. *)
EXTENDS Interrupts

Kbd == INSTANCE LpcKbd
Cmos == INSTANCE LpcCmos

ASSUME TablesAreWellFormed ==
    \A d \in {Pic!Device, Ioapic!Device, Pit!Device, Lapic!Device, Kbd!Device,
              Cmos!Device} : \A r \in d : WellFormed(r)

ASSUME PinsOfTheRunHaveGates == PinsHaveGates

MCPins == {2, 12, 22}
MCGarbage == {{}, 0 .. 7}
===============================================================================
