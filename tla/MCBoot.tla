-------------------------------- MODULE MCBoot --------------------------------
(* Boot for TLC: 20 page indices, memory in megabytes, and maps of several
   machines. *)
EXTENDS Boot

Region(addr, len, type) == [addr |-> addr, len |-> len, type |-> type]
Low == Region(0, 1, 1)

MCMaps ==
    { <<Low, Region(1, 67, 1)>>,                                  \* 16 pages
      <<Low, Region(1, 59, 1), Region(60, 4, 2)>>,                \* just 14
      <<Low, Region(1, 31, 1), Region(33, 5, 2), Region(38, 33, 1)>>,
      <<Low, Region(1, 31, 1), Region(32, 30, 1)>>,               \* adjacent
      <<Low, Region(1, 55, 1)>>,                                  \* 13
      <<Low, Region(1, 45, 1)>>,                                  \* 10
      <<Low, Region(1, 67, 1), Region(68, 12, 2), Region(80, 30, 1)>> }

ASSUME MapsAreRegular == FirmwareOnTop /\ NoOverlap
================================================================================
