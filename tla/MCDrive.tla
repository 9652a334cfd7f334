------------------------------ MODULE MCDrive ------------------------------
(***************************************************************************)
(* A disk of two cylinders of three sectors, with the 2 ticks per          *)
(* sector of hwconfig.ini.                                                 *)
(***************************************************************************)
EXTENDS Drive

MCPayload == {"a", "b"}

\* The sectors of the disk, and one behind the last.
MCTargets ==
  [cyl : 0 .. MaxCylinder - 1, sect : 0 .. MaxSector - 1]
    \cup {[cyl |-> MaxCylinder, sect |-> 0]}

\* Three sectors: some of these formats cross a cylinder, some run off the disk.
MCFormatCounts == {3}
=============================================================================
