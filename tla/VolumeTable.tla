---------------------------- MODULE VolumeTable ----------------------------
(***************************************************************************)
(* The partition table of the storage tools: the master boot record that   *)
(* vm.c keeps in memory (the global mbr of volume.h), its copy on sector   *)
(* (0,0) of the disk, and the commands of the vm shell that read or change *)
(* either one.  A process of the shell may end at any point and a new one  *)
(* starts from what the disk holds.                                        *)
(*                                                                         *)
(* Only save_mbr writes savedMbr here.  Other writes that reach the sector  *)
(* of the table, and what is left of it then, are part of Shell.            *)
(***************************************************************************)
EXTENDS Integers

CONSTANTS
  MaxVolumes,   \* slots of mbr.volumes (8 in volume.h)
  MaxSector,    \* sectors per cylinder (HDA_MAXSECTOR)
  BlocCounts    \* what the operator may answer to "How many blocs in new vol?"

ASSUME TableAssumption ==
  /\ MaxVolumes \in Nat \ {0}
  /\ MaxSector \in Nat \ {0, 1}
  /\ BlocCounts \subseteq Nat

VARIABLES
  running,      \* a vm process is in its command loop
  mbr,          \* the table in the memory of that process
  savedMbr      \* the table on sector (0,0)

tableVars == <<running, mbr, savedMbr>>

Slots == 0 .. MaxVolumes - 1

\* volume_t; the type field is BASE in every volume vm creates.
Volume == [debutCyl : Nat, debutSect : 0 .. MaxSector - 1, nbBlocs : Nat]

Mbr == [nb_volume : 0 .. MaxVolumes, volumes : [Slots -> Volume]]

NoVolume == [debutCyl |-> 0, debutSect |-> 0, nbBlocs |-> 0]

\* The table the mbr tool puts on a new disk.
EmptyMbr == [nb_volume |-> 0, volumes |-> [i \in Slots |-> NoVolume]]

Present(m) == 0 .. m.nb_volume - 1

---------------------------------------------------------------------------
(* Geometry: where a block of a volume lies. *)

\* Mutant: the carry moves on by one cylinder, however large the volume.
CytToSectOneCarry(m, vol, nbloc) ==
  LET v    == m.volumes[vol]
      sect == v.debutSect + nbloc
  IN  IF sect >= MaxSector
      THEN <<v.debutCyl + 1, sect % MaxSector>>
      ELSE <<v.debutCyl, sect>>

\* cytToSect: the block lies nbloc sectors behind the start of its volume.
CytToSect(m, vol, nbloc) ==
  LET v    == m.volumes[vol]
      sect == v.debutSect + nbloc
  IN  IF sect >= MaxSector
      THEN <<v.debutCyl + sect \div MaxSector, sect % MaxSector>>
      ELSE <<v.debutCyl, sect>>

\* The sectors of the disk in the order cytToSect walks them.
Linear(at) == at[1] * MaxSector + at[2]

Start(m, vol) == m.volumes[vol].debutCyl * MaxSector + m.volumes[vol].debutSect

---------------------------------------------------------------------------
(* The commands. *)

Init ==
  /\ running = FALSE
  /\ mbr = EmptyMbr
  /\ savedMbr = EmptyMbr

\* main: load_mbr, then the command loop.
Boot ==
  /\ ~running
  /\ running' = TRUE
  /\ mbr' = savedMbr
  /\ UNCHANGED savedMbr

\* Mutant: the next volume starts on the last block of the last one.
NewStartOverlaps(m) ==
  IF m.nb_volume # 0
  THEN CytToSect(m, m.nb_volume - 1, m.volumes[m.nb_volume - 1].nbBlocs - 1)
  ELSE <<0, 1>>

\* Mutant: the first volume takes the sector of the table.
NewStartOnTable(m) ==
  IF m.nb_volume # 0
  THEN CytToSect(m, m.nb_volume - 1, m.volumes[m.nb_volume - 1].nbBlocs)
  ELSE <<0, 0>>

\* Where command new puts the next volume: behind the last one.
NewStart(m) ==
  IF m.nb_volume # 0
  THEN CytToSect(m, m.nb_volume - 1, m.volumes[m.nb_volume - 1].nbBlocs)
  ELSE <<0, 1>>

Appended(m, nbloc) ==
  [nb_volume |-> m.nb_volume + 1,
   volumes   |-> [m.volumes EXCEPT ![m.nb_volume] =
                    [debutCyl  |-> NewStart(m)[1],
                     debutSect |-> NewStart(m)[2],
                     nbBlocs   |-> nbloc]]]

New(nbloc) ==
  /\ running
  /\ mbr.nb_volume < MaxVolumes
  /\ mbr' = Appended(mbr, nbloc)
  /\ UNCHANGED <<running, savedMbr>>

\* Mutant: the last volume fills the slot of the one that goes.
RemovedSwap(m, vol) ==
  [nb_volume |-> m.nb_volume - 1,
   volumes   |-> [m.volumes EXCEPT ![vol] = m.volumes[m.nb_volume - 1]]]

\* The volumes behind vol move down one slot; an index that names no volume
\* moves nothing, and the count goes down all the same.
Removed(m, vol) ==
  [nb_volume |-> m.nb_volume - 1,
   volumes   |-> [i \in Slots |-> IF i >= vol /\ i + 1 < m.nb_volume
                                  THEN m.volumes[i + 1]
                                  ELSE m.volumes[i]]]

\* Mutant: del does not look for a volume.
DelUnchecked(vol) ==
  /\ running
  /\ mbr' = Removed(mbr, vol)
  /\ UNCHANGED <<running, savedMbr>>

Del(vol) ==
  /\ running
  /\ mbr.nb_volume > 0
  /\ mbr' = Removed(mbr, vol)
  /\ UNCHANGED <<running, savedMbr>>

Save ==
  /\ running
  /\ savedMbr' = mbr
  /\ UNCHANGED <<running, mbr>>

\* save_mbr, then the process ends (in exit, or inside save_super).
Quit ==
  /\ running
  /\ savedMbr' = mbr
  /\ running' = FALSE
  /\ UNCHANGED mbr

\* The process ends without save_mbr: exit, end of the input, a crash.
Exit ==
  /\ running
  /\ running' = FALSE
  /\ UNCHANGED <<mbr, savedMbr>>

\* The mbr tool: a table without volumes goes to the disk.
MakeTable ==
  /\ ~running
  /\ savedMbr' = EmptyMbr
  /\ UNCHANGED <<running, mbr>>

\* Indices the operator may give to del; MaxVolumes stands for every index
\* behind the table.
VolAnswers == 0 .. MaxVolumes

Next ==
  \/ Boot
  \/ \E nbloc \in BlocCounts : New(nbloc)
  \/ \E vol \in VolAnswers : Del(vol)
  \/ Save
  \/ Quit
  \/ Exit
  \/ MakeTable

Spec == Init /\ [][Next]_tableVars

---------------------------------------------------------------------------
(* Properties. *)

\* Both tables keep the shape of mbr_t: the count never leaves the array and
\* every start sector stays within a cylinder, whatever new and del did.
TypeOK ==
  /\ running \in BOOLEAN
  /\ mbr \in Mbr
  /\ savedMbr \in Mbr

Ordered(m) ==
  /\ \A i \in Present(m) : Start(m, i) >= 1
  /\ \A i, j \in Present(m) :
        i < j => Start(m, i) + m.volumes[i].nbBlocs <= Start(m, j)

\* The volumes of both tables lie on the disk in the order of their slots,
\* none reaches into the next one, and none starts on the sector of the
\* table: what command new relies on when it only looks at the last volume,
\* and what del has to keep when it shifts the slots.
VolumesOrdered == Ordered(mbr) /\ Ordered(savedMbr)

Blocs(m, vol) == 0 .. m.volumes[vol].nbBlocs - 1

OwnSector(m) ==
  \A i \in Present(m) : \A b \in Blocs(m, i) :
     /\ CytToSect(m, i, b)[2] < MaxSector
     /\ CytToSect(m, i, b) # <<0, 0>>
     /\ \A j \in Present(m) : \A c \in Blocs(m, j) :
           CytToSect(m, i, b) = CytToSect(m, j, c) => i = j /\ b = c

\* Every block of every volume has a sector of its own, within a cylinder and
\* never the sector (0,0) of the table: read_bloc and write_bloc of two
\* different blocks never meet, in the running table and in the one a
\* restarted shell will read.
BlocsHaveOwnSector == OwnSector(mbr) /\ OwnSector(savedMbr)

Extents(m) == {<<Start(m, i), m.volumes[i].nbBlocs>> : i \in Present(m)}

\* While a shell runs, a command never moves or resizes a volume: every extent
\* of the new table was there before, except one that a new volume brings and
\* that starts at or behind the end of every volume of the table.
VolumesStayPut ==
  [][running /\ running' =>
       \A e \in Extents(mbr') \ Extents(mbr) :
          \A f \in Extents(mbr) : f \in Extents(mbr') /\ f[1] + f[2] <= e[1]]_tableVars
=============================================================================
