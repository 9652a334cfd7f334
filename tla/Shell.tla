------------------------------- MODULE Shell -------------------------------
(***************************************************************************)
(* The vm shell (vm.c): the commands a user types, over the partition      *)
(* table (VolumeTable) and the superblock of the loaded volume             *)
(* (Superbloc).  reply is what the shell printed for the last command.     *)
(* The commands that only print (list, read, help, none) and the commands  *)
(* refused before they change anything are not steps.                      *)
(***************************************************************************)
EXTENDS Superbloc

CONSTANT BlocAnswers    \* what the operator may answer to a question for a bloc

ASSUME ShellAssumption == BlocAnswers \subseteq Nat

VARIABLE reply

shellVars == <<running, mbr, savedMbr, disk, heap, superbloc, currentVol, reply>>

Says(cmd, vol, bloc, res) ==
  reply' = [cmd |-> cmd, vol |-> vol, bloc |-> bloc, res |-> res]

None == -1              \* the command took no such answer

\* The heap and the globals go with the process.
ProcessEnds ==
  /\ heap' = <<>>
  /\ superbloc' = NullPtr
  /\ currentVol' = 0
  /\ UNCHANGED disk

\* The command used an address that holds nothing.
Faults(cmd, vol, bloc) ==
  /\ Exit
  /\ ProcessEnds
  /\ Says(cmd, vol, bloc, "fault")

ShellInit ==
  /\ Init
  /\ disk = [a \in Sectors |-> IF a = 0 THEN TableSector ELSE Data]
  /\ heap = <<>>
  /\ superbloc = NullPtr
  /\ currentVol = 0
  /\ reply = [cmd |-> "none", vol |-> None, bloc |-> None, res |-> "done"]

---------------------------------------------------------------------------
(* The partition table. *)

\* Bound of the model: the shell starts on a disk with a table.  One without
\* goes to the mbr tool first.
ShellBoot ==
  /\ disk[0] = TableSector
  /\ Boot
  /\ Says("boot", None, None, "done")
  /\ UNCHANGED blocVars

\* Bound of the model: a volume, and the block behind it, is on the disk.
FitsDisk(nbloc) == Linear(NewStart(mbr)) + nbloc + 1 < DiskSize

ShellNew(nbloc) ==
  /\ FitsDisk(nbloc)
  /\ New(nbloc)
  /\ Says("new", mbr.nb_volume, None, "done")
  /\ UNCHANGED blocVars

ShellDel(vol) ==
  /\ Del(vol)
  /\ Says("del", vol, None, "done")
  /\ UNCHANGED blocVars

\* save_mbr as a change of the sectors.
TableSaved == [disk EXCEPT ![0] = TableSector]

ShellSave ==
  /\ Save
  /\ disk' = TableSaved
  /\ Says("save", None, None, "done")
  /\ UNCHANGED <<heap, superbloc, currentVol>>

\* save_mbr, save_super, exit: without a loaded superblock save_super reads
\* through a null pointer.
ShellQuit ==
  /\ Quit
  /\ \/ /\ superbloc # NullPtr
        /\ \E n \in Counts(Address(currentVol, 0)) :
              disk' = [a \in Sectors |-> IF a \in SectorsFrom(Address(currentVol, 0), n)
                                       THEN Super(superbloc.first) ELSE TableSaved[a]]
        /\ Says("quit", None, None, "done")
     \/ /\ superbloc = NullPtr
        /\ disk' = TableSaved
        /\ Says("quit", None, None, "fault")
  /\ heap' = <<>>
  /\ superbloc' = NullPtr
  /\ currentVol' = 0

\* exit, or the end of the input.
ShellExit ==
  /\ Exit
  /\ ProcessEnds
  /\ Says("exit", None, None, "done")

\* The mbr tool: no other sector changes.
ShellMakeTable ==
  /\ MakeTable
  /\ disk' = TableSaved
  /\ Says("mbr", None, None, "done")
  /\ UNCHANGED <<heap, superbloc, currentVol>>

---------------------------------------------------------------------------
(* The loaded volume. *)

LoadVol(vol) ==
  /\ running
  /\ LoadSuper(vol)
  /\ Says("load_vol", vol, None, "done")
  /\ UNCHANGED tableVars

SaveVol ==
  \/ /\ running
     /\ SaveSuper
     /\ Says("save_vol", None, None, "done")
     /\ UNCHANGED tableVars
  \/ /\ superbloc = NullPtr
     /\ Faults("save_vol", None, None)

ListVol ==
  /\ superbloc # NullPtr
  /\ \/ /\ running
        /\ ~WalkFaults(superbloc.first)
        /\ Says("list_vol", currentVol, None, "done")
        /\ UNCHANGED <<tableVars, blocVars>>
     \/ /\ WalkFaults(superbloc.first)
        /\ Faults("list_vol", currentVol, None)

\* new_bloc returns the number of the block, 0 for an empty list; new_vol takes
\* the number 0 for the latter, whichever it was.
NewVol ==
  \/ /\ running
     /\ NewBloc
     /\ LET bloc == heap[superbloc.first].pos
        IN  Says("new_vol", currentVol, bloc, IF bloc = 0 THEN "none left" ELSE "done")
     /\ UNCHANGED tableVars
  \/ /\ running
     /\ superbloc # NullPtr
     /\ superbloc.first = NullPtr
     /\ Says("new_vol", currentVol, None, "none left")
     /\ UNCHANGED <<tableVars, blocVars>>
  \/ /\ NewBlocFaults
     /\ Faults("new_vol", currentVol, None)

DelVol(bloc) ==
  \/ /\ running
     /\ FreeBloc(bloc)
     /\ Says("del_vol", currentVol, bloc, "done")
     /\ UNCHANGED tableVars
  \/ /\ running
     /\ superbloc # NullPtr
     /\ IF InVolume(bloc) THEN /\ Finds(superbloc.first, bloc)
                               /\ Says("del_vol", currentVol, bloc, "already free")
                          ELSE Says("del_vol", currentVol, bloc, "out of size")
     /\ UNCHANGED <<tableVars, blocVars>>
  \/ /\ FreeBlocFaults(bloc)
     /\ Faults("del_vol", currentVol, bloc)

---------------------------------------------------------------------------
(* The blocks themselves. *)

Write(vol, bloc) ==
  /\ running
  /\ Address(vol, bloc) \in Sectors      \* bound of the model
  /\ \E n \in Counts(Address(vol, bloc)) :
        disk' = Written(SectorsFrom(Address(vol, bloc), n), Data)
  /\ Says("write", vol, bloc, "done")
  /\ UNCHANGED <<tableVars, heap, superbloc, currentVol>>

VolumeSectors(m, vol) == {Linear(CytToSect(m, vol, b)) : b \in Blocs(m, vol)}

\* format_vol: one sector after the other, from the start of the volume.
Format(vol) ==
  /\ running
  /\ disk' = [a \in Sectors |-> IF a \in VolumeSectors(mbr, vol) THEN Data ELSE disk[a]]
  /\ Says("format", vol, None, "done")
  /\ UNCHANGED <<tableVars, heap, superbloc, currentVol>>

---------------------------------------------------------------------------

\* The commands on a volume look at no slot before they use it.
OnVolume(vol) ==
  \/ LoadVol(vol)
  \/ \E bloc \in BlocAnswers : Write(vol, bloc)
  \/ Format(vol)

\* The others.  del takes any index.
Commands ==
  \/ ShellBoot
  \/ \E nbloc \in BlocCounts : ShellNew(nbloc)
  \/ \E vol \in VolAnswers : ShellDel(vol)
  \/ ShellSave
  \/ ShellQuit
  \/ ShellExit
  \/ ShellMakeTable
  \/ SaveVol
  \/ ListVol
  \/ NewVol
  \/ \E bloc \in BlocAnswers : DelVol(bloc)

ShellNext == Commands \/ \E vol \in Slots : OnVolume(vol)

ShellSpec == ShellInit /\ [][ShellNext]_shellVars

\* The operator names volumes of the table.
NamedNext == Commands \/ \E vol \in Present(mbr) : OnVolume(vol)

NamedSpec == ShellInit /\ [][NamedNext]_shellVars

---------------------------------------------------------------------------
(* Properties. *)

\* The heap holds list nodes only, the superblock and the sectors hold
\* addresses, and the table is well formed, whatever the command.
ShellTypeOK ==
  /\ TypeOK
  /\ disk \in [Sectors -> [kind : {"mbr", "data", "super", "node"}, first : Ptr]]
  /\ DOMAIN heap \subseteq Nodes
  /\ \A n \in DOMAIN heap : heap[n] \in [pos : Nat, next : Ptr]
  /\ \/ superbloc = NullPtr
     \/ superbloc \in [first : Ptr, home : Sectors]
  /\ currentVol \in Slots

\* The sectors the last command names to write_bloc.
NamedSectors(cmd, vol, bloc) ==
  CASE cmd = "write"                -> {Address(vol, bloc)}
    [] cmd = "load_vol"             -> {Address(vol, b) :
                                          b \in {0} \cup ListedBlocs(mbr.volumes[vol].nbBlocs)}
    [] cmd \in {"save_vol", "quit"} -> {Address(currentVol, 0)}
    [] OTHER                        -> {}

\* Nothing takes the sector of the table for a block: as long as the commands
\* name volumes of the table (NamedSpec), and whichever slots del emptied or moved
\* behind a loaded superblock, the table is lost only when a sector of the upper
\* half of its cylinder is written, whose transfer turns past the end of the track.
TableLostToSpillsOnly ==
  [][disk[0] = TableSector /\ disk'[0] # TableSector =>
       \E a \in NamedSectors(reply'.cmd, reply'.vol, reply'.bloc) :
          a < MaxSector /\ MaxSector < 2 * a]_shellVars

\* "save specific superbloc's volum" (vm.c:50): save_vol writes a superblock to
\* the sector it was loaded from.
SaveVolGoesHome ==
  [][reply'.cmd = "save_vol" /\ reply'.res = "done"
       => Address(currentVol, 0) = superbloc.home]_shellVars
=============================================================================
