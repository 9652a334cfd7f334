------------------------------ MODULE MCShell ------------------------------
(***************************************************************************)
(* The shell with every command, for an operator who names volumes of the  *)
(* table.  NamedVolumes.cfg has two volumes of two blocks, which move,     *)
(* vanish and come back behind a loaded superblock; the second one has its *)
(* superblock on the last sector of the cylinder of the table.  Two nodes  *)
(* make a list in each of them, or one of both blocks, and are popped,     *)
(* lost and built again at the same addresses.                             *)
(***************************************************************************)
EXTENDS Shell

CONSTANTS n1, n2, n3

TwoNodes   == {n1, n2}
ThreeNodes == {n1, n2, n3}

SizeTwo         == {2}
SizesOneToThree == 1 .. 3

BlocsToOne == 0 .. 1
BlocsToTwo == 0 .. 2

\* The heap addresses are interchangeable.
TwoNodeSymmetry   == Permutations(TwoNodes)
ThreeNodeSymmetry == Permutations(ThreeNodes)

\* Where the volumes of NamedVolumes.cfg start: there is no room for a third.
Starts == {1, 3}

\* Two states of the same view have the same future, and an action property is one of
\* every step TLC takes, also of one to a state of a known view.  reply is only
\* written; the view keeps which command has ended the process by a fault.  Of the
\* sectors, load_super reads those a volume starts on: whether there is a MAGIC, of
\* superblock or node, and which pointer; a boot reads the table.  A list closes, if
\* it does, where del_vol puts a node in front of it, and that node is the first of
\* the superblock, which is in the view.
LoadView ==
  <<running, mbr, savedMbr, heap, superbloc, currentVol, disk[0] = TableSector,
    [a \in Starts |-> IF HasMagic(disk[a]) THEN disk[a].first ELSE Data],
    IF reply.res = "fault" THEN reply.cmd ELSE "none">>
=============================================================================
