--------------------------- MODULE MCShellSession ---------------------------
(* Two volumes of three blocks in the lower halves of two cylinders of 6, with  *)
(* one between them, and a node for every block but the superblocks.           *)
EXTENDS ShellSession

CONSTANTS n1, n2, n3, n4

MCNodes == {n1, n2, n3, n4}
MCUsed == {0, 2}
MCBlocCounts == {3}
MCBlocAnswers == 0 .. 3

NodeSymmetry == Permutations(MCNodes)

\* Two states of the same view have the same future, and the properties are of every
\* step TLC takes, also of one to a state of a known view.  reply is only written;
\* so are the sectors that hold no superblock, but for two questions: whether the
\* next volume would come to a MAGIC, and whether there is one on the disk at all,
\* which a superblock, once there, answers for good.
SessionView ==
  LET supers == {Address(vol, 0) : vol \in InUse}
      next   == IF mbr.nb_volume < MaxVolumes THEN Sectors \ supers ELSE {}
  IN  <<running, mbr, savedMbr, heap, superbloc, currentVol,
        disk[0], [a \in supers |-> disk[a]],
        {a \in next : HasMagic(disk[a])}, \E a \in Sectors : HasMagic(disk[a])>>
=============================================================================
