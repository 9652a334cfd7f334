---------------------------- MODULE ShellSession ----------------------------
(***************************************************************************)
(* One session of the shell by an operator who                             *)
(*   - starts on a disk without superblocks,                               *)
(*   - creates volumes of two blocks or more, and deletes none,            *)
(*   - loads the volumes of the slots Used only, the others keeping these  *)
(*     apart, and creates those where no transfer left a superblock,       *)
(*   - loads a volume only when none is loaded, and quits with one loaded, *)
(*   - does not write to the superblock of a volume in use, and does not   *)
(*     give it to del_vol,                                                 *)
(*   - writes no sector whose transfer may go on to the table or to the    *)
(*     superblock of a volume in use.                                      *)
(* superbloc.c keeps its promise (BlocAllocator) within such a session;    *)
(* each restriction is there because the shell breaks the promise without  *)
(* it.                                                                     *)
(***************************************************************************)
EXTENDS Shell

CONSTANT Used   \* the slots of the volumes the operator keeps superblocks on

ASSUME SessionAssumption ==
  /\ \A n \in BlocCounts : n >= 2
  /\ Used \subseteq Slots

IsSuper(vol) == disk[Address(vol, 0)].kind = "super"

InUse == Used \cap Present(mbr)

\* A write of the block goes on neither to the table nor to a superblock.
Clear(vol, bloc) ==
  LET a == Address(vol, bloc)
  IN  \A n \in Counts(a) :
         SectorsFrom(a, n) \cap ({0} \cup {Address(v, 0) : v \in InUse}) \subseteq {a}

SessionNext ==
  \/ /\ \A a \in Sectors : ~HasMagic(disk[a])
     /\ ShellBoot
  \/ /\ mbr.nb_volume \in Used => ~HasMagic(disk[Linear(NewStart(mbr))])
     /\ \E nbloc \in BlocCounts : ShellNew(nbloc)
  \/ /\ superbloc = NullPtr
     /\ \E vol \in InUse : /\ \A bloc \in Blocs(mbr, vol) : Clear(vol, bloc)
                          /\ LoadVol(vol)
  \/ /\ superbloc # NullPtr
     /\ Clear(currentVol, 0)
     /\ \/ SaveVol
        \/ ShellQuit
  \/ ListVol
  \/ NewVol
  \/ \E bloc \in BlocAnswers \ {0} : DelVol(bloc)
  \/ \E vol \in Present(mbr) : \E bloc \in Blocs(mbr, vol) :
        /\ vol \in Used => bloc # 0
        /\ Clear(vol, bloc)
        /\ Write(vol, bloc)
  \/ ShellSave
  \/ ShellExit

SessionSpec == ShellInit /\ [][SessionNext]_shellVars

---------------------------------------------------------------------------
(* The promise. *)

\* The free list of a volume: the one in memory for the loaded volume, the one
\* its superblock points to for another one.
FirstOf(vol) ==
  IF superbloc # NullPtr /\ currentVol = vol
  THEN superbloc.first
  ELSE disk[Address(vol, 0)].first

Managed(vol) == running /\ vol \in InUse /\ IsSuper(vol)

spaceBar == [vol \in Slots |-> IF Managed(vol) THEN Blocs(mbr, vol) ELSE {}]

usedBar == [vol \in Slots |->
              IF Managed(vol) THEN Blocs(mbr, vol) \ Positions(FirstOf(vol)) ELSE {}]

grantedBar == IF reply.cmd = "new_vol" /\ reply.res = "done"
              THEN {<<currentVol, reply.bloc>>} ELSE {}

Promise == INSTANCE BlocAllocator
             WITH Volumes <- Slots, NbBlocs <- BlocCounts,
                  space <- spaceBar, used <- usedBar, granted <- grantedBar

\* Within a session the linked lists are a block allocator: new_vol grants only
\* blocks that are in no one's hands, del_vol gives back exactly the block it
\* names, and no block is lost while volumes are loaded and saved in turn.
KeepsPromise == Promise!AllocSpec

\* No command of a session uses an address that holds nothing.
SessionNeverFaults == [][reply'.res # "fault"]_shellVars

\* Every node of the heap is in the list of exactly one volume: lists of two
\* volumes never join, and save_vol and load_vol lose none.
NodesHaveOneList ==
  running => \A n \in DOMAIN heap :
                Cardinality({vol \in Slots : Managed(vol) /\ n \in Reached(FirstOf(vol))}) = 1
=============================================================================
