----------------------------- MODULE Superbloc -----------------------------
(***************************************************************************)
(* superbloc.c: the superblock of the loaded volume and its list of free   *)
(* blocks.  The list lives in the heap of the vm process; the superblock   *)
(* on block 0 of the volume keeps the address of its first node, so the    *)
(* disk holds heap addresses that outlive the nodes, and the process.      *)
(*                                                                         *)
(* A sector is abstracted to what load_super reads of it: whether it       *)
(* begins with MAGIC, and the pointer at the offset of superbloc_t.first.  *)
(* Using an address with no live node behind it is undefined in C; here    *)
(* the process ends (the shell's Fault), and nothing more is claimed.      *)
(***************************************************************************)
EXTENDS VolumeTable, FiniteSets, SequencesExt

CONSTANTS
  Nodes,        \* heap addresses malloc may give to a list_bloc_t
  NullPtr,      \* NULL
  WildPtr,      \* an address no list_bloc_t was ever at
  DiskSize      \* sectors of the disk, in whole cylinders

ASSUME SuperblocAssumption ==
  /\ IsFiniteSet(Nodes)
  /\ NullPtr \notin Nodes /\ WildPtr \notin Nodes /\ NullPtr # WildPtr
  /\ DiskSize \in Nat \ {0} /\ DiskSize % MaxSector = 0
  /\ NullPtr \notin [first : Nodes \cup {NullPtr, WildPtr}, home : 0 .. DiskSize - 1]

VARIABLES
  disk,         \* what the sectors hold, by their Linear number
  heap,         \* the live list_bloc_t
  superbloc,    \* current_superbloc: NULL or the loaded superblock
  currentVol    \* current_vol

blocVars == <<disk, heap, superbloc, currentVol>>

Ptr == Nodes \cup {NullPtr, WildPtr}
Sectors == 0 .. DiskSize - 1

\* The table, user data, a superblock, a node init_volume wrote out.
TableSector == [kind |-> "mbr", first |-> WildPtr]
Data        == [kind |-> "data", first |-> WildPtr]
Super(p)    == [kind |-> "super", first |-> p]
ListNode(p) == [kind |-> "node", first |-> p]

\* list_bloc_t begins with MAGIC, as superbloc_t does.
HasMagic(sector) == sector.kind \in {"super", "node"}

Address(vol, nbloc) == Linear(CytToSect(mbr, vol, nbloc))

---------------------------------------------------------------------------
(* What write_sector changes.  It passes the number of the sector where the *)
(* controller expects a count, and the disk goes on transferring: the       *)
(* sectors that come under the head next get the same contents, up to that  *)
(* count, until the next request.  Drive and SectorStore show it.           *)

\* The n sectors from a on, as they turn under the head.
SectorsFrom(a, n) ==
  {(a \div MaxSector) * MaxSector + ((a + i) % MaxSector) : i \in 0 .. n - 1}

\* How many sectors a write to sector a may change.
Counts(a) == {1} \cup 1 .. (a % MaxSector)

Written(sectors, content) ==
  [a \in Sectors |-> IF a \in sectors THEN content ELSE disk[a]]

---------------------------------------------------------------------------
(* The free list. *)

MaxSteps == Cardinality(Nodes)

\* The pointer a walk holds after n steps from p.  It stays at NULL, and at an
\* address without a live node, where the code stops or faults.
Step(p) ==
  LET next == [q \in Ptr |-> IF q \in DOMAIN heap THEN heap[q].next ELSE q]
      step[n \in 0 .. MaxSteps] == IF n = 0 THEN p ELSE next[step[n - 1]]
  IN  step

\* Where the walk stops; a live node means that the list has a cycle.
End(p)        == Step(p)[MaxSteps]
Reached(p)    == Range(Step(p)) \cap DOMAIN heap
Positions(p)  == {heap[n].pos : n \in Reached(p)}
Terminates(p) == End(p) \notin DOMAIN heap
WalkFaults(p) == End(p) # NullPtr

\* free_bloc stops at the first node that holds bloc, before what is behind it.
Finds(p, bloc) == bloc \in Positions(p)

\* Mutant: the loop of init_volume runs up to the size of the volume.
ListedBlocsToSize(size) == 1 .. size

\* Blocks init_volume gives a node: the node of block 1 is there in any case.
ListedBlocs(size) == 1 .. (IF size > 2 THEN size - 1 ELSE 1)

\* Nodes for bs, linked in the order of the blocks, at the addresses of place.
FreshList(place, bs) ==
  [n \in Range(place) |->
     LET b == CHOOSE b \in bs : place[b] = n
     IN  [pos |-> b, next |-> IF b + 1 \in bs THEN place[b + 1] ELSE NullPtr]]

---------------------------------------------------------------------------
(* The operations. *)

\* malloc: the heap with the nodes of more.
Malloc(more) ==
  [n \in DOMAIN heap \cup DOMAIN more |-> IF n \in DOMAIN heap THEN heap[n] ELSE more[n]]

\* The superblock goes to block 0, and then a node to every block of bs.
ListWritten(vol, bs, count, junk) ==
  LET nodes == UNION {SectorsFrom(Address(vol, b), count[b]) : b \in bs}
      super == SectorsFrom(Address(vol, 0), count[0])
  IN  [a \in Sectors |-> IF a \in nodes THEN ListNode(junk)
                         ELSE IF a \in super THEN Super(junk)
                         ELSE disk[a]]

\* create_superbloc leaves first unset: junk is what malloc returned there, and
\* what is written with it, before first gets its value.
InitVolume(vol) ==
  LET bs == ListedBlocs(mbr.volumes[vol].nbBlocs)
  IN  \E place \in Injection(bs, Nodes \ DOMAIN heap), junk \in {NullPtr, WildPtr} :
        /\ heap' = Malloc(FreshList(place, bs))
        /\ superbloc' = [first |-> place[1], home |-> Address(vol, 0)]
        /\ \E count \in [{0} \cup bs -> 1 .. MaxSector] :
              /\ \A b \in {0} \cup bs : count[b] \in Counts(Address(vol, b))
              /\ disk' = ListWritten(vol, bs, count, junk)

\* home is not in superbloc_t: it records the sector the superblock came from.
LoadSuper(vol) ==
  LET sector == disk[Address(vol, 0)]
  IN  /\ \/ /\ HasMagic(sector)
            /\ superbloc' = [first |-> sector.first, home |-> Address(vol, 0)]
            /\ UNCHANGED <<disk, heap>>
         \/ /\ ~HasMagic(sector)
            /\ InitVolume(vol)
      /\ currentVol' = vol

\* The superblock goes to block 0 of volumes[current_vol], whatever that slot
\* holds by now; the list stays in the heap.
SaveSuper ==
  /\ superbloc # NullPtr
  /\ \E n \in Counts(Address(currentVol, 0)) :
        disk' = Written(SectorsFrom(Address(currentVol, 0), n), Super(superbloc.first))
  /\ superbloc' = NullPtr
  /\ UNCHANGED <<heap, currentVol>>

\* Mutant: the node is freed, and stays the first of the list.
NewBlocKeepsFirst ==
  /\ superbloc # NullPtr
  /\ superbloc.first \in DOMAIN heap
  /\ heap' = Restrict(heap, DOMAIN heap \ {superbloc.first})
  /\ UNCHANGED <<disk, superbloc, currentVol>>

\* Mutant: the node leaves the list, but is not freed.
NewBlocLeaks ==
  /\ superbloc # NullPtr
  /\ superbloc.first \in DOMAIN heap
  /\ superbloc' = [superbloc EXCEPT !.first = heap[superbloc.first].next]
  /\ UNCHANGED <<disk, heap, currentVol>>

\* The first node leaves the list and the heap.
NewBloc ==
  /\ superbloc # NullPtr
  /\ superbloc.first \in DOMAIN heap
  /\ superbloc' = [superbloc EXCEPT !.first = heap[superbloc.first].next]
  /\ heap' = Restrict(heap, DOMAIN heap \ {superbloc.first})
  /\ UNCHANGED <<disk, currentVol>>

NewBlocFaults ==
  /\ superbloc # NullPtr
  /\ superbloc.first # NullPtr
  /\ superbloc.first \notin DOMAIN heap

InVolume(bloc) == bloc < mbr.volumes[currentVol].nbBlocs

\* Mutant: a block is pushed without a look at the list.
FreeBlocUnchecked(bloc) ==
  /\ superbloc # NullPtr
  /\ InVolume(bloc)
  /\ \E n \in Nodes \ DOMAIN heap :
        /\ heap' = Malloc([x \in {n} |-> [pos |-> bloc, next |-> superbloc.first]])
        /\ superbloc' = [superbloc EXCEPT !.first = n]
  /\ UNCHANGED <<disk, currentVol>>

\* A node for bloc becomes the first of the list.
FreeBloc(bloc) ==
  /\ superbloc # NullPtr
  /\ InVolume(bloc)
  /\ ~Finds(superbloc.first, bloc)
  /\ ~WalkFaults(superbloc.first)
  /\ \E n \in Nodes \ DOMAIN heap :
        /\ heap' = Malloc([x \in {n} |-> [pos |-> bloc, next |-> superbloc.first]])
        /\ superbloc' = [superbloc EXCEPT !.first = n]
  /\ UNCHANGED <<disk, currentVol>>

FreeBlocFaults(bloc) ==
  /\ superbloc # NullPtr
  /\ InVolume(bloc)
  /\ ~Finds(superbloc.first, bloc)
  /\ WalkFaults(superbloc.first)

---------------------------------------------------------------------------
(* Properties of the list. *)

Pointers == {disk[a].first : a \in Sectors}
              \cup (IF superbloc = NullPtr THEN {} ELSE {superbloc.first})

\* From any pointer in memory or on the disk a walk of list_vol or free_bloc
\* stops: however nodes die and their addresses are used again, by however
\* many lists, no list closes on itself.
WalksTerminate == \A p \in Pointers : Terminates(p)
=============================================================================
