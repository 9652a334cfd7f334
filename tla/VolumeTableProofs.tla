------------------------- MODULE VolumeTableProofs -------------------------
(* Proofs about VolumeTable, for every number of slots, every cylinder size *)
(* of at least two sectors and every answer to "How many blocs?".           *)
EXTENDS VolumeTable, Arithmetic

\* The carry of cytToSect keeps the position in the order of the sectors.
LEMMA Carry ==
  ASSUME NEW c \in Nat, NEW s \in Nat, NEW n \in Nat, NEW q \in Nat, NEW r \in Nat,
         NEW M \in Nat, s + n = q * M + r
  PROVE  (c + q) * M + r = c * M + s + n
<1>1. /\ c * M \in Nat /\ q * M \in Nat
      /\ (c + q) * M = c * M + q * M
  BY SMT
<1> QED BY <1>1

\* cytToSect returns a sector of a cylinder, and the one nbloc sectors behind
\* the start of the volume.
LEMMA CytToSectLinear ==
  ASSUME NEW m \in Mbr, NEW vol \in Slots, NEW nbloc \in Nat
  PROVE  /\ CytToSect(m, vol, nbloc)[1] \in Nat
         /\ CytToSect(m, vol, nbloc)[2] \in 0 .. MaxSector - 1
         /\ Linear(CytToSect(m, vol, nbloc)) = Start(m, vol) + nbloc
<1> DEFINE v    == m.volumes[vol]
           sect == v.debutSect + nbloc
<1>1. /\ MaxSector \in Nat \ {0}
      /\ v.debutCyl \in Nat
      /\ v.debutSect \in 0 .. MaxSector - 1
      /\ sect \in Nat
  BY TableAssumption DEF Mbr, Volume
<1>2. CASE sect >= MaxSector
  <2>1. CytToSect(m, vol, nbloc)
          = <<v.debutCyl + sect \div MaxSector, sect % MaxSector>>
    BY <1>2 DEF CytToSect
  <2>2. /\ sect \div MaxSector \in Nat
        /\ sect % MaxSector \in 0 .. MaxSector - 1
        /\ sect = (sect \div MaxSector) * MaxSector + (sect % MaxSector)
    <3>1. /\ sect \div MaxSector \in Nat /\ sect % MaxSector \in 0 .. MaxSector - 1
          /\ sect = MaxSector * (sect \div MaxSector) + (sect % MaxSector)
      BY <1>1, DivMod
    <3> QED BY <1>1, <3>1
  <2> DEFINE q == sect \div MaxSector
             r == sect % MaxSector
  <2>3. (v.debutCyl + q) * MaxSector + r = v.debutCyl * MaxSector + v.debutSect + nbloc
    <3>1. /\ v.debutCyl \in Nat /\ v.debutSect \in Nat
          /\ q \in Nat /\ r \in Nat /\ MaxSector \in Nat
      BY <1>1, <2>2
    <3>2. v.debutSect + nbloc = q * MaxSector + r
      BY <2>2
    <3> DEFINE c == v.debutCyl
               s == v.debutSect
    <3>3. c \in Nat /\ s \in Nat /\ s + nbloc = q * MaxSector + r
      BY <3>1, <3>2
    <3> HIDE DEF c, s, q, r
    <3>4. (c + q) * MaxSector + r = c * MaxSector + s + nbloc
      BY <3>1, <3>3, Carry
    <3> QED BY <3>4 DEF c, s
  <2> QED BY <1>1, <2>1, <2>2, <2>3 DEF Linear, Start
<1>3. CASE ~(sect >= MaxSector)
  <2>1. CytToSect(m, vol, nbloc) = <<v.debutCyl, sect>>
    BY <1>3 DEF CytToSect
  <2>2. sect \in 0 .. MaxSector - 1
    BY <1>1, <1>3
  <2> QED BY <1>1, <2>1, <2>2 DEF Linear, Start
<1> QED BY <1>2, <1>3

---------------------------------------------------------------------------
(* The shape of the table. *)

\* mbr leaves a table without volumes, which is in order.
LEMMA EmptyMbrOk == EmptyMbr \in Mbr /\ Ordered(EmptyMbr)
  BY TableAssumption, SMT DEF EmptyMbr, Mbr, Slots, Volume, NoVolume, Ordered, Present

\* The volumes of a table have a start and a size.
LEMMA StartType ==
  ASSUME NEW m \in Mbr
  PROVE  \A i \in Present(m) : /\ i \in Slots
                               /\ Start(m, i) \in Nat
                               /\ m.volumes[i].nbBlocs \in Nat
<1>1. Present(m) \subseteq Slots
  BY TableAssumption DEF Present, Slots, Mbr
<1>2. ASSUME NEW i \in Slots
      PROVE  Start(m, i) \in Nat /\ m.volumes[i].nbBlocs \in Nat
  <2>1. m.volumes[i] \in Volume
    BY DEF Mbr
  <2> DEFINE c == m.volumes[i].debutCyl
             s == m.volumes[i].debutSect
  <2>2. c \in Nat /\ s \in Nat /\ m.volumes[i].nbBlocs \in Nat /\ MaxSector \in Nat
    BY <2>1, TableAssumption DEF Volume
  <2>3. Start(m, i) = c * MaxSector + s
    BY DEF Start
  <2> HIDE DEF c, s
  <2>4. c * MaxSector + s \in Nat
    BY <2>2
  <2> QED BY <2>2, <2>3, <2>4
<1> QED BY <1>1, <1>2

\* Where new puts a volume: a sector of a cylinder, at or behind the end of
\* every volume of an ordered table.
LEMMA NewStartBehind ==
  ASSUME NEW m \in Mbr, Ordered(m)
  PROVE  /\ NewStart(m)[1] \in Nat
         /\ NewStart(m)[2] \in 0 .. MaxSector - 1
         /\ Linear(NewStart(m)) \in Nat
         /\ Linear(NewStart(m)) >= 1
         /\ \A i \in Present(m) :
               Start(m, i) + m.volumes[i].nbBlocs <= Linear(NewStart(m))
<1> DEFINE last == m.nb_volume - 1
<1>1. \A i \in Present(m) : /\ i \in Slots
                            /\ Start(m, i) \in Nat
                            /\ m.volumes[i].nbBlocs \in Nat
  BY StartType
<1>2. CASE m.nb_volume = 0
  <2>1. NewStart(m) = <<0, 1>>
    BY <1>2 DEF NewStart
  <2> QED BY <1>2, <2>1, TableAssumption DEF Linear, Present
<1>3. CASE m.nb_volume # 0
  <2>1. last \in Present(m)
    BY <1>3 DEF Mbr, Present
  <2>2. NewStart(m) = CytToSect(m, last, m.volumes[last].nbBlocs)
    BY <1>3 DEF NewStart
  <2>3. /\ NewStart(m)[1] \in Nat
        /\ NewStart(m)[2] \in 0 .. MaxSector - 1
        /\ Linear(NewStart(m)) = Start(m, last) + m.volumes[last].nbBlocs
    BY <1>1, <2>1, <2>2, CytToSectLinear
  <2>4. Start(m, last) >= 1
    BY <2>1 DEF Ordered
  <2>5. ASSUME NEW i \in Present(m)
        PROVE  Start(m, i) + m.volumes[i].nbBlocs <= Start(m, last) + m.volumes[last].nbBlocs
    <3>1. CASE i = last
      BY <1>1, <2>1, <3>1
    <3>2. CASE i # last
      <4>1. i < last
        BY <3>2 DEF Present, Mbr
      <4>2. Start(m, i) + m.volumes[i].nbBlocs <= Start(m, last)
        BY <2>1, <4>1 DEF Ordered
      <4> QED BY <1>1, <2>1, <4>2
    <3> QED BY <3>1, <3>2
  <2> QED BY <1>1, <2>1, <2>3, <2>4, <2>5
<1> QED BY <1>2, <1>3

\* A table with one more volume is a table.
LEMMA AppendedType ==
  ASSUME NEW m \in Mbr, Ordered(m), m.nb_volume < MaxVolumes, NEW nbloc \in Nat
  PROVE  Appended(m, nbloc) \in Mbr
<1>1. NewStart(m)[1] \in Nat /\ NewStart(m)[2] \in 0 .. MaxSector - 1
  BY NewStartBehind
<1>2. m.nb_volume + 1 \in 0 .. MaxVolumes /\ m.nb_volume \in Slots
  BY TableAssumption DEF Mbr, Slots
<1>3. [debutCyl |-> NewStart(m)[1], debutSect |-> NewStart(m)[2], nbBlocs |-> nbloc] \in Volume
  BY <1>1 DEF Volume
<1> QED BY <1>2, <1>3 DEF Appended, Mbr

\* new keeps the order: the volumes of the table stay where they are, and the
\* new one starts behind all of them.
LEMMA AppendedOrdered ==
  ASSUME NEW m \in Mbr, Ordered(m), m.nb_volume < MaxVolumes, NEW nbloc \in Nat
  PROVE  Ordered(Appended(m, nbloc))
<1> DEFINE a == Appended(m, nbloc)
           n == m.nb_volume
<1>1. n \in Nat /\ a.nb_volume = n + 1
  BY DEF Mbr, Appended
<1>2. n \in Slots
  BY TableAssumption DEF Mbr, Slots
<1>3. \A i \in Present(m) : i \in Slots /\ i # n /\ i \in Nat /\ i < n
  BY TableAssumption DEF Present, Slots, Mbr
<1>4. \A i \in Present(m) : a.volumes[i] = m.volumes[i]
  BY <1>3 DEF Appended, Mbr
<1>5. \A i \in Present(m) : Start(a, i) = Start(m, i)
  BY <1>4 DEF Start
<1>6. Start(a, n) = Linear(NewStart(m))
  <2>1. a.volumes[n] = [debutCyl |-> NewStart(m)[1], debutSect |-> NewStart(m)[2],
                        nbBlocs |-> nbloc]
    BY <1>2 DEF Appended, Mbr
  <2> QED BY <2>1 DEF Start, Linear
<1>7. Present(a) = Present(m) \cup {n}
  BY <1>1 DEF Present
<1>8. \A i \in Present(a) : Start(a, i) >= 1
  BY <1>5, <1>6, <1>7, NewStartBehind DEF Ordered
<1>9. ASSUME NEW i \in Present(a), NEW j \in Present(a), i < j
      PROVE  Start(a, i) + a.volumes[i].nbBlocs <= Start(a, j)
  <2>1. i \in Present(m)
    BY <1>1, <1>3, <1>7, <1>9
  <2>2. CASE j = n
    BY <1>4, <1>5, <1>6, <2>1, <2>2, NewStartBehind
  <2>3. CASE j \in Present(m)
    BY <1>4, <1>5, <1>9, <2>1, <2>3 DEF Ordered
  <2> QED BY <1>7, <2>2, <2>3
<1> QED BY <1>8, <1>9 DEF Ordered

\* A table with one volume less is a table.
LEMMA RemovedType ==
  ASSUME NEW m \in Mbr, m.nb_volume > 0, NEW vol \in VolAnswers
  PROVE  Removed(m, vol) \in Mbr
<1>1. m.nb_volume - 1 \in 0 .. MaxVolumes
  BY TableAssumption DEF Mbr
<1>2. ASSUME NEW i \in Slots
      PROVE  (IF i >= vol /\ i + 1 < m.nb_volume THEN m.volumes[i + 1] ELSE m.volumes[i])
                \in Volume
  <2>1. m.volumes \in [Slots -> Volume]
    BY DEF Mbr
  <2>2. i + 1 < m.nb_volume => i + 1 \in Slots
    BY TableAssumption DEF Slots, Mbr
  <2> QED BY <2>1, <2>2
<1> QED BY <1>1, <1>2 DEF Removed, Mbr

\* del keeps the order: each slot of the shifted table holds a volume of the
\* old one, and two slots hold two volumes in the same order.
LEMMA RemovedOrdered ==
  ASSUME NEW m \in Mbr, Ordered(m), m.nb_volume > 0, NEW vol \in VolAnswers
  PROVE  Ordered(Removed(m, vol))
<1> DEFINE r == Removed(m, vol)
           from(i) == IF i >= vol /\ i + 1 < m.nb_volume THEN i + 1 ELSE i
<1>1. vol \in Int /\ m.nb_volume \in Nat /\ r.nb_volume = m.nb_volume - 1
  BY TableAssumption DEF VolAnswers, Mbr, Removed
<1>2. \A i \in Present(r) : i \in Slots /\ i \in Nat /\ i + 1 < m.nb_volume
  BY <1>1, TableAssumption DEF Present, Slots, Mbr
<1>3. \A i \in Present(r) : from(i) \in Present(m) /\ r.volumes[i] = m.volumes[from(i)]
  BY <1>1, <1>2 DEF Present, Removed
<1>4. \A i \in Present(r) : Start(r, i) = Start(m, from(i))
  BY <1>3 DEF Start
<1>5. \A i, j \in Present(r) : i < j => from(i) < from(j)
  BY <1>1, <1>2
<1> HIDE DEF r, from
<1>6. \A i \in Present(r) : Start(r, i) >= 1
  BY <1>3, <1>4 DEF Ordered
<1>7. ASSUME NEW i \in Present(r), NEW j \in Present(r), i < j
      PROVE  Start(r, i) + r.volumes[i].nbBlocs <= Start(r, j)
  BY <1>3, <1>4, <1>5, <1>7 DEF Ordered
<1>8. Ordered(r)
  BY <1>6, <1>7 DEF Ordered
<1> QED BY <1>8 DEF r

---------------------------------------------------------------------------
(* The inductive invariant: both tables are well typed and ordered.  The    *)
(* order is needed for the type as well: only an ordered table says where   *)
(* the last volume ends.                                                    *)

TableInv == TypeOK /\ VolumesOrdered

\* The invariant holds of the empty disk,
LEMMA InitInv == Init => TableInv
  BY EmptyMbrOk DEF Init, TableInv, TypeOK, VolumesOrdered

\* and every command of the shell keeps it,
LEMMA NextInv == TableInv /\ [Next]_tableVars => TableInv'
<1> SUFFICES ASSUME TableInv, [Next]_tableVars
             PROVE  TableInv'
  OBVIOUS
<1> USE DEF TableInv, TypeOK, VolumesOrdered
<1>1. CASE Boot
  BY <1>1 DEF Boot
<1>2. ASSUME NEW nbloc \in BlocCounts, New(nbloc)
      PROVE  TableInv'
  <2>1. nbloc \in Nat
    BY TableAssumption
  <2>2. /\ mbr' = Appended(mbr, nbloc)
        /\ mbr.nb_volume < MaxVolumes
        /\ UNCHANGED <<running, savedMbr>>
    BY <1>2 DEF New
  <2>3. mbr' \in Mbr /\ Ordered(mbr')
    BY <2>1, <2>2, AppendedType, AppendedOrdered
  <2> QED BY <2>2, <2>3
<1>3. ASSUME NEW vol \in VolAnswers, Del(vol)
      PROVE  TableInv'
  <2>1. /\ mbr' = Removed(mbr, vol)
        /\ mbr.nb_volume > 0
        /\ UNCHANGED <<running, savedMbr>>
    BY <1>3 DEF Del
  <2>2. mbr' \in Mbr /\ Ordered(mbr')
    BY <2>1, RemovedType, RemovedOrdered
  <2> QED BY <2>1, <2>2
<1>4. CASE Save
  BY <1>4 DEF Save
<1>5. CASE Quit
  BY <1>5 DEF Quit
<1>6. CASE Exit
  BY <1>6 DEF Exit
<1>7. CASE MakeTable
  BY <1>7, EmptyMbrOk DEF MakeTable
<1>8. CASE UNCHANGED tableVars
  BY <1>8 DEF tableVars
<1> QED BY <1>1, <1>2, <1>3, <1>4, <1>5, <1>6, <1>7, <1>8 DEF Next

\* so that it holds of every state.
LEMMA InvHolds == Spec => []TableInv
  BY InitInv, NextInv, PTL DEF Spec

\* The tables in memory and on the disk keep the shape of mbr_t under every
\* sequence of new, del, save, quit, exit and restarts of vm, as long as the
\* operator answers new and del with natural numbers.
THEOREM TypeCorrect == Spec => []TypeOK
  BY InvHolds, PTL DEF TableInv

\* The volumes are ordered and disjoint in both tables, for every number of
\* slots, every cylinder size and every answer to "How many blocs?".
THEOREM OrderCorrect == Spec => []VolumesOrdered
  BY InvHolds, PTL DEF TableInv

---------------------------------------------------------------------------
(* From the order of the volumes to the sectors of their blocks. *)

\* In an ordered table every block has a sector of its own.
LEMMA OrderedOwnSector ==
  ASSUME NEW m \in Mbr, Ordered(m)
  PROVE  OwnSector(m)
<1>1. ASSUME NEW i \in Present(m), NEW b \in Blocs(m, i)
      PROVE  /\ i \in Slots /\ b \in Nat /\ b < m.volumes[i].nbBlocs
             /\ Start(m, i) \in Nat /\ m.volumes[i].nbBlocs \in Nat
             /\ CytToSect(m, i, b)[2] \in 0 .. MaxSector - 1
             /\ Linear(CytToSect(m, i, b)) = Start(m, i) + b
  <2>1. /\ i \in Slots /\ Start(m, i) \in Nat /\ m.volumes[i].nbBlocs \in Nat
    BY StartType
  <2>2. b \in Nat /\ b < m.volumes[i].nbBlocs
    BY <2>1 DEF Blocs
  <2> QED BY <2>1, <2>2, CytToSectLinear
<1>2. Linear(<<0, 0>>) = 0
  BY TableAssumption DEF Linear
<1>3. ASSUME NEW i \in Present(m), NEW b \in Blocs(m, i)
      PROVE  /\ CytToSect(m, i, b)[2] < MaxSector
             /\ CytToSect(m, i, b) # <<0, 0>>
  <2>1. CytToSect(m, i, b)[2] < MaxSector
    BY <1>1, TableAssumption
  <2>2. Start(m, i) >= 1
    BY DEF Ordered
  <2> QED BY <1>1, <1>2, <2>1, <2>2
<1>4. ASSUME NEW i \in Present(m), NEW b \in Blocs(m, i),
             NEW j \in Present(m), NEW c \in Blocs(m, j),
             CytToSect(m, i, b) = CytToSect(m, j, c)
      PROVE  i = j /\ b = c
  <2>1. Start(m, i) + b = Start(m, j) + c
    BY <1>1, <1>4
  <2>2. ~(i < j)
    BY <1>1, <2>1 DEF Ordered
  <2>3. ~(j < i)
    BY <1>1, <2>1 DEF Ordered
  <2>4. i = j
    BY <1>1, <2>2, <2>3 DEF Slots
  <2> QED BY <1>1, <2>1, <2>4
<1> QED BY <1>3, <1>4 DEF OwnSector

\* Two different blocks never share a sector and none is the sector of the
\* table, whatever the sequence of commands and restarts.
THEOREM SectorCorrect == Spec => []BlocsHaveOwnSector
<1>1. TableInv => BlocsHaveOwnSector
  BY OrderedOwnSector DEF TableInv, TypeOK, VolumesOrdered, BlocsHaveOwnSector
<1> QED BY <1>1, InvHolds, PTL

---------------------------------------------------------------------------
(* What a command may do to the volumes that are there. *)

\* The extents of a table with a new volume.
LEMMA AppendedExtents ==
  ASSUME NEW m \in Mbr, Ordered(m), m.nb_volume < MaxVolumes, NEW nbloc \in Nat
  PROVE  Extents(Appended(m, nbloc)) = Extents(m) \cup {<<Linear(NewStart(m)), nbloc>>}
<1> DEFINE a == Appended(m, nbloc)
           n == m.nb_volume
<1>1. n \in Slots /\ n \in Nat /\ a.nb_volume = n + 1
  BY TableAssumption DEF Mbr, Slots, Appended
<1>2. Present(a) = Present(m) \cup {n}
  BY <1>1 DEF Present
<1>3. \A i \in Present(m) : i \in Slots /\ i # n
  BY TableAssumption DEF Present, Slots, Mbr
<1>4. \A i \in Present(m) : a.volumes[i] = m.volumes[i]
  BY <1>3 DEF Appended, Mbr
<1>5. a.volumes[n] = [debutCyl |-> NewStart(m)[1], debutSect |-> NewStart(m)[2],
                      nbBlocs |-> nbloc]
  BY <1>1 DEF Appended, Mbr
<1>6. \A i \in Present(m) : Start(a, i) = Start(m, i) /\ a.volumes[i].nbBlocs = m.volumes[i].nbBlocs
  BY <1>4 DEF Start
<1>7. Start(a, n) = Linear(NewStart(m)) /\ a.volumes[n].nbBlocs = nbloc
  BY <1>5 DEF Start, Linear
<1> HIDE DEF a
<1>8. Extents(a) = Extents(m) \cup {<<Linear(NewStart(m)), nbloc>>}
  BY <1>2, <1>6, <1>7 DEF Extents
<1> QED BY <1>8 DEF a

\* del leaves no extent that was not there.
LEMMA RemovedExtents ==
  ASSUME NEW m \in Mbr, m.nb_volume > 0, NEW vol \in VolAnswers
  PROVE  Extents(Removed(m, vol)) \subseteq Extents(m)
<1> DEFINE r == Removed(m, vol)
           from(i) == IF i >= vol /\ i + 1 < m.nb_volume THEN i + 1 ELSE i
<1>1. vol \in Int /\ m.nb_volume \in Nat /\ r.nb_volume = m.nb_volume - 1
  BY TableAssumption DEF VolAnswers, Mbr, Removed
<1>2. \A i \in Present(r) : i \in Slots /\ i \in Nat /\ i + 1 < m.nb_volume
  BY <1>1, TableAssumption DEF Present, Slots, Mbr
<1>3. \A i \in Present(r) : from(i) \in Present(m) /\ r.volumes[i] = m.volumes[from(i)]
  BY <1>1, <1>2 DEF Present, Removed
<1> HIDE DEF r, from
<1>4. \A i \in Present(r) : Start(r, i) = Start(m, from(i))
  BY <1>3 DEF Start
<1>5. Extents(r) \subseteq Extents(m)
  BY <1>3, <1>4 DEF Extents
<1> QED BY <1>5 DEF r

\* No command moves or resizes a volume, and a new one lies behind all others.
THEOREM StayPutCorrect == Spec => VolumesStayPut
<1> DEFINE Stay == running /\ running' =>
                     \A e \in Extents(mbr') \ Extents(mbr) :
                       \A f \in Extents(mbr) : f \in Extents(mbr') /\ f[1] + f[2] <= e[1]
<1>1. TableInv /\ [Next]_tableVars => [Stay]_tableVars
  <2> SUFFICES ASSUME TableInv, Next, running, running'
               PROVE  Stay
    OBVIOUS
  <2>1. mbr \in Mbr /\ Ordered(mbr)
    BY DEF TableInv, TypeOK, VolumesOrdered
  <2>2. ASSUME NEW nbloc \in BlocCounts, New(nbloc)
        PROVE  Stay
    <3>1. /\ mbr' = Appended(mbr, nbloc)
          /\ mbr.nb_volume < MaxVolumes
          /\ nbloc \in Nat
      BY <2>2, TableAssumption DEF New
    <3>2. Extents(mbr') = Extents(mbr) \cup {<<Linear(NewStart(mbr)), nbloc>>}
      BY <2>1, <3>1, AppendedExtents
    <3>3. \A f \in Extents(mbr) : f[1] + f[2] <= Linear(NewStart(mbr))
      BY <2>1, NewStartBehind DEF Extents
    <3> QED BY <3>2, <3>3
  <2>3. ASSUME NEW vol \in VolAnswers, Del(vol)
        PROVE  Stay
    BY <2>1, <2>3, RemovedExtents DEF Del
  <2>4. CASE Save
    BY <2>4 DEF Save, Extents
  <2> QED BY <2>2, <2>3, <2>4 DEF Next, Boot, Quit, Exit, MakeTable
<1> QED BY <1>1, InvHolds, PTL DEF Spec, VolumesStayPut
=============================================================================
