----------------------------- MODULE ShellProofs -----------------------------
(* Proofs about the shell and the free lists, for every geometry, heap and   *)
(* answer of the operator.                                                   *)
EXTENDS Shell, VolumeTableProofs

---------------------------------------------------------------------------
(* The invariant. *)

\* No set of live nodes is closed under next: no list closes on itself.
Acyclic(h) == \A S \in SUBSET DOMAIN h : S # {} => \E n \in S : h[n].next \notin S

DiskTyped == disk \in [Sectors -> [kind : {"mbr", "data", "super", "node"}, first : Ptr]]

HeapTyped(h) ==
  /\ h \in [DOMAIN h -> [pos : Nat, next : Ptr]]
  /\ DOMAIN h \subseteq Nodes

SuperTyped == \/ superbloc = NullPtr
              \/ superbloc \in [first : Ptr, home : Sectors]

\* Every slot starts on the disk, those that hold no volume as well.
StartsOnDisk(m) == \A i \in Slots : Start(m, i) \in Sectors

ListInv ==
  /\ DiskTyped /\ HeapTyped(heap) /\ SuperTyped /\ currentVol \in Slots
  /\ StartsOnDisk(mbr) /\ StartsOnDisk(savedMbr)
  /\ Acyclic(heap)
  /\ ~running => superbloc = NullPtr

ShellInv == TableInv /\ ListInv

---------------------------------------------------------------------------
(* Addresses. *)

\* The superblock of a slot lies where the slot starts.
LEMMA AddressOf ==
  ASSUME NEW vol \in Slots, NEW bloc \in Nat, mbr \in Mbr
  PROVE  Address(vol, bloc) = Start(mbr, vol) + bloc
BY CytToSectLinear DEF Address

\* A start is the number of a sector.
LEMMA StartNat ==
  ASSUME NEW m \in Mbr, NEW i \in Slots
  PROVE  Start(m, i) \in Nat
<1> DEFINE c == m.volumes[i].debutCyl
           s == m.volumes[i].debutSect
<1>1. c \in Nat /\ s \in Nat /\ MaxSector \in Nat
  BY TableAssumption DEF Mbr, Volume
<1>2. c * MaxSector \in Nat
  <2> HIDE DEF c
  <2> QED BY <1>1, TimesNat
<1> HIDE DEF c, s
<1>3. Start(m, i) = c * MaxSector + s
  BY DEF Start, c, s
<1> QED BY <1>1, <1>2, <1>3

\* Block 0 of a slot is on the disk.
LEMMA SuperAddress ==
  ASSUME NEW vol \in Slots, mbr \in Mbr, StartsOnDisk(mbr)
  PROVE  Address(vol, 0) = Start(mbr, vol) /\ Address(vol, 0) \in Sectors
<1>1. Address(vol, 0) = Start(mbr, vol) + 0 /\ Start(mbr, vol) \in Nat
  BY AddressOf, StartNat
<1> QED BY <1>1 DEF StartsOnDisk

\* A write changes the sector it names,
LEMMA NamedSector ==
  ASSUME NEW a \in Nat, NEW n \in Counts(a)
  PROVE  n \in Nat \ {0} /\ a \in SectorsFrom(a, n)
<1>1. MaxSector \in Nat \ {0}
  BY TableAssumption
<1>2. a % MaxSector \in Nat /\ a = MaxSector * (a \div MaxSector) + (a % MaxSector)
  BY <1>1, DivMod
<1>3. n \in Nat \ {0} /\ 0 \in 0 .. n - 1
  BY <1>2 DEF Counts
<1>4. a = (a \div MaxSector) * MaxSector + ((a + 0) % MaxSector)
  BY <1>1, <1>2
<1> QED BY <1>3, <1>4 DEF SectorsFrom

\* and comes to the sector of the table from the upper half of its cylinder only.
LEMMA ReachesTable ==
  ASSUME NEW a \in Nat \ {0}, NEW n \in Counts(a), 0 \in SectorsFrom(a, n)
  PROVE  a < MaxSector /\ MaxSector < 2 * a
<1> DEFINE M == MaxSector
           q == a \div M
           s == a % M
<1>1. M \in Nat \ {0, 1}
  BY TableAssumption
<1>2. a = M * q + s /\ q \in Nat /\ s \in 0 .. M - 1
  BY <1>1, DivMod
<1>3. n \in Nat \ {0} /\ (n = 1 \/ n <= s)
  BY <1>2, NamedSector DEF Counts
<1>4. PICK i \in 0 .. n - 1 : 0 = q * M + ((a + i) % M)
  BY DEF SectorsFrom
<1> DEFINE t == (a + i) % M
           p == (a + i) \div M
<1>5. a + i \in Nat \ {0} /\ a + i = M * p + t /\ p \in Nat /\ t \in 0 .. M - 1
  <2>1. a + i \in Nat \ {0} /\ i \in Nat
    BY <1>3
  <2> HIDE DEF M
  <2>2. /\ a + i = M * ((a + i) \div M) + ((a + i) % M)
        /\ (a + i) \div M \in Nat /\ (a + i) % M \in 0 .. M - 1
    BY <1>1, <2>1, DivMod
  <2> QED BY <2>1, <2>2
<1>6. 0 = q * M + t
  BY <1>4
<1> HIDE DEF M, q, s, t, p
<1>7. q * M \in Nat
  BY <1>1, <1>2, TimesNat
<1>8. t = 0 /\ q * M = 0
  BY <1>5, <1>6, <1>7
<1>9. q = 0
  BY <1>1, <1>2, <1>8
<1>10. a = s
  BY <1>1, <1>2, <1>9
<1>11. p # 0
  BY <1>1, <1>5, <1>8
<1>12. a + i >= M
  BY <1>1, <1>5, <1>8, <1>11
<1>13. i <= a - 1 \/ i = 0
  BY <1>3, <1>10
<1> QED BY <1>1, <1>2, <1>10, <1>12, <1>13 DEF M

\* The slots of a new table start on the disk, when the volume fits on it.
LEMMA AppendedOnDisk ==
  ASSUME NEW m \in Mbr, Ordered(m), m.nb_volume < MaxVolumes, StartsOnDisk(m),
         NEW nbloc \in Nat, Linear(NewStart(m)) + nbloc + 1 < DiskSize
  PROVE  StartsOnDisk(Appended(m, nbloc))
<1>1. Linear(NewStart(m)) \in Nat
  BY NewStartBehind
<1>2. m.nb_volume \in Slots /\ m.volumes \in [Slots -> Volume]
  BY TableAssumption DEF Mbr, Slots
<1> SUFFICES ASSUME NEW i \in Slots PROVE Start(Appended(m, nbloc), i) \in Sectors
  BY DEF StartsOnDisk
<1>3. CASE i = m.nb_volume
  <2>1. Start(Appended(m, nbloc), i) = Linear(NewStart(m))
    BY <1>2, <1>3 DEF Appended, Start, Linear
  <2> QED BY <1>1, <2>1, SuperblocAssumption DEF Sectors
<1>4. CASE i # m.nb_volume
  <2>1. Start(Appended(m, nbloc), i) = Start(m, i)
    BY <1>2, <1>4 DEF Appended, Start
  <2> QED BY <2>1 DEF StartsOnDisk
<1> QED BY <1>3, <1>4

\* Those of a table a volume has left as well.
LEMMA RemovedOnDisk ==
  ASSUME NEW m \in Mbr, StartsOnDisk(m), NEW vol
  PROVE  StartsOnDisk(Removed(m, vol))
<1> SUFFICES ASSUME NEW i \in Slots PROVE Start(Removed(m, vol), i) \in Sectors
  BY DEF StartsOnDisk
<1>1. CASE i >= vol /\ i + 1 < m.nb_volume
  <2>1. i + 1 \in Slots
    BY <1>1, TableAssumption DEF Mbr, Slots
  <2>2. Start(Removed(m, vol), i) = Start(m, i + 1)
    BY <1>1 DEF Removed, Start
  <2> QED BY <2>1, <2>2 DEF StartsOnDisk
<1>2. CASE ~(i >= vol /\ i + 1 < m.nb_volume)
  <2>1. Start(Removed(m, vol), i) = Start(m, i)
    BY <1>2 DEF Removed, Start
  <2> QED BY <2>1 DEF StartsOnDisk
<1> QED BY <1>1, <1>2

---------------------------------------------------------------------------
(* The heap. *)

\* The heap of a new process is empty, and has no cycle.
LEMMA NoHeap == HeapTyped(<<>>) /\ Acyclic(<<>>)
<1>1. DOMAIN <<>> = {}
  OBVIOUS
<1> QED BY <1>1 DEF HeapTyped, Acyclic

\* Freeing a node closes no list.
LEMMA FreeHeap ==
  ASSUME NEW h, HeapTyped(h), Acyclic(h), NEW n
  PROVE  HeapTyped(Restrict(h, DOMAIN h \ {n})) /\ Acyclic(Restrict(h, DOMAIN h \ {n}))
<1> DEFINE g == Restrict(h, DOMAIN h \ {n})
<1>1. DOMAIN g = DOMAIN h \ {n} /\ \A x \in DOMAIN g : g[x] = h[x]
  BY DEF Restrict
<1>2. g = [x \in DOMAIN g |-> h[x]]
  BY <1>1 DEF Restrict
<1> HIDE DEF g
<1>3. HeapTyped(g)
  BY <1>1, <1>2 DEF HeapTyped
<1>4. ASSUME NEW S \in SUBSET DOMAIN g, S # {} PROVE \E x \in S : g[x].next \notin S
  <2>1. PICK x \in S : h[x].next \notin S
    BY <1>1, <1>4 DEF Acyclic
  <2> QED BY <1>1, <2>1
<1> QED BY <1>3, <1>4 DEF Acyclic, g

\* A heap grows by nodes of another one.
Grown(h, f) == [n \in DOMAIN h \cup DOMAIN f |-> IF n \in DOMAIN h THEN h[n] ELSE f[n]]

\* malloc leaves the nodes that were there, and adds the new ones.
LEMMA GrownAt ==
  ASSUME NEW h, NEW f, DOMAIN f \cap DOMAIN h = {}, HeapTyped(h), HeapTyped(f)
  PROVE  /\ DOMAIN Grown(h, f) = DOMAIN h \cup DOMAIN f
         /\ \A n \in DOMAIN h : Grown(h, f)[n] = h[n]
         /\ \A n \in DOMAIN f : Grown(h, f)[n] = f[n]
         /\ HeapTyped(Grown(h, f))
<1> DEFINE g == Grown(h, f)
<1>1. /\ DOMAIN g = DOMAIN h \cup DOMAIN f
      /\ \A n \in DOMAIN h : g[n] = h[n]
      /\ \A n \in DOMAIN f : g[n] = f[n]
  BY DEF Grown
<1>2. g = [n \in DOMAIN g |-> g[n]]
  BY DEF Grown
<1> HIDE DEF g
<1>3. HeapTyped(g)
  BY <1>1, <1>2 DEF HeapTyped
<1> QED BY <1>1, <1>3 DEF g

\* New nodes whose lists stay among themselves close no list, ...
LEMMA GrownApart ==
  ASSUME NEW h, NEW f, DOMAIN f \cap DOMAIN h = {}, HeapTyped(h), HeapTyped(f),
         Acyclic(h), Acyclic(f),
         \A n \in DOMAIN f : f[n].next \in DOMAIN f \cup {NullPtr}
  PROVE  Acyclic(Grown(h, f))
<1> DEFINE g == Grown(h, f)
<1>1. /\ DOMAIN g = DOMAIN h \cup DOMAIN f /\ DOMAIN g \subseteq Nodes
      /\ \A n \in DOMAIN h : g[n] = h[n]
      /\ \A n \in DOMAIN f : g[n] = f[n]
  <2>1. DOMAIN h \subseteq Nodes /\ DOMAIN f \subseteq Nodes
    BY DEF HeapTyped
  <2> QED BY <2>1, GrownAt
<1> HIDE DEF g
<1> SUFFICES ASSUME NEW S \in SUBSET DOMAIN g, S # {}, \A n \in S : g[n].next \in S
             PROVE  FALSE
  BY DEF Acyclic, g
<1>2. NullPtr \notin S
  BY <1>1, SuperblocAssumption
<1>3. CASE S \cap DOMAIN f = {}
  <2>1. S \in SUBSET DOMAIN h /\ \A n \in S : h[n].next \in S
    BY <1>1, <1>3
  <2> QED BY <2>1 DEF Acyclic
<1>4. CASE S \cap DOMAIN f # {}
  <2> DEFINE T == S \cap DOMAIN f
  <2>1. T \in SUBSET DOMAIN f /\ \A n \in T : f[n].next \in T
    BY <1>1, <1>2
  <2> QED BY <1>4, <2>1 DEF Acyclic
<1> QED BY <1>3, <1>4

\* ... nor does a new node in front of a list that ends.
LEMMA GrownInFront ==
  ASSUME NEW h, NEW f, NEW n \in Nodes \ DOMAIN h, DOMAIN f = {n},
         HeapTyped(h), HeapTyped(f), Acyclic(h),
         NEW R \in SUBSET DOMAIN h, \A x \in R : h[x].next \in R \cup {NullPtr},
         f[n].next \in R \cup {NullPtr}
  PROVE  Acyclic(Grown(h, f))
<1> DEFINE g == Grown(h, f)
<1>1. /\ DOMAIN g = DOMAIN h \cup {n} /\ DOMAIN g \subseteq Nodes
      /\ \A x \in DOMAIN h : g[x] = h[x]
      /\ g[n] = f[n]
  <2>1. DOMAIN f \cap DOMAIN h = {}
    OBVIOUS
  <2>2. /\ DOMAIN g = DOMAIN h \cup DOMAIN f
        /\ \A x \in DOMAIN h : g[x] = h[x]
        /\ \A x \in DOMAIN f : g[x] = f[x]
        /\ HeapTyped(g)
    BY <2>1, GrownAt
  <2> HIDE DEF g
  <2> QED BY <2>2 DEF HeapTyped
<1> HIDE DEF g
<1> SUFFICES ASSUME NEW S \in SUBSET DOMAIN g, S # {}, \A x \in S : g[x].next \in S
             PROVE  FALSE
  BY DEF Acyclic, g
<1>2. NullPtr \notin S
  BY <1>1, SuperblocAssumption
<1>3. CASE n \notin S
  <2>1. S \in SUBSET DOMAIN h /\ \A x \in S : h[x].next \in S
    BY <1>1, <1>3
  <2> QED BY <2>1 DEF Acyclic
<1>4. CASE n \in S
  <2> DEFINE T == S \cap R
  <2>1. T \in SUBSET DOMAIN h /\ T # {}
    BY <1>1, <1>2, <1>4
  <2>2. \A x \in T : h[x].next \in T
    BY <1>1, <1>2
  <2> QED BY <2>1, <2>2 DEF Acyclic
<1> QED BY <1>3, <1>4

\* The nodes init_volume makes: one for each block, linked in their order.
LEMMA FreshNodes ==
  ASSUME NEW size \in Nat, NEW D, NEW place \in Injection(ListedBlocs(size), Nodes \ D)
  PROVE  /\ DOMAIN FreshList(place, ListedBlocs(size)) = Range(place)
         /\ Range(place) \subseteq Nodes \ D
         /\ 1 \in ListedBlocs(size) /\ place[1] \in Range(place)
         /\ \A b \in ListedBlocs(size) :
              FreshList(place, ListedBlocs(size))[place[b]]
                = [pos |-> b, next |-> IF b + 1 \in ListedBlocs(size) THEN place[b + 1]
                                       ELSE NullPtr]
<1> DEFINE bs == ListedBlocs(size)
           f  == FreshList(place, bs)
<1>1. place \in [bs -> Nodes \ D] /\ \A a, b \in bs : place[a] = place[b] => a = b
  BY DEF Injection, IsInjective
<1>2. Range(place) \subseteq Nodes \ D
  BY <1>1 DEF Range
<1>3. 1 \in bs
  BY DEF ListedBlocs
<1>4. \A b \in bs : place[b] \in Range(place)
  BY <1>1 DEF Range
<1>5. DOMAIN f = Range(place)
  BY DEF FreshList
<1>6. ASSUME NEW b \in bs
      PROVE  f[place[b]] = [pos |-> b, next |-> IF b + 1 \in bs THEN place[b + 1] ELSE NullPtr]
  <2> DEFINE B == CHOOSE a \in bs : place[a] = place[b]
  <2>1. B = b
    <3> HIDE DEF bs
    <3> QED BY <1>1, <1>6
  <2>2. f[place[b]] = [pos |-> B, next |-> IF B + 1 \in bs THEN place[B + 1] ELSE NullPtr]
    BY <1>4 DEF FreshList
  <2> HIDE DEF bs, f, B
  <2> QED BY <2>1, <2>2
<1> HIDE DEF f
<1> QED BY <1>2, <1>3, <1>4, <1>5, <1>6 DEF f

\* The list of a new superblock is a heap without cycles, closed under next.
LEMMA FreshHeap ==
  ASSUME NEW size \in Nat, NEW D, NEW place \in Injection(ListedBlocs(size), Nodes \ D)
  PROVE  LET f == FreshList(place, ListedBlocs(size))
         IN  /\ HeapTyped(f) /\ Acyclic(f)
             /\ \A n \in DOMAIN f : f[n].next \in DOMAIN f \cup {NullPtr}
<1> DEFINE bs == ListedBlocs(size)
           f  == FreshList(place, bs)
<1>1. place \in [bs -> Nodes \ D] /\ \A a, b \in bs : place[a] = place[b] => a = b
  BY DEF Injection, IsInjective
<1>2. bs \subseteq Nat
  BY DEF ListedBlocs
<1>3. /\ DOMAIN f = Range(place)
      /\ Range(place) \subseteq Nodes \ D
      /\ \A b \in bs : f[place[b]] = [pos |-> b, next |-> IF b + 1 \in bs THEN place[b + 1]
                                                        ELSE NullPtr]
  BY FreshNodes
<1>4. f = [n \in DOMAIN f |-> f[n]]
  BY DEF FreshList
<1> HIDE DEF bs, f
<1>5. \A n \in DOMAIN f : \E b \in bs : n = place[b]
  BY <1>1, <1>3 DEF Range
<1>6. \A b \in bs : place[b] \in DOMAIN f
  BY <1>1, <1>3 DEF Range
<1>7. ASSUME NEW n \in DOMAIN f
      PROVE  /\ f[n] \in [pos : Nat, next : Ptr]
             /\ f[n].next \in DOMAIN f \cup {NullPtr}
  <2>1. PICK b \in bs : n = place[b]
    BY <1>5
  <2>2. f[n] = [pos |-> b, next |-> IF b + 1 \in bs THEN place[b + 1] ELSE NullPtr]
    BY <1>3, <2>1
  <2>3. CASE b + 1 \in bs
    <3>1. place[b + 1] \in DOMAIN f /\ place[b + 1] \in Nodes
      BY <1>3, <1>6, <2>3
    <3> QED BY <1>2, <2>2, <2>3, <3>1 DEF Ptr
  <2>4. CASE b + 1 \notin bs
    BY <1>2, <2>2, <2>4 DEF Ptr
  <2> QED BY <2>3, <2>4
<1>8. HeapTyped(f)
  BY <1>3, <1>4, <1>7 DEF HeapTyped
<1>9. ASSUME NEW S \in SUBSET DOMAIN f, S # {}, \A n \in S : f[n].next \in S PROVE FALSE
  <2> DEFINE last == IF size > 2 THEN size - 1 ELSE 1
             T    == {last - b : b \in {x \in bs : place[x] \in S}}
  <2>1. last \in Nat /\ bs = 1 .. last
    BY DEF bs, ListedBlocs
  <2>2. T \in SUBSET Nat /\ T # {}
    <3> HIDE DEF last
    <3>1. PICK n \in S : TRUE
      BY <1>9
    <3>2. PICK b \in bs : n = place[b]
      BY <1>5
    <3> QED BY <2>1, <3>2
  <2>3. PICK t \in T : \A u \in T : t <= u
    BY <2>2, LeastOf
  <2>4. PICK b \in bs : t = last - b /\ place[b] \in S
    BY <2>3
  <2>5. f[place[b]].next = IF b + 1 \in bs THEN place[b + 1] ELSE NullPtr
    <3>1. f[place[b]] = [pos |-> b, next |-> IF b + 1 \in bs THEN place[b + 1] ELSE NullPtr]
      BY <1>3
    <3> QED BY <3>1
  <2>6. NullPtr \notin S
    BY <1>3, SuperblocAssumption
  <2>7. b + 1 \in bs /\ place[b + 1] \in S
    BY <1>9, <2>4, <2>5, <2>6
  <2>8. last - (b + 1) \in T
    BY <2>7
  <2> HIDE DEF T, last
  <2> QED BY <2>1, <2>3, <2>4, <2>8
<1>10. Acyclic(f)
  BY <1>9 DEF Acyclic
<1> QED BY <1>7, <1>8, <1>10 DEF f, bs

---------------------------------------------------------------------------
(* A walk along the list. *)

LinkOf(h) == [q \in Ptr |-> IF q \in DOMAIN h THEN h[q].next ELSE q]

\* The length of a walk is a number.
LEMMA StepsNat == MaxSteps \in Nat
BY SuperblocAssumption, FS_CardinalityType DEF MaxSteps

\* The walk of Step, and where it gets to, as functions of the heap.
StepsOf(h, p) == Walk(p, LinkOf(h), MaxSteps)
EndIn(h, p)   == StepsOf(h, p)[MaxSteps]
ReachIn(h, p) == Range(StepsOf(h, p)) \cap DOMAIN h

\* The walks of Superbloc are those of the heap.
LEMMA WalksOfState ==
  ASSUME NEW p
  PROVE  Step(p) = StepsOf(heap, p) /\ End(p) = EndIn(heap, p) /\ Reached(p) = ReachIn(heap, p)
<1>1. Step(p) = StepsOf(heap, p)
  BY DEF Step, StepsOf, Walk, LinkOf
<1> QED BY <1>1 DEF End, EndIn, Reached, ReachIn

\* A step goes to the next node, and stays where there is none.
LEMMA Steps ==
  ASSUME NEW h, NEW p \in Ptr, HeapTyped(h)
  PROVE  /\ StepsOf(h, p) \in [0 .. MaxSteps -> Ptr]
         /\ StepsOf(h, p)[0] = p
         /\ \A n \in 0 .. MaxSteps - 1 :
              StepsOf(h, p)[n + 1] = IF StepsOf(h, p)[n] \in DOMAIN h THEN h[StepsOf(h, p)[n]].next
                               ELSE StepsOf(h, p)[n]
<1> DEFINE f == StepsOf(h, p)
<1>1. LinkOf(h) \in [Ptr -> Ptr]
  BY DEF HeapTyped, LinkOf
<1>2. WalksIn(Ptr, p, LinkOf(h), MaxSteps)
  BY <1>1, StepsNat, Iteration
<1>3. f = Walk(p, LinkOf(h), MaxSteps)
  BY DEF StepsOf
<1> HIDE DEF f
<1>4. /\ f \in [0 .. MaxSteps -> Ptr] /\ f[0] = p
      /\ \A n \in 1 .. MaxSteps : f[n] = LinkOf(h)[f[n - 1]]
  BY <1>2, <1>3 DEF WalksIn
<1>5. ASSUME NEW n \in 0 .. MaxSteps - 1
      PROVE  f[n + 1] = IF f[n] \in DOMAIN h THEN h[f[n]].next ELSE f[n]
  <2>1. n + 1 \in 1 .. MaxSteps /\ (n + 1) - 1 = n /\ n \in 0 .. MaxSteps
    BY StepsNat
  <2>2. f[n + 1] = LinkOf(h)[f[n]] /\ f[n] \in Ptr
    BY <1>4, <2>1
  <2> QED BY <2>2 DEF LinkOf
<1> QED BY <1>4, <1>5 DEF f

\* Once the walk is at no live node it has come to its end.
LEMMA StepsEnd ==
  ASSUME NEW h, NEW p \in Ptr, HeapTyped(h), NEW i \in 0 .. MaxSteps,
         StepsOf(h, p)[i] \notin DOMAIN h
  PROVE  EndIn(h, p) = StepsOf(h, p)[i]
<1> DEFINE f == StepsOf(h, p)
           k == MaxSteps - i
           S == {d \in 0 .. k : f[i + d] = f[i]}
<1>1. k \in Nat /\ MaxSteps \in Nat
  BY StepsNat
<1>2. 0 \in S
  BY <1>1
<1>3. ASSUME NEW d \in 0 .. k - 1, d \in S PROVE d + 1 \in S
  <2>1. i + d \in 0 .. MaxSteps - 1 /\ d + 1 \in 0 .. k /\ i + (d + 1) = (i + d) + 1
    BY <1>1
  <2>2. f[(i + d) + 1] = IF f[i + d] \in DOMAIN h THEN h[f[i + d]].next ELSE f[i + d]
    BY <2>1, Steps
  <2>3. f[i + d] = f[i]
    BY <1>3
  <2> QED BY <2>1, <2>2, <2>3
<1>4. 0 .. k \subseteq S
  <2> HIDE DEF S, k
  <2> QED BY <1>1, <1>2, <1>3, IntervalInduction
<1>5. k \in S /\ i + k = MaxSteps
  BY <1>1, <1>4
<1> QED BY <1>5 DEF EndIn

\* The live nodes of a list that ends at NULL are closed but for NULL.
LEMMA ReachedClosed ==
  ASSUME NEW h, NEW p \in Ptr, HeapTyped(h), EndIn(h, p) = NullPtr
  PROVE  /\ ReachIn(h, p) \in SUBSET DOMAIN h
         /\ \A x \in ReachIn(h, p) : h[x].next \in ReachIn(h, p) \cup {NullPtr}
         /\ p \in ReachIn(h, p) \cup {NullPtr}
<1> DEFINE f == StepsOf(h, p)
<1>1. /\ f \in [0 .. MaxSteps -> Ptr] /\ f[0] = p
      /\ \A n \in 0 .. MaxSteps - 1 :
           f[n + 1] = IF f[n] \in DOMAIN h THEN h[f[n]].next ELSE f[n]
  BY Steps
<1>2. \A n \in 0 .. MaxSteps : f[n] \notin DOMAIN h => f[n] = NullPtr
  BY StepsEnd
<1>3. EndIn(h, p) = f[MaxSteps] /\ EndIn(h, p) = NullPtr /\ NullPtr \notin DOMAIN h
  BY SuperblocAssumption DEF EndIn, HeapTyped
<1> HIDE DEF f
<1>4. ReachIn(h, p) = {f[n] : n \in 0 .. MaxSteps} \cap DOMAIN h
  BY <1>1 DEF ReachIn, Range, f
<1>5. p \in ReachIn(h, p) \cup {NullPtr}
  BY <1>1, <1>2, <1>4, StepsNat
<1>6. ASSUME NEW x \in ReachIn(h, p) PROVE h[x].next \in ReachIn(h, p) \cup {NullPtr}
  <2>1. PICK n \in 0 .. MaxSteps : x = f[n] /\ f[n] \in DOMAIN h
    BY <1>4
  <2>2. n # MaxSteps
    BY <1>3, <2>1
  <2>3. n \in 0 .. MaxSteps - 1 /\ n + 1 \in 0 .. MaxSteps
    BY <2>2, StepsNat
  <2>4. f[n + 1] = h[x].next
    BY <1>1, <2>1, <2>3
  <2> QED BY <1>2, <1>4, <2>3, <2>4
<1> QED BY <1>4, <1>5, <1>6

\* Without a cycle, every walk stops within as many steps as there are nodes.
LEMMA AcyclicTerminates ==
  ASSUME NEW h, NEW p \in Ptr, HeapTyped(h), Acyclic(h)
  PROVE  EndIn(h, p) \notin DOMAIN h
<1> SUFFICES ASSUME EndIn(h, p) \in DOMAIN h PROVE FALSE
  OBVIOUS
<1> DEFINE f == StepsOf(h, p)
<1>1. /\ f \in [0 .. MaxSteps -> Ptr]
      /\ \A n \in 0 .. MaxSteps - 1 :
           f[n + 1] = IF f[n] \in DOMAIN h THEN h[f[n]].next ELSE f[n]
  BY Steps
<1>2. \A n \in 0 .. MaxSteps : f[n] \in DOMAIN h
  BY StepsEnd
<1> HIDE DEF f
<1>3. f \in [0 .. MaxSteps -> Nodes]
  BY <1>1, <1>2 DEF HeapTyped
<1>4. PICK i, j \in 0 .. MaxSteps : i # j /\ f[i] = f[j]
  <2>1. IsFiniteSet(0 .. MaxSteps) /\ Cardinality(0 .. MaxSteps) = MaxSteps + 1
    BY StepsNat, FS_Interval
  <2>2. Cardinality(Nodes) < Cardinality(0 .. MaxSteps)
    BY <2>1, StepsNat DEF MaxSteps
  <2> DEFINE A == 0 .. MaxSteps
  <2>3. /\ IsFiniteSet(A) /\ IsFiniteSet(Nodes) /\ Cardinality(Nodes) < Cardinality(A)
        /\ f \in [A -> Nodes]
    BY <1>3, <2>1, <2>2, SuperblocAssumption
  <2> HIDE DEF A
  <2>4. \E i, j \in A : i # j /\ f[i] = f[j]
    BY <2>3, FS_PigeonHole
  <2> QED BY <2>4 DEF A
<1>5. ASSUME NEW a \in 0 .. MaxSteps, NEW b \in 0 .. MaxSteps, a < b, f[a] = f[b] PROVE FALSE
  <2> DEFINE S == {f[n] : n \in a .. b - 1}
  <2>1. f[a] \in S /\ S \in SUBSET DOMAIN h
    BY <1>2, <1>5, StepsNat
  <2>2. ASSUME NEW n \in a .. b - 1 PROVE h[f[n]].next \in S
    <3>1. n \in 0 .. MaxSteps - 1 /\ n \in 0 .. MaxSteps /\ n + 1 \in a .. b
      BY StepsNat
    <3>2. f[n + 1] = h[f[n]].next
      BY <1>1, <1>2, <3>1
    <3>3. n + 1 = b \/ n + 1 \in a .. b - 1
      BY <3>1
    <3> QED BY <1>5, <2>1, <3>2, <3>3
  <2>3. \A x \in S : h[x].next \in S
    BY <2>2
  <2> HIDE DEF S
  <2> QED BY <2>1, <2>3 DEF Acyclic
<1>6. i < j \/ j < i
  BY <1>4, StepsNat
<1> QED BY <1>4, <1>5, <1>6

---------------------------------------------------------------------------
(* The commands keep the invariant. *)

\* The slots of an empty table are on the sector of the table.
LEMMA EmptyOnDisk == StartsOnDisk(EmptyMbr)
<1>1. \A i \in Slots : Start(EmptyMbr, i) = 0
  BY TableAssumption DEF EmptyMbr, NoVolume, Start
<1> QED BY <1>1, SuperblocAssumption DEF StartsOnDisk, Sectors

\* The disk starts with a table and data.
LEMMA ShellInvInit == ShellInit => ShellInv
<1> SUFFICES ASSUME ShellInit PROVE ShellInv
  OBVIOUS
<1>1. TableInv
  BY InitInv DEF ShellInit
<1>2. disk = [a \in Sectors |-> IF a = 0 THEN TableSector ELSE Data]
  BY DEF ShellInit
<1>3. DiskTyped
  BY <1>2 DEF DiskTyped, TableSector, Data, Ptr
<1>4. heap = <<>> /\ superbloc = NullPtr /\ currentVol \in Slots
  BY TableAssumption DEF ShellInit, Slots
<1> QED BY <1>1, <1>3, <1>4, EmptyOnDisk, NoHeap DEF ShellInit, Init, ShellInv, ListInv, SuperTyped

\* What a command that leaves the tables alone has to keep.
LEMMA TablesStay ==
  ASSUME ShellInv, UNCHANGED tableVars, DiskTyped', HeapTyped(heap'), SuperTyped',
         currentVol' \in Slots, Acyclic(heap'), ~running' => superbloc' = NullPtr
  PROVE  ShellInv'
<1>1. TableInv'
  BY NextInv DEF ShellInv
<1>2. StartsOnDisk(mbr') /\ StartsOnDisk(savedMbr')
  BY DEF ShellInv, ListInv, tableVars
<1> QED BY <1>1, <1>2 DEF ShellInv, ListInv

\* What one that leaves the list alone has to keep.
LEMMA ListStays ==
  ASSUME ShellInv, Next, DiskTyped', heap' = heap, superbloc' = superbloc,
         currentVol' = currentVol, StartsOnDisk(mbr'), StartsOnDisk(savedMbr'), running'
  PROVE  ShellInv'
<1>1. TableInv'
  BY NextInv DEF ShellInv
<1>2. HeapTyped(heap') /\ Acyclic(heap') /\ SuperTyped' /\ currentVol' \in Slots
  BY DEF ShellInv, ListInv, SuperTyped
<1> QED BY <1>1, <1>2 DEF ShellInv, ListInv

\* And one that ends the process.
LEMMA EndKeeps ==
  ASSUME ShellInv, Quit \/ Exit, DiskTyped', heap' = <<>>, superbloc' = NullPtr,
         currentVol' = 0
  PROVE  ShellInv'
<1>1. TableInv'
  BY NextInv DEF ShellInv, Next
<1>2. StartsOnDisk(mbr') /\ StartsOnDisk(savedMbr')
  BY DEF ShellInv, ListInv, Quit, Exit
<1>3. currentVol' \in Slots
  BY TableAssumption DEF Slots
<1> QED BY <1>1, <1>2, <1>3, NoHeap DEF ShellInv, ListInv, SuperTyped

\* The end of the process keeps the invariant,
LEMMA ExitKeeps ==
  ASSUME ShellInv, Exit, ProcessEnds
  PROVE  ShellInv'
<1>1. DiskTyped'
  BY DEF ShellInv, ListInv, DiskTyped, ProcessEnds
<1> QED BY <1>1, EndKeeps DEF ProcessEnds

\* a start of vm keeps it,
LEMMA BootKeeps ==
  ASSUME ShellInv, ShellBoot
  PROVE  ShellInv'
<1>1. Next /\ running' /\ mbr' = savedMbr /\ savedMbr' = savedMbr
  BY DEF ShellBoot, Boot, Next
<1>2. UNCHANGED blocVars
  BY DEF ShellBoot
<1>3. DiskTyped'
  BY <1>2 DEF blocVars, ShellInv, ListInv, DiskTyped
<1>4. StartsOnDisk(mbr') /\ StartsOnDisk(savedMbr')
  BY <1>1 DEF ShellInv, ListInv
<1> QED BY <1>1, <1>2, <1>3, <1>4, ListStays DEF blocVars

\* new,
LEMMA NewKeeps ==
  ASSUME ShellInv, NEW nbloc \in BlocCounts, ShellNew(nbloc)
  PROVE  ShellInv'
<1>1. /\ Next /\ running' /\ mbr' = Appended(mbr, nbloc) /\ savedMbr' = savedMbr
      /\ mbr.nb_volume < MaxVolumes
  BY DEF ShellNew, New, Next
<1>2. UNCHANGED blocVars
  BY DEF ShellNew
<1>3. DiskTyped'
  BY <1>2 DEF blocVars, ShellInv, ListInv, DiskTyped
<1>4. StartsOnDisk(mbr')
  <2>1. mbr \in Mbr /\ Ordered(mbr) /\ StartsOnDisk(mbr) /\ nbloc \in Nat
    BY TableAssumption DEF ShellInv, ListInv, TableInv, TypeOK, VolumesOrdered
  <2>2. Linear(NewStart(mbr)) + nbloc + 1 < DiskSize
    BY DEF ShellNew, FitsDisk
  <2> QED BY <1>1, <2>1, <2>2, AppendedOnDisk
<1>5. StartsOnDisk(savedMbr')
  BY <1>1 DEF ShellInv, ListInv
<1> QED BY <1>1, <1>2, <1>3, <1>4, <1>5, ListStays DEF blocVars

\* del,
LEMMA DelKeeps ==
  ASSUME ShellInv, NEW vol \in VolAnswers, ShellDel(vol)
  PROVE  ShellInv'
<1>1. Next /\ running' /\ mbr' = Removed(mbr, vol) /\ savedMbr' = savedMbr
  BY DEF ShellDel, Del, Next
<1>2. UNCHANGED blocVars
  BY DEF ShellDel
<1>3. DiskTyped'
  BY <1>2 DEF blocVars, ShellInv, ListInv, DiskTyped
<1>4. StartsOnDisk(mbr') /\ StartsOnDisk(savedMbr')
  BY <1>1, RemovedOnDisk DEF ShellInv, ListInv, TableInv, TypeOK
<1> QED BY <1>1, <1>2, <1>3, <1>4, ListStays DEF blocVars

\* Sectors may change to what a tool writes: the table, or what it is given.
LEMMA TableSavedTyped ==
  ASSUME ShellInv
  PROVE  TableSaved \in [Sectors -> [kind : {"mbr", "data", "super", "node"}, first : Ptr]]
BY DEF ShellInv, ListInv, DiskTyped, TableSaved, TableSector, Ptr

LEMMA WrittenTyped ==
  ASSUME DiskTyped, NEW S, NEW d \in [kind : {"mbr", "data", "super", "node"}, first : Ptr],
         disk' = Written(S, d)
  PROVE  DiskTyped'
BY DEF DiskTyped, Written

\* save,
LEMMA SaveKeeps ==
  ASSUME ShellInv, ShellSave
  PROVE  ShellInv'
<1>1. Next /\ running' /\ mbr' = mbr /\ savedMbr' = mbr
  BY DEF ShellSave, Save, Next
<1>2. DiskTyped'
  BY TableSavedTyped DEF ShellSave, DiskTyped
<1>3. StartsOnDisk(mbr') /\ StartsOnDisk(savedMbr')
  BY <1>1 DEF ShellInv, ListInv
<1>4. UNCHANGED <<heap, superbloc, currentVol>>
  BY DEF ShellSave
<1> QED BY <1>1, <1>2, <1>3, <1>4, ListStays

\* quit,
LEMMA QuitKeeps ==
  ASSUME ShellInv, ShellQuit
  PROVE  ShellInv'
<1>1. heap' = <<>> /\ superbloc' = NullPtr /\ currentVol' = 0 /\ Quit
  BY DEF ShellQuit
<1>2. DiskTyped'
  <2>1. CASE superbloc # NullPtr
    <3>1. superbloc.first \in Ptr
      BY <2>1 DEF ShellInv, ListInv, SuperTyped
    <3>2. Super(superbloc.first) \in [kind : {"mbr", "data", "super", "node"}, first : Ptr]
      BY <3>1 DEF Super
    <3>3. PICK S : disk' = [a \in Sectors |-> IF a \in S THEN Super(superbloc.first)
                                             ELSE TableSaved[a]]
      BY <2>1 DEF ShellQuit
    <3> QED BY <3>2, <3>3, TableSavedTyped DEF DiskTyped
  <2>2. CASE superbloc = NullPtr
    BY <2>2, TableSavedTyped DEF ShellQuit, DiskTyped
  <2> QED BY <2>1, <2>2
<1> QED BY <1>1, <1>2, EndKeeps

\* write,
LEMMA WriteKeeps ==
  ASSUME ShellInv, NEW vol, NEW bloc, Write(vol, bloc)
  PROVE  ShellInv'
<1>1. UNCHANGED <<tableVars, heap, superbloc, currentVol>>
  BY DEF Write
<1>2. PICK S : disk' = Written(S, Data)
  BY DEF Write
<1>3. DiskTyped'
  <2>1. Data \in [kind : {"mbr", "data", "super", "node"}, first : Ptr]
    BY DEF Data, Ptr
  <2> QED BY <1>2, <2>1, WrittenTyped DEF ShellInv, ListInv
<1> QED BY <1>1, <1>3, TablesStay DEF ShellInv, ListInv, SuperTyped, tableVars

\* format,
LEMMA FormatKeeps ==
  ASSUME ShellInv, NEW vol, Format(vol)
  PROVE  ShellInv'
<1>1. UNCHANGED <<tableVars, heap, superbloc, currentVol>>
  BY DEF Format
<1>2. DiskTyped'
  BY DEF ShellInv, ListInv, DiskTyped, Format, Data, Ptr
<1> QED BY <1>1, <1>2, TablesStay DEF ShellInv, ListInv, SuperTyped, tableVars

\* The nodes init_volume makes, and the sectors it writes.
LEMMA InitVolumeKeeps ==
  ASSUME ShellInv, NEW vol \in Slots, InitVolume(vol)
  PROVE  HeapTyped(heap') /\ Acyclic(heap') /\ DiskTyped' /\ SuperTyped'
<1> DEFINE size == mbr.volumes[vol].nbBlocs
           bs   == ListedBlocs(size)
<1>1. PICK place \in Injection(bs, Nodes \ DOMAIN heap), junk \in {NullPtr, WildPtr} :
        /\ heap' = Malloc(FreshList(place, bs))
        /\ superbloc' = [first |-> place[1], home |-> Address(vol, 0)]
        /\ \E count \in [{0} \cup bs -> 1 .. MaxSector] :
              disk' = ListWritten(vol, bs, count, junk)
  BY DEF InitVolume
<1>2. mbr \in Mbr /\ StartsOnDisk(mbr) /\ size \in Nat
  BY DEF ShellInv, ListInv, TableInv, TypeOK, Mbr, Volume
<1> HIDE DEF size
<1> DEFINE f == FreshList(place, bs)
<1>3. /\ DOMAIN f = Range(place) /\ Range(place) \subseteq Nodes \ DOMAIN heap
      /\ place[1] \in Nodes
  BY <1>2, FreshNodes
<1>4. /\ HeapTyped(f) /\ Acyclic(f)
      /\ \A n \in DOMAIN f : f[n].next \in DOMAIN f \cup {NullPtr}
  BY <1>2, FreshHeap
<1>5. heap' = Grown(heap, f)
  BY <1>1 DEF Malloc, Grown
<1>6. DOMAIN f \cap DOMAIN heap = {} /\ HeapTyped(heap) /\ Acyclic(heap)
  BY <1>3 DEF ShellInv, ListInv
<1> HIDE DEF f, bs
<1>7. HeapTyped(heap')
  BY <1>4, <1>5, <1>6, GrownAt
<1>8. Acyclic(heap')
  BY <1>4, <1>5, <1>6, GrownApart
<1>9. DiskTyped'
  <2>1. /\ Super(junk) \in [kind : {"mbr", "data", "super", "node"}, first : Ptr]
        /\ ListNode(junk) \in [kind : {"mbr", "data", "super", "node"}, first : Ptr]
    BY DEF Super, ListNode, Ptr
  <2>2. DiskTyped
    BY DEF ShellInv, ListInv
  <2>3. PICK count : disk' = ListWritten(vol, bs, count, junk)
    BY <1>1
  <2> QED BY <2>1, <2>2, <2>3 DEF ListWritten, DiskTyped
<1>10. SuperTyped'
  <2>1. Address(vol, 0) \in Sectors
    BY <1>2, SuperAddress
  <2> QED BY <1>1, <1>3, <2>1 DEF SuperTyped, Ptr
<1> QED BY <1>7, <1>8, <1>9, <1>10

\* load_vol,
LEMMA LoadKeeps ==
  ASSUME ShellInv, NEW vol \in Slots, LoadVol(vol)
  PROVE  ShellInv'
<1>1. UNCHANGED tableVars /\ running /\ LoadSuper(vol) /\ currentVol' = vol
  BY DEF LoadVol, LoadSuper
<1>2. running'
  BY <1>1 DEF tableVars
<1>3. CASE HasMagic(disk[Address(vol, 0)])
  <2>1. /\ superbloc' = [first |-> disk[Address(vol, 0)].first, home |-> Address(vol, 0)]
        /\ UNCHANGED <<disk, heap>>
    BY <1>1, <1>3 DEF LoadSuper
  <2>2. Address(vol, 0) \in Sectors
    BY SuperAddress DEF ShellInv, ListInv, TableInv, TypeOK
  <2>3. SuperTyped'
    BY <2>1, <2>2 DEF ShellInv, ListInv, DiskTyped, SuperTyped
  <2> QED BY <1>1, <1>2, <2>1, <2>3, TablesStay DEF ShellInv, ListInv, DiskTyped
<1>4. CASE ~HasMagic(disk[Address(vol, 0)])
  <2>1. InitVolume(vol)
    BY <1>1, <1>4 DEF LoadSuper
  <2> QED BY <1>1, <1>2, <2>1, InitVolumeKeeps, TablesStay
<1> QED BY <1>3, <1>4

\* the mbr tool,
LEMMA MakeTableKeeps ==
  ASSUME ShellInv, ShellMakeTable
  PROVE  ShellInv'
<1>1. /\ Next /\ ~running' /\ ~running /\ mbr' = mbr /\ savedMbr' = EmptyMbr
      /\ UNCHANGED <<heap, superbloc, currentVol>>
  BY DEF ShellMakeTable, MakeTable, Next
<1>2. DiskTyped'
  BY TableSavedTyped DEF ShellMakeTable, DiskTyped
<1>3. TableInv'
  BY <1>1, NextInv DEF ShellInv
<1>4. StartsOnDisk(mbr') /\ StartsOnDisk(savedMbr')
  BY <1>1, EmptyOnDisk DEF ShellInv, ListInv
<1> QED BY <1>1, <1>2, <1>3, <1>4 DEF ShellInv, ListInv, SuperTyped

\* save_vol,
LEMMA SaveVolKeeps ==
  ASSUME ShellInv, SaveVol
  PROVE  ShellInv'
<1>1. CASE running /\ SaveSuper /\ UNCHANGED tableVars
  <2>1. superbloc # NullPtr /\ superbloc.first \in Ptr
    BY <1>1 DEF SaveSuper, ShellInv, ListInv, SuperTyped
  <2>2. DiskTyped'
    <3>1. PICK S : disk' = Written(S, Super(superbloc.first))
      BY <1>1 DEF SaveSuper
    <3>2. Super(superbloc.first) \in [kind : {"mbr", "data", "super", "node"}, first : Ptr]
      BY <2>1 DEF Super
    <3> QED BY <3>1, <3>2, WrittenTyped DEF ShellInv, ListInv
  <2>3. superbloc' = NullPtr /\ UNCHANGED <<heap, currentVol>>
    BY <1>1 DEF SaveSuper
  <2> QED BY <1>1, <2>2, <2>3, TablesStay DEF ShellInv, ListInv, SuperTyped
<1>2. CASE Faults("save_vol", None, None)
  BY <1>2, ExitKeeps DEF Faults
<1> QED BY <1>1, <1>2 DEF SaveVol

\* a command that prints,
LEMMA NothingKeeps ==
  ASSUME ShellInv, UNCHANGED <<tableVars, blocVars>>
  PROVE  ShellInv'
BY TablesStay DEF blocVars, tableVars, ShellInv, ListInv, DiskTyped, SuperTyped

\* list_vol,
LEMMA ListVolKeeps ==
  ASSUME ShellInv, ListVol
  PROVE  ShellInv'
BY ExitKeeps, NothingKeeps DEF ListVol, Faults

\* new_vol,
LEMMA NewVolKeeps ==
  ASSUME ShellInv, NewVol
  PROVE  ShellInv'
<1>1. CASE running /\ NewBloc /\ UNCHANGED tableVars
  <2>1. /\ superbloc # NullPtr /\ superbloc.first \in DOMAIN heap
        /\ superbloc' = [superbloc EXCEPT !.first = heap[superbloc.first].next]
        /\ heap' = Restrict(heap, DOMAIN heap \ {superbloc.first})
        /\ UNCHANGED <<disk, currentVol>>
    BY <1>1 DEF NewBloc
  <2>2. HeapTyped(heap') /\ Acyclic(heap')
    BY <2>1, FreeHeap DEF ShellInv, ListInv
  <2>3. heap[superbloc.first].next \in Ptr
    BY <2>1 DEF ShellInv, ListInv, HeapTyped
  <2>4. SuperTyped'
    BY <2>1, <2>3 DEF ShellInv, ListInv, SuperTyped
  <2>5. DiskTyped' /\ currentVol' \in Slots
    BY <2>1 DEF ShellInv, ListInv, DiskTyped
  <2> QED BY <1>1, <2>2, <2>4, <2>5, TablesStay DEF tableVars
<1>2. CASE UNCHANGED <<tableVars, blocVars>>
  BY <1>2, NothingKeeps
<1>3. CASE Faults("new_vol", currentVol, None)
  BY <1>3, ExitKeeps DEF Faults
<1> QED BY <1>1, <1>2, <1>3 DEF NewVol

\* and del_vol.
LEMMA DelVolKeeps ==
  ASSUME ShellInv, NEW bloc \in Nat, DelVol(bloc)
  PROVE  ShellInv'
<1>1. CASE running /\ FreeBloc(bloc) /\ UNCHANGED tableVars
  <2>1. superbloc # NullPtr /\ ~WalkFaults(superbloc.first) /\ UNCHANGED <<disk, currentVol>>
    BY <1>1 DEF FreeBloc
  <2>2. PICK n \in Nodes \ DOMAIN heap :
          /\ heap' = Malloc([x \in {n} |-> [pos |-> bloc, next |-> superbloc.first]])
          /\ superbloc' = [superbloc EXCEPT !.first = n]
    BY <1>1 DEF FreeBloc
  <2> DEFINE f == [x \in {n} |-> [pos |-> bloc, next |-> superbloc.first]]
             R == Reached(superbloc.first)
  <2>3. /\ superbloc.first \in Ptr /\ HeapTyped(heap) /\ Acyclic(heap)
        /\ superbloc \in [first : Ptr, home : Sectors]
    BY <2>1 DEF ShellInv, ListInv, SuperTyped
  <2>4. /\ R \in SUBSET DOMAIN heap
        /\ \A x \in R : heap[x].next \in R \cup {NullPtr}
        /\ superbloc.first \in R \cup {NullPtr}
    BY <2>1, <2>3, WalksOfState, ReachedClosed DEF WalkFaults
  <2>5. DOMAIN f = {n} /\ f[n].next = superbloc.first /\ HeapTyped(f)
    BY <2>3 DEF HeapTyped
  <2>6. heap' = Grown(heap, f)
    BY <2>2 DEF Malloc, Grown
  <2> HIDE DEF f, R
  <2>7. HeapTyped(heap')
    <3>1. DOMAIN f \cap DOMAIN heap = {}
      BY <2>5
    <3> QED BY <2>3, <2>5, <2>6, <3>1, GrownAt
  <2>8. Acyclic(heap')
    <3>1. f[n].next \in R \cup {NullPtr}
      BY <2>4, <2>5
    <3> QED BY <2>3, <2>4, <2>5, <2>6, <3>1, GrownInFront
  <2>9. SuperTyped'
    BY <2>2, <2>3 DEF SuperTyped, Ptr
  <2>10. DiskTyped' /\ currentVol' \in Slots
    BY <2>1 DEF ShellInv, ListInv, DiskTyped
  <2> QED BY <1>1, <2>7, <2>8, <2>9, <2>10, TablesStay DEF tableVars
<1>2. CASE UNCHANGED <<tableVars, blocVars>>
  BY <1>2, NothingKeeps
<1>3. CASE Faults("del_vol", currentVol, bloc)
  BY <1>3, ExitKeeps DEF Faults
<1> QED BY <1>1, <1>2, <1>3 DEF DelVol

\* So does every command.
LEMMA ShellInvNext == ShellInv /\ [ShellNext]_shellVars => ShellInv'
<1> SUFFICES ASSUME ShellInv, [ShellNext]_shellVars PROVE ShellInv'
  OBVIOUS
<1>1. CASE ShellBoot
  BY <1>1, BootKeeps
<1>2. CASE \E nbloc \in BlocCounts : ShellNew(nbloc)
  BY <1>2, NewKeeps
<1>3. CASE \E vol \in VolAnswers : ShellDel(vol)
  BY <1>3, DelKeeps
<1>4. CASE ShellSave
  BY <1>4, SaveKeeps
<1>5. CASE ShellQuit
  BY <1>5, QuitKeeps
<1>6. CASE ShellExit
  BY <1>6, ExitKeeps DEF ShellExit
<1>7. CASE \E vol \in Slots : LoadVol(vol)
  BY <1>7, LoadKeeps
<1>8. CASE \E vol \in Slots : \E bloc \in BlocAnswers : Write(vol, bloc)
  BY <1>8, WriteKeeps
<1>9. CASE \E vol \in Slots : Format(vol)
  BY <1>9, FormatKeeps
<1>10. CASE SaveVol
  BY <1>10, SaveVolKeeps
<1>11. CASE ListVol
  BY <1>11, ListVolKeeps
<1>12. CASE NewVol
  BY <1>12, NewVolKeeps
<1>13. CASE \E bloc \in BlocAnswers : DelVol(bloc)
  BY <1>13, DelVolKeeps, ShellAssumption
<1>14. CASE ShellMakeTable
  BY <1>14, MakeTableKeeps
<1>15. CASE UNCHANGED shellVars
  BY <1>15, NothingKeeps DEF shellVars, tableVars, blocVars
<1> QED BY <1>1, <1>2, <1>3, <1>4, <1>5, <1>6, <1>7, <1>8, <1>9, <1>10, <1>11, <1>12,
           <1>13, <1>14, <1>15 DEF ShellNext, Commands, OnVolume

\* The invariant holds whatever is typed.
LEMMA ShellInvariant == ShellSpec => []ShellInv
BY ShellInvInit, ShellInvNext, PTL DEF ShellSpec

\* It contains the type of the state.
LEMMA ShellInvTyped == ShellInv => ShellTypeOK
BY DEF ShellInv, ListInv, TableInv, DiskTyped, SuperTyped, HeapTyped, ShellTypeOK

\* The heap holds list nodes, the superblock and the sectors hold addresses and
\* the tables are well formed, whichever slots the operator names.
THEOREM ShellTyped == ShellSpec => []ShellTypeOK
BY ShellInvariant, ShellInvTyped, PTL

\* The free lists never close on themselves: from the loaded superblock, and from
\* whatever address the disk holds, the loops of free_bloc and list_vol stop.
THEOREM ListsEnd == ShellSpec => []WalksTerminate
<1>1. ShellInv => WalksTerminate
  <2> SUFFICES ASSUME ShellInv, NEW p \in Pointers PROVE Terminates(p)
    BY DEF WalksTerminate
  <2>1. p \in Ptr
    BY DEF Pointers, ShellInv, ListInv, DiskTyped, SuperTyped
  <2> QED BY <2>1, WalksOfState, AcyclicTerminates DEF ShellInv, ListInv, Terminates
<1> QED BY <1>1, ShellInvariant, PTL

---------------------------------------------------------------------------
(* The sector of the table.  A loaded superblock goes to the slot it was     *)
(* loaded from, whatever del made of that slot since: no slot a volume was   *)
(* ever in starts on the sector of the table again.                          *)

LoadedBehind == superbloc # NullPtr => Start(mbr, currentVol) >= 1

NamedInv == ShellInv /\ LoadedBehind

\* A step of NamedSpec is one of ShellSpec.
LEMMA NamedIsShell ==
  ASSUME ShellInv, [NamedNext]_shellVars
  PROVE  [ShellNext]_shellVars
<1>1. Present(mbr) \subseteq Slots
  BY StartType DEF ShellInv, TableInv, TypeOK
<1> QED BY <1>1 DEF NamedNext, ShellNext, Commands, OnVolume

\* The sectors of a volume of the table lie behind the one of the table.
LEMMA BehindTable ==
  ASSUME ShellInv, NEW vol \in Present(mbr), NEW bloc \in Nat
  PROVE  Start(mbr, vol) >= 1 /\ Address(vol, bloc) \in Nat \ {0}
<1>1. vol \in Slots /\ mbr \in Mbr /\ Start(mbr, vol) \in Nat /\ Start(mbr, vol) >= 1
  BY StartType DEF ShellInv, TableInv, TypeOK, VolumesOrdered, Ordered
<1>2. Address(vol, bloc) = Start(mbr, vol) + bloc
  BY <1>1, AddressOf
<1> QED BY <1>1, <1>2

\* A slot del moves another volume into is still behind the table.
LEMMA RemovedBehind ==
  ASSUME ShellInv, NEW vol, NEW i \in Slots, Start(mbr, i) >= 1
  PROVE  Start(Removed(mbr, vol), i) >= 1
<1>1. CASE i >= vol /\ i + 1 < mbr.nb_volume
  <2>1. i + 1 \in Present(mbr)
    BY <1>1, TableAssumption DEF ShellInv, TableInv, TypeOK, Mbr, Slots, Present
  <2>2. Start(Removed(mbr, vol), i) = Start(mbr, i + 1)
    BY <1>1 DEF Removed, Start
  <2> QED BY <2>1, <2>2, BehindTable
<1>2. CASE ~(i >= vol /\ i + 1 < mbr.nb_volume)
  <2>1. Start(Removed(mbr, vol), i) = Start(mbr, i)
    BY <1>2 DEF Removed, Start
  <2> QED BY <2>1
<1> QED BY <1>1, <1>2

\* new leaves the volumes that were there behind the table.
LEMMA AppendedBehind ==
  ASSUME ShellInv, NEW nbloc \in BlocCounts, ShellNew(nbloc), NEW i \in Slots, Start(mbr, i) >= 1
  PROVE  Start(mbr', i) >= 1
<1>1. mbr \in Mbr /\ Ordered(mbr)
  BY DEF ShellInv, TableInv, TypeOK, VolumesOrdered
<1>2. mbr' = Appended(mbr, nbloc) /\ mbr.nb_volume \in Slots /\ mbr.volumes \in [Slots -> Volume]
  BY <1>1, TableAssumption DEF ShellNew, New, Mbr, Slots
<1>3. CASE i = mbr.nb_volume
  <2>1. Start(mbr', i) = Linear(NewStart(mbr))
    BY <1>2, <1>3 DEF Appended, Start, Linear
  <2> QED BY <1>1, <2>1, NewStartBehind
<1>4. CASE i # mbr.nb_volume
  <2>1. Start(mbr', i) = Start(mbr, i)
    BY <1>2, <1>4 DEF Appended, Start
  <2> QED BY <2>1
<1> QED BY <1>3, <1>4

\* No slot is loaded at first.
LEMMA NamedInvInit == ShellInit => NamedInv
BY ShellInvInit DEF ShellInit, NamedInv, LoadedBehind

\* A command that leaves the table alone and loads nothing.
LEMMA BehindStays ==
  ASSUME NamedInv, mbr' = mbr, currentVol' = currentVol,
         superbloc' # NullPtr => superbloc # NullPtr
  PROVE  LoadedBehind'
BY DEF NamedInv, LoadedBehind

\* Slots move and appear behind a loaded superblock, and stay behind the table.
LEMMA BehindMoves ==
  ASSUME NamedInv, UNCHANGED blocVars,
         \A i \in Slots : Start(mbr, i) >= 1 => Start(mbr', i) >= 1
  PROVE  LoadedBehind'
BY DEF NamedInv, LoadedBehind, ShellInv, ListInv, blocVars

\* Every command that names a volume of the table keeps the loaded one behind it.
LEMMA NamedInvNext == NamedInv /\ [NamedNext]_shellVars => NamedInv'
<1> SUFFICES ASSUME NamedInv, [NamedNext]_shellVars PROVE LoadedBehind'
  BY NamedIsShell, ShellInvNext DEF NamedInv
<1>1. CASE ShellBoot
  BY <1>1 DEF ShellBoot, Boot, blocVars, NamedInv, LoadedBehind, ShellInv, ListInv
<1>2. CASE \E nbloc \in BlocCounts : ShellNew(nbloc)
  BY <1>2, AppendedBehind, BehindMoves DEF ShellNew, NamedInv
<1>3. CASE \E vol \in VolAnswers : ShellDel(vol)
  BY <1>3, RemovedBehind, BehindMoves DEF ShellDel, Del, NamedInv
<1>4. CASE ShellSave
  BY <1>4, BehindStays DEF ShellSave, Save
<1>5. CASE ShellQuit
  BY <1>5 DEF ShellQuit, LoadedBehind
<1>6. CASE ShellExit
  BY <1>6 DEF ShellExit, ProcessEnds, LoadedBehind
<1>7. CASE \E vol \in Present(mbr) : LoadVol(vol)
  <2> SUFFICES ASSUME NEW vol \in Present(mbr), LoadVol(vol) PROVE LoadedBehind'
    BY <1>7
  <2>1. mbr' = mbr /\ currentVol' = vol
    BY DEF LoadVol, LoadSuper, tableVars
  <2>2. Start(mbr, vol) >= 1
    BY BehindTable DEF NamedInv
  <2> QED BY <2>1, <2>2 DEF LoadedBehind
<1>8. CASE \E vol \in Present(mbr) : \E bloc \in BlocAnswers : Write(vol, bloc)
  BY <1>8, BehindStays DEF Write, tableVars
<1>9. CASE \E vol \in Present(mbr) : Format(vol)
  BY <1>9, BehindStays DEF Format, tableVars
<1>10. CASE SaveVol
  BY <1>10 DEF SaveVol, SaveSuper, Faults, ProcessEnds, LoadedBehind
<1>11. CASE ListVol
  BY <1>11, BehindStays DEF ListVol, Faults, ProcessEnds, LoadedBehind, tableVars, blocVars
<1>12. CASE NewVol
  BY <1>12, BehindStays
     DEF NewVol, NewBloc, Faults, ProcessEnds, LoadedBehind, tableVars, blocVars
<1>13. CASE \E bloc \in BlocAnswers : DelVol(bloc)
  BY <1>13, BehindStays
     DEF DelVol, FreeBloc, Faults, ProcessEnds, LoadedBehind, tableVars, blocVars
<1>14. CASE ShellMakeTable
  BY <1>14, BehindStays DEF ShellMakeTable, MakeTable
<1>15. CASE UNCHANGED shellVars
  BY <1>15, BehindStays DEF shellVars
<1> QED BY <1>1, <1>2, <1>3, <1>4, <1>5, <1>6, <1>7, <1>8, <1>9, <1>10, <1>11, <1>12,
           <1>13, <1>14, <1>15 DEF NamedNext, Commands, OnVolume

LEMMA NamedInvariant == NamedSpec => []NamedInv
BY NamedInvInit, NamedInvNext, PTL DEF NamedSpec

TableLost == disk[0] = TableSector /\ disk'[0] # TableSector

\* Some sector a command names is one whose transfer comes to the table.
Reaching(cmd, vol, bloc) ==
  \E a \in NamedSectors(cmd, vol, bloc) : a < MaxSector /\ MaxSector < 2 * a

\* load_vol loses the table in a transfer only,
LEMMA LoadLoses ==
  ASSUME NamedInv, NEW vol \in Present(mbr), LoadVol(vol), TableLost
  PROVE  Reaching("load_vol", vol, None)
<1> DEFINE bs == ListedBlocs(mbr.volumes[vol].nbBlocs)
<1>1. InitVolume(vol)
  BY DEF LoadVol, LoadSuper, TableLost
<1>2. PICK junk \in {NullPtr, WildPtr}, count \in [{0} \cup bs -> 1 .. MaxSector] :
        /\ \A b \in {0} \cup bs : count[b] \in Counts(Address(vol, b))
        /\ disk' = ListWritten(vol, bs, count, junk)
  BY <1>1 DEF InitVolume
<1>3. bs \subseteq Nat
  BY DEF ListedBlocs
<1>4. 0 \in Sectors
  BY SuperblocAssumption DEF Sectors
<1> HIDE DEF bs
<1>5. PICK b \in {0} \cup bs : 0 \in SectorsFrom(Address(vol, b), count[b])
  BY <1>2, <1>4 DEF TableLost, ListWritten
<1>6. Address(vol, b) \in Nat \ {0}
  BY <1>3, BehindTable DEF NamedInv
<1>7. Address(vol, b) < MaxSector /\ MaxSector < 2 * Address(vol, b)
  BY <1>2, <1>5, <1>6, ReachesTable
<1>8. Address(vol, b) \in NamedSectors("load_vol", vol, None)
  BY DEF NamedSectors, bs
<1> QED BY <1>7, <1>8 DEF Reaching

\* so does write,
LEMMA WriteLoses ==
  ASSUME NamedInv, NEW vol \in Present(mbr), NEW bloc \in Nat, Write(vol, bloc), TableLost
  PROVE  Reaching("write", vol, bloc)
<1>1. PICK n \in Counts(Address(vol, bloc)) :
        disk' = Written(SectorsFrom(Address(vol, bloc), n), Data)
  BY DEF Write
<1>2. 0 \in SectorsFrom(Address(vol, bloc), n)
  BY <1>1, SuperblocAssumption DEF Written, Sectors, TableLost
<1>3. Address(vol, bloc) \in Nat \ {0}
  BY BehindTable DEF NamedInv
<1> QED BY <1>2, <1>3, ReachesTable DEF Reaching, NamedSectors

\* The loaded superblock lies behind the table.
LEMMA SuperBehind ==
  ASSUME NamedInv, superbloc # NullPtr
  PROVE  Address(currentVol, 0) \in Nat \ {0}
<1>1. Address(currentVol, 0) = Start(mbr, currentVol) /\ Start(mbr, currentVol) >= 1
  BY SuperAddress DEF NamedInv, LoadedBehind, ShellInv, ListInv, TableInv, TypeOK
<1>2. Start(mbr, currentVol) \in Nat
  BY StartNat DEF NamedInv, ShellInv, ListInv, TableInv, TypeOK
<1> QED BY <1>1, <1>2

\* save_vol and quit.
LEMMA SaveLoses ==
  ASSUME NamedInv, superbloc # NullPtr, NEW n \in Counts(Address(currentVol, 0)),
         0 \in SectorsFrom(Address(currentVol, 0), n), NEW cmd \in {"save_vol", "quit"}
  PROVE  Reaching(cmd, None, None)
<1>1. Address(currentVol, 0) \in NamedSectors(cmd, None, None)
  BY DEF NamedSectors
<1> QED BY <1>1, SuperBehind, ReachesTable DEF Reaching

\* format reaches the sectors of its volume only.
LEMMA FormatKeepsTable ==
  ASSUME NamedInv, NEW vol \in Present(mbr), Format(vol)
  PROVE  disk'[0] = disk[0]
<1>1. mbr.volumes[vol].nbBlocs \in Nat
  BY StartType DEF NamedInv, ShellInv, TableInv, TypeOK
<1>2. \A b \in Blocs(mbr, vol) : b \in Nat
  BY <1>1 DEF Blocs
<1>3. \A b \in Blocs(mbr, vol) : Linear(CytToSect(mbr, vol, b)) # 0
  BY <1>2, BehindTable DEF NamedInv, Address
<1>4. 0 \notin VolumeSectors(mbr, vol)
  BY <1>3 DEF VolumeSectors
<1>5. disk' = [a \in Sectors |-> IF a \in VolumeSectors(mbr, vol) THEN Data ELSE disk[a]]
  BY DEF Format
<1> QED BY <1>4, <1>5, SuperblocAssumption DEF Sectors

\* save_mbr writes the table.
LEMMA TableIsSaved ==
  ASSUME ShellInv
  PROVE  TableSaved[0] = TableSector /\ 0 \in Sectors
BY SuperblocAssumption DEF TableSaved, ShellInv, ListInv, DiskTyped, Sectors

\* As long as the commands name volumes of the table none of them takes the sector
\* of the table for one of its own, whatever del and new made of the slots since a
\* superblock was loaded: the table is lost only behind a write to the upper half
\* of its cylinder.
THEOREM TableLostBySpill == NamedSpec => TableLostToSpillsOnly
<1> DEFINE Only == TableLost => Reaching(reply'.cmd, reply'.vol, reply'.bloc)
<1>1. NamedInv /\ [NamedNext]_shellVars => [Only]_shellVars
  <2> SUFFICES ASSUME NamedInv, NamedNext, TableLost
               PROVE  Reaching(reply'.cmd, reply'.vol, reply'.bloc)
    OBVIOUS
  <2>1. disk' # disk
    BY DEF TableLost
  <2>2. 0 \in Sectors /\ TableSaved[0] = TableSector
    BY TableIsSaved DEF NamedInv
  <2>3. CASE \E vol \in Present(mbr) : LoadVol(vol)
    <3> SUFFICES ASSUME NEW vol \in Present(mbr), LoadVol(vol)
                 PROVE  Reaching(reply'.cmd, reply'.vol, reply'.bloc)
      BY <2>3
    <3>1. reply' = [cmd |-> "load_vol", vol |-> vol, bloc |-> None, res |-> "done"]
      BY DEF LoadVol, Says
    <3> QED BY <3>1, LoadLoses
  <2>4. CASE \E vol \in Present(mbr) : \E bloc \in BlocAnswers : Write(vol, bloc)
    <3> SUFFICES ASSUME NEW vol \in Present(mbr), NEW bloc \in BlocAnswers, Write(vol, bloc)
                 PROVE  Reaching(reply'.cmd, reply'.vol, reply'.bloc)
      BY <2>4
    <3>1. reply' = [cmd |-> "write", vol |-> vol, bloc |-> bloc, res |-> "done"]
      BY DEF Write, Says
    <3> QED BY <3>1, WriteLoses, ShellAssumption
  <2>5. CASE SaveVol
    <3>1. SaveSuper /\ Says("save_vol", None, None, "done")
      BY <2>1, <2>5 DEF SaveVol, Faults, ProcessEnds
    <3>2. superbloc # NullPtr
      BY <3>1 DEF SaveSuper
    <3>3. PICK n \in Counts(Address(currentVol, 0)) :
            disk' = Written(SectorsFrom(Address(currentVol, 0), n), Super(superbloc.first))
      BY <3>1 DEF SaveSuper
    <3>4. 0 \in SectorsFrom(Address(currentVol, 0), n)
      BY <2>2, <3>3 DEF Written, TableLost
    <3>5. Reaching("save_vol", None, None)
      BY <3>2, <3>4, SaveLoses
    <3> QED BY <3>1, <3>5 DEF Says
  <2>6. CASE ShellQuit
    <3>1. superbloc # NullPtr
      BY <2>2, <2>6 DEF ShellQuit, TableLost
    <3>2. PICK n \in Counts(Address(currentVol, 0)) :
            disk' = [a \in Sectors |-> IF a \in SectorsFrom(Address(currentVol, 0), n)
                                      THEN Super(superbloc.first) ELSE TableSaved[a]]
      BY <2>6, <3>1 DEF ShellQuit
    <3>3. 0 \in SectorsFrom(Address(currentVol, 0), n)
      BY <2>2, <3>2 DEF TableLost
    <3>4. Reaching("quit", None, None)
      BY <3>1, <3>3, SaveLoses
    <3>5. Says("quit", None, None, "done")
      BY <2>6, <3>1 DEF ShellQuit
    <3> QED BY <3>4, <3>5 DEF Says
  <2>7. ~(\E vol \in Present(mbr) : Format(vol))
    BY FormatKeepsTable DEF TableLost
  <2>8. ~ShellSave /\ ~ShellMakeTable
    BY <2>2 DEF ShellSave, ShellMakeTable, TableLost
  <2>9. ~ShellBoot /\ ~ShellExit /\ ~ListVol
        /\ ~(\E nbloc \in BlocCounts : ShellNew(nbloc))
        /\ ~(\E vol \in VolAnswers : ShellDel(vol))
    BY <2>1 DEF ShellBoot, ShellNew, ShellDel, ShellExit, ListVol, Faults, ProcessEnds, blocVars
  <2>10. ~NewVol
    BY <2>1 DEF NewVol, NewBloc, Faults, ProcessEnds, blocVars
  <2>11. ~(\E bloc \in BlocAnswers : DelVol(bloc))
    BY <2>1 DEF DelVol, FreeBloc, Faults, ProcessEnds, blocVars
  <2> QED BY <2>3, <2>4, <2>5, <2>6, <2>7, <2>8, <2>9, <2>10, <2>11
         DEF NamedNext, Commands, OnVolume
<1>2. NamedSpec => [][NamedNext]_shellVars
  BY PTL DEF NamedSpec
<1>3. NamedSpec => [][Only]_shellVars
  BY <1>1, <1>2, NamedInvariant, PTL
<1> QED BY <1>3 DEF TableLostToSpillsOnly, TableLost, Reaching
=============================================================================
