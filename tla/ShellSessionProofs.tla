------------------------- MODULE ShellSessionProofs -------------------------
(* Proofs about sessions of the shell, for every geometry, heap and operator *)
(* that keeps to the rules of ShellSession: the lists of the volumes are     *)
(* sound, no command faults, and together they are the BlocAllocator.        *)
EXTENDS ShellSession, ShellProofs

---------------------------------------------------------------------------
(* Lists, as sets of nodes. *)

\* R holds the nodes of the list from p: it ends at NULL, no two of its nodes
\* have the same next one, none comes before p, and there are no others in it.
IsList(h, p, R) ==
  /\ R \subseteq DOMAIN h
  /\ p \in R \cup {NullPtr}
  /\ \A x \in R : h[x].next \in R \cup {NullPtr} /\ h[x].next # p
  /\ \A x, y \in R : h[x].next = h[y].next => x = y
  /\ \A T \in SUBSET R :
        p \in T \cup {NullPtr} /\ (\A x \in T : h[x].next \in T \cup {NullPtr}) => T = R

\* The blocks of a list.
PosIn(h, p) == {h[n].pos : n \in ReachIn(h, p)}

\* The lists from first, one for each slot, share the heap: every node is in one
\* of them, and holds a block of that volume that no other of its nodes holds.
\* A slot without a list of its own has size 0 and the list from NULL.
Sound(h, first, size) ==
  /\ \A v \in Slots :
       /\ IsList(h, first[v], ReachIn(h, first[v]))
       /\ \A n \in ReachIn(h, first[v]) : h[n].pos \in 1 .. size[v] - 1
       /\ \A n, k \in ReachIn(h, first[v]) : h[n].pos = h[k].pos => n = k
  /\ \A v, w \in Slots : v # w => ReachIn(h, first[v]) \cap ReachIn(h, first[w]) = {}
  /\ \A n \in DOMAIN h : \E v \in Slots : n \in ReachIn(h, first[v])

Firsts == [v \in Slots |-> IF Managed(v) THEN FirstOf(v) ELSE NullPtr]

Sizes == [v \in Slots |-> IF Managed(v) THEN mbr.volumes[v].nbBlocs ELSE 0]

ListsSound == Sound(heap, Firsts, Sizes)

---------------------------------------------------------------------------
(* The invariant. *)

\* Sizes of a table are answers of the operator.
Sized(m) == \A v \in Present(m) : m.volumes[v].nbBlocs \in BlocCounts

\* Block 0 of a volume in use is no list node: with MAGIC it is a superblock.
NoNodeFirst == \A v \in InUse : disk[Address(v, 0)].kind # "node"

\* The loaded volume is in use, and has a superblock.
LoadedManaged == superbloc # NullPtr => currentVol \in InUse /\ IsSuper(currentVol)

SessionInv ==
  /\ NamedInv
  /\ Sized(mbr) /\ Sized(savedMbr)
  /\ running => NoNodeFirst /\ LoadedManaged
  /\ ~running => heap = <<>>
  /\ ListsSound

---------------------------------------------------------------------------
(* What happens to a list. *)

\* The nodes of a list are those a walk from its first address reaches, and the
\* walk ends at NULL.
LEMMA ListReached ==
  ASSUME NEW h, HeapTyped(h), Acyclic(h), NEW p \in Ptr, NEW R, IsList(h, p, R)
  PROVE  ReachIn(h, p) = R /\ EndIn(h, p) = NullPtr
<1> DEFINE f == StepsOf(h, p)
<1>1. /\ f \in [0 .. MaxSteps -> Ptr] /\ f[0] = p
      /\ \A n \in 0 .. MaxSteps - 1 :
           f[n + 1] = IF f[n] \in DOMAIN h THEN h[f[n]].next ELSE f[n]
  BY Steps
<1>2. EndIn(h, p) = f[MaxSteps] /\ EndIn(h, p) \notin DOMAIN h
  BY AcyclicTerminates DEF EndIn
<1>3. NullPtr \notin DOMAIN h
  BY SuperblocAssumption DEF HeapTyped
<1>4. ReachIn(h, p) = {f[n] : n \in 0 .. MaxSteps} \cap DOMAIN h
  BY <1>1 DEF ReachIn, Range
<1> HIDE DEF f
<1>5. 0 .. MaxSteps \subseteq {n \in 0 .. MaxSteps : f[n] \in R \cup {NullPtr}}
  <2> DEFINE S == {n \in 0 .. MaxSteps : f[n] \in R \cup {NullPtr}}
  <2>1. 0 \in S
    BY <1>1, StepsNat DEF IsList
  <2>2. ASSUME NEW n \in 0 .. MaxSteps - 1, n \in S PROVE n + 1 \in S
    <3>1. n + 1 \in 0 .. MaxSteps
      BY StepsNat
    <3>2. f[n] \in R \/ f[n] = NullPtr
      BY <2>2
    <3>3. f[n + 1] \in R \cup {NullPtr}
      BY <1>1, <1>3, <3>2 DEF IsList
    <3> QED BY <3>1, <3>3
  <2> HIDE DEF S
  <2> QED BY <2>1, <2>2, StepsNat, IntervalInduction DEF S
<1>6. EndIn(h, p) = NullPtr
  <2>1. MaxSteps \in 0 .. MaxSteps
    BY StepsNat
  <2> QED BY <1>2, <1>5, <2>1 DEF IsList
<1>7. ReachIn(h, p) \in SUBSET R
  BY <1>3, <1>4, <1>5
<1>8. /\ \A x \in ReachIn(h, p) : h[x].next \in ReachIn(h, p) \cup {NullPtr}
      /\ p \in ReachIn(h, p) \cup {NullPtr}
  BY <1>6, ReachedClosed
<1>9. ReachIn(h, p) = R
  BY <1>7, <1>8 DEF IsList
<1> QED BY <1>6, <1>9

\* The list from NULL has no nodes.
LEMMA EmptyList ==
  ASSUME NEW h
  PROVE  IsList(h, NullPtr, {})
BY DEF IsList

\* A list whose nodes stay as they are is the same list.
LEMMA ListKept ==
  ASSUME NEW h, NEW g, NEW p, NEW R, IsList(h, p, R), R \subseteq DOMAIN g,
         \A x \in R : g[x] = h[x]
  PROVE  IsList(g, p, R)
<1>1. \A x \in R : g[x].next = h[x].next
  OBVIOUS
<1> QED BY <1>1 DEF IsList

\* Behind its first node a list is a list.
LEMMA ListPopped ==
  ASSUME NEW h, NEW p, NEW R, IsList(h, p, R), p \in R
  PROVE  IsList(h, h[p].next, R \ {p})
<1> DEFINE q == h[p].next
           S == R \ {p}
<1>1. \A x \in S : h[x].next \in S \cup {NullPtr} /\ h[x].next # q
  BY DEF IsList
<1>2. q \in S \cup {NullPtr}
  BY DEF IsList
<1>3. ASSUME NEW T \in SUBSET S, q \in T \cup {NullPtr},
             \A x \in T : h[x].next \in T \cup {NullPtr}
      PROVE  T = S
  <2> DEFINE U == T \cup {p}
  <2>1. U \in SUBSET R /\ p \in U /\ \A x \in U : h[x].next \in U \cup {NullPtr}
    BY <1>3
  <2>2. U = R
    <3> HIDE DEF U
    <3> QED BY <2>1 DEF IsList
  <2> QED BY <2>2
<1>4. S \subseteq DOMAIN h /\ \A x, y \in S : h[x].next = h[y].next => x = y
  BY DEF IsList
<1> HIDE DEF q, S
<1>5. IsList(h, q, S)
  BY <1>1, <1>2, <1>3, <1>4 DEF IsList
<1> QED BY <1>5 DEF q, S

\* With a node in front a list is a list.
LEMMA ListPushed ==
  ASSUME NEW h, NEW p, NEW R, IsList(h, p, R), NEW q \in DOMAIN h \ R, h[q].next = p,
         NullPtr \notin DOMAIN h
  PROVE  IsList(h, q, R \cup {q})
<1> DEFINE S == R \cup {q}
<1>1. \A x \in S : h[x].next \in S \cup {NullPtr} /\ h[x].next # q
  BY DEF IsList
<1>2. \A x, y \in S : h[x].next = h[y].next => x = y
  BY DEF IsList
<1>3. ASSUME NEW T \in SUBSET S, q \in T \cup {NullPtr},
             \A x \in T : h[x].next \in T \cup {NullPtr}
      PROVE  T = S
  <2> DEFINE U == T \ {q}
  <2>1. q \in T /\ q # p
    BY <1>3 DEF IsList
  <2>2. U \in SUBSET R /\ p \in U \cup {NullPtr} /\ \A x \in U : h[x].next \in U \cup {NullPtr}
    BY <1>1, <1>3, <2>1
  <2>3. U = R
    <3> HIDE DEF U
    <3> QED BY <2>2 DEF IsList
  <2> QED BY <2>1, <2>3
<1>4. S \subseteq DOMAIN h
  BY DEF IsList
<1> HIDE DEF S
<1>5. q \in S
  BY DEF S
<1>6. IsList(h, q, S)
  BY <1>1, <1>2, <1>3, <1>4, <1>5 DEF IsList
<1> QED BY <1>6 DEF S

\* init_volume makes one list of its nodes, from the node of block 1.
LEMMA FreshIsList ==
  ASSUME NEW size \in Nat, NEW D, NEW place \in Injection(ListedBlocs(size), Nodes \ D)
  PROVE  IsList(FreshList(place, ListedBlocs(size)), place[1], Range(place))
<1> DEFINE bs == ListedBlocs(size)
           f  == FreshList(place, bs)
           last == IF size > 2 THEN size - 1 ELSE 1
<1>1. place \in [bs -> Nodes \ D] /\ \A a, b \in bs : place[a] = place[b] => a = b
  BY DEF Injection, IsInjective
<1>2. last \in Nat \ {0} /\ bs = 1 .. last
  BY DEF ListedBlocs
<1>3. /\ DOMAIN f = Range(place)
      /\ Range(place) \subseteq Nodes \ D
      /\ \A b \in bs : f[place[b]] = [pos |-> b, next |-> IF b + 1 \in bs THEN place[b + 1]
                                                        ELSE NullPtr]
  BY FreshNodes
<1> HIDE DEF bs, f, last
<1>4. Range(place) = {place[b] : b \in bs}
  BY <1>1 DEF Range
<1>5. ASSUME NEW b \in bs
      PROVE  f[place[b]].next = IF b + 1 \in bs THEN place[b + 1] ELSE NullPtr
  <2>1. f[place[b]] = [pos |-> b, next |-> IF b + 1 \in bs THEN place[b + 1] ELSE NullPtr]
    BY <1>3
  <2> QED BY <2>1
<1>6. \A b \in bs : place[b] # NullPtr
  BY <1>1, SuperblocAssumption
<1>7. 1 \in bs /\ \A b \in bs : b + 1 # 1
  BY <1>2
<1>8. \A x \in Range(place) : /\ f[x].next \in Range(place) \cup {NullPtr}
                              /\ f[x].next # place[1]
  <2> SUFFICES ASSUME NEW b \in bs
               PROVE  /\ f[place[b]].next \in Range(place) \cup {NullPtr}
                      /\ f[place[b]].next # place[1]
    BY <1>4
  <2> QED BY <1>1, <1>4, <1>5, <1>6, <1>7
<1>9. \A x, y \in Range(place) : f[x].next = f[y].next => x = y
  <2> SUFFICES ASSUME NEW a \in bs, NEW b \in bs, f[place[a]].next = f[place[b]].next
               PROVE  a = b
    BY <1>4
  <2>1. CASE a + 1 \in bs \/ b + 1 \in bs
    <3>1. a + 1 \in bs /\ b + 1 \in bs /\ a + 1 = b + 1
      BY <1>1, <1>5, <1>6, <2>1
    <3> QED BY <1>2, <3>1
  <2>2. CASE a + 1 \notin bs /\ b + 1 \notin bs
    BY <1>2, <2>2
  <2> QED BY <2>1, <2>2
<1>10. ASSUME NEW T \in SUBSET Range(place), place[1] \in T \cup {NullPtr},
              \A x \in T : f[x].next \in T \cup {NullPtr}
       PROVE  T = Range(place)
  <2> DEFINE k == last - 1
             S == {n \in 0 .. k : place[n + 1] \in T}
  <2>1. k \in Nat /\ \A n \in 0 .. k : n + 1 \in bs
    BY <1>2
  <2>2. 0 \in S
    BY <1>6, <1>7, <1>10, <2>1
  <2>3. ASSUME NEW n \in 0 .. k - 1, n \in S PROVE n + 1 \in S
    <3>1. n + 1 \in bs /\ n + 1 \in 0 .. k /\ (n + 1) + 1 \in bs
      BY <2>1
    <3>2. f[place[n + 1]].next = place[(n + 1) + 1] /\ place[(n + 1) + 1] # NullPtr
      BY <1>5, <1>6, <3>1
    <3>3. place[n + 1] \in T
      BY <2>3
    <3> QED BY <1>10, <3>1, <3>2, <3>3
  <2>4. 0 .. k \subseteq S
    <3> HIDE DEF k, S
    <3> QED BY <2>1, <2>2, <2>3, IntervalInduction
  <2>5. ASSUME NEW b \in bs PROVE place[b] \in T
    <3>1. b - 1 \in 0 .. k /\ (b - 1) + 1 = b
      BY <1>2
    <3> QED BY <2>4, <3>1
  <2> QED BY <1>4, <2>5
<1>11. place[1] \in Range(place)
  BY <1>4, <1>7
<1>12. IsList(f, place[1], Range(place))
  BY <1>3, <1>8, <1>9, <1>10, <1>11 DEF IsList
<1> QED BY <1>12 DEF f, bs

---------------------------------------------------------------------------
(* What happens to the lists. *)

\* The heap h becomes g: the list of the nodes old becomes the one of the nodes R,
\* from p, with blocks below k; the others stay as they are.
Becomes(h, old, g, p, R, k) ==
  /\ IsList(g, p, R)
  /\ \A n \in R : g[n].pos \in 1 .. k - 1
  /\ \A n, m \in R : g[n].pos = g[m].pos => n = m
  /\ R \cap DOMAIN h \subseteq old
  /\ DOMAIN g = (DOMAIN h \ old) \cup R
  /\ \A n \in DOMAIN h \ old : g[n] = h[n]

\* The lists are sound, the one of v has the nodes R and the others what they had.
StaysSound(h, first, size, v, g, p, R, k) ==
  /\ Sound(g, [first EXCEPT ![v] = p], [size EXCEPT ![v] = k])
  /\ PosIn(g, p) = {g[n].pos : n \in R}
  /\ \A w \in Slots \ {v} : PosIn(g, first[w]) = PosIn(h, first[w])

\* When one list becomes R and the others stay as they are, the lists stay sound.
LEMMA OneListChanges ==
  ASSUME NEW h, NEW g, HeapTyped(h), HeapTyped(g), Acyclic(g),
         NEW first \in [Slots -> Ptr], NEW size \in [Slots -> Nat], Sound(h, first, size),
         NEW v \in Slots, NEW p \in Ptr, NEW k \in Nat, NEW R,
         Becomes(h, ReachIn(h, first[v]), g, p, R, k)
  PROVE  StaysSound(h, first, size, v, g, p, R, k)
<1> DEFINE f == [first EXCEPT ![v] = p]
           s == [size EXCEPT ![v] = k]
<1>1. /\ \A w \in Slots : f[w] = IF w = v THEN p ELSE first[w]
      /\ \A w \in Slots : s[w] = IF w = v THEN k ELSE size[w]
  OBVIOUS
<1>2. ReachIn(g, p) = R
  BY ListReached DEF Becomes
<1>3. ASSUME NEW w \in Slots \ {v}
      PROVE  /\ ReachIn(g, first[w]) = ReachIn(h, first[w])
             /\ IsList(g, first[w], ReachIn(h, first[w]))
             /\ ReachIn(h, first[w]) \subseteq DOMAIN h \ ReachIn(h, first[v])
  <2>1. /\ IsList(h, first[w], ReachIn(h, first[w])) /\ first[w] \in Ptr
        /\ ReachIn(h, first[w]) \subseteq DOMAIN h \ ReachIn(h, first[v])
    BY DEF Sound, IsList
  <2>2. IsList(g, first[w], ReachIn(h, first[w]))
    <3>1. ReachIn(h, first[w]) \subseteq DOMAIN g
      BY <2>1 DEF Becomes
    <3>2. \A x \in ReachIn(h, first[w]) : g[x] = h[x]
      BY <2>1 DEF Becomes
    <3> QED BY <2>1, <3>1, <3>2, ListKept
  <2> QED BY <2>1, <2>2, ListReached
<1> HIDE DEF f, s
<1>4. ASSUME NEW w \in Slots
      PROVE  /\ IsList(g, f[w], ReachIn(g, f[w]))
             /\ \A n \in ReachIn(g, f[w]) : g[n].pos \in 1 .. s[w] - 1
             /\ \A n, m \in ReachIn(g, f[w]) : g[n].pos = g[m].pos => n = m
  <2>1. CASE w = v
    <3>1. f[w] = p /\ s[w] = k
      BY <1>1, <2>1
    <3> QED BY <1>2, <3>1 DEF Becomes
  <2>2. CASE w # v
    <3>1. f[w] = first[w] /\ s[w] = size[w]
      BY <1>1, <2>2
    <3>2. ReachIn(g, f[w]) = ReachIn(h, first[w]) /\ IsList(g, f[w], ReachIn(g, f[w]))
      BY <1>3, <2>2, <3>1
    <3>3. \A n \in ReachIn(h, first[w]) : g[n] = h[n]
      BY <1>3, <2>2 DEF Becomes
    <3>4. /\ \A n \in ReachIn(h, first[w]) : h[n].pos \in 1 .. size[w] - 1
          /\ \A n, m \in ReachIn(h, first[w]) : h[n].pos = h[m].pos => n = m
      BY DEF Sound
    <3> QED BY <3>1, <3>2, <3>3, <3>4
  <2> QED BY <2>1, <2>2
<1>5. ASSUME NEW w \in Slots, NEW u \in Slots, w # u
      PROVE  ReachIn(g, f[w]) \cap ReachIn(g, f[u]) = {}
  <2>1. ASSUME NEW x \in Slots, x # v PROVE R \cap ReachIn(h, first[x]) = {}
    BY <1>3, <2>1 DEF Becomes
  <2>2. ReachIn(h, first[w]) \cap ReachIn(h, first[u]) = {}
    BY <1>5 DEF Sound
  <2> QED BY <1>1, <1>2, <1>3, <1>5, <2>1, <2>2
<1>6. ASSUME NEW n \in DOMAIN g PROVE \E w \in Slots : n \in ReachIn(g, f[w])
  <2>1. CASE n \in R
    BY <1>1, <1>2, <2>1
  <2>2. CASE n \notin R
    <3>1. n \in DOMAIN h /\ n \notin ReachIn(h, first[v])
      BY <2>2 DEF Becomes
    <3>2. PICK w \in Slots : n \in ReachIn(h, first[w])
      BY <3>1 DEF Sound
    <3>3. w # v
      BY <3>1, <3>2
    <3> QED BY <1>1, <1>3, <3>2, <3>3
  <2> QED BY <2>1, <2>2
<1>7. Sound(g, f, s)
  BY <1>4, <1>5, <1>6 DEF Sound
<1>8. ASSUME NEW w \in Slots \ {v} PROVE PosIn(g, first[w]) = PosIn(h, first[w])
  <2>1. \A n \in ReachIn(h, first[w]) : g[n] = h[n]
    BY <1>3 DEF Becomes
  <2> QED BY <1>3, <2>1 DEF PosIn
<1> QED BY <1>2, <1>7, <1>8 DEF PosIn, f, s, StaysSound

\* The lists are sound, and the one of v, from p, holds the blocks bs; the others
\* hold what they held.
Changed(h, first, size, v, g, p, k, bs) ==
  /\ Sound(g, [first EXCEPT ![v] = p], [size EXCEPT ![v] = k])
  /\ PosIn(g, p) = bs
  /\ \A w \in Slots \ {v} : PosIn(g, first[w]) = PosIn(h, first[w])

\* new_bloc takes the first block of a list away.
LEMMA PopSound ==
  ASSUME NEW h, HeapTyped(h), Acyclic(h), NEW first \in [Slots -> Ptr],
         NEW size \in [Slots -> Nat], Sound(h, first, size),
         NEW v \in Slots, first[v] \in DOMAIN h
  PROVE  /\ h[first[v]].pos \in PosIn(h, first[v])
         /\ h[first[v]].pos \in 1 .. size[v] - 1
         /\ Changed(h, first, size, v, Restrict(h, DOMAIN h \ {first[v]}), h[first[v]].next,
                    size[v], PosIn(h, first[v]) \ {h[first[v]].pos})
<1> DEFINE n == first[v]
           g == Restrict(h, DOMAIN h \ {n})
           q == h[n].next
           L == ReachIn(h, n)
           R == L \ {n}
<1>1. /\ IsList(h, n, L) /\ L \subseteq DOMAIN h
      /\ \A x \in L : h[x].pos \in 1 .. size[v] - 1
      /\ \A x, y \in L : h[x].pos = h[y].pos => x = y
  BY DEF Sound, IsList
<1>2. n \in L
  <2>1. n # NullPtr
    BY SuperblocAssumption DEF HeapTyped
  <2> QED BY <1>1, <2>1 DEF IsList
<1>3. HeapTyped(g) /\ Acyclic(g) /\ q \in Ptr
  BY FreeHeap DEF HeapTyped
<1>4. DOMAIN g = DOMAIN h \ {n} /\ \A x \in DOMAIN g : g[x] = h[x]
  BY DEF Restrict
<1> HIDE DEF g
<1>5. IsList(g, q, R)
  <2>1. IsList(h, q, R)
    <3> HIDE DEF n, L
    <3> QED BY <1>1, <1>2, ListPopped
  <2>2. R \subseteq DOMAIN g /\ \A x \in R : g[x] = h[x]
    BY <1>1, <1>4
  <2> HIDE DEF q, R
  <2> QED BY <2>1, <2>2, ListKept
<1>6. /\ \A x \in R : g[x].pos \in 1 .. size[v] - 1
      /\ \A x, y \in R : g[x].pos = g[y].pos => x = y
      /\ R \cap DOMAIN h \subseteq L
      /\ DOMAIN g = (DOMAIN h \ L) \cup R
      /\ \A x \in DOMAIN h \ L : g[x] = h[x]
  BY <1>1, <1>2, <1>4
<1>7. size[v] \in Nat /\ [size EXCEPT ![v] = size[v]] = size
  OBVIOUS
<1>8. {g[x].pos : x \in R} = {h[x].pos : x \in L} \ {h[n].pos}
  <2>1. \A x \in R : g[x] = h[x]
    BY <1>1, <1>4
  <2> QED BY <1>1, <1>2, <2>1
<1> DEFINE k == size[v]
<1> HIDE DEF R, q, k
<1>9. /\ Sound(g, [first EXCEPT ![v] = q], [size EXCEPT ![v] = k])
      /\ PosIn(g, q) = {g[x].pos : x \in R}
      /\ \A w \in Slots \ {v} : PosIn(g, first[w]) = PosIn(h, first[w])
  <2>1. Becomes(h, ReachIn(h, first[v]), g, q, R, k) /\ k \in Nat
    BY <1>5, <1>6, <1>7 DEF Becomes, k
  <2>2. StaysSound(h, first, size, v, g, q, R, k)
    BY <1>3, <2>1, OneListChanges
  <2> QED BY <2>2 DEF StaysSound
<1>10. h[n].pos \in PosIn(h, n) /\ h[n].pos \in 1 .. size[v] - 1
  BY <1>1, <1>2 DEF PosIn
<1>11. {h[x].pos : x \in L} = PosIn(h, n)
  BY DEF PosIn
<1>12. Changed(h, first, size, v, g, q, k, PosIn(h, n) \ {h[n].pos})
  BY <1>8, <1>9, <1>11 DEF Changed
<1> QED BY <1>10, <1>12 DEF g, q, k

\* A node of its own for block b, in front of the list from p.
NodeFor(n, b, p) == [x \in {n} |-> [pos |-> b, next |-> p]]

\* free_bloc puts a block in front of a list.
LEMMA PushSound ==
  ASSUME NEW h, HeapTyped(h), NEW first \in [Slots -> Ptr],
         NEW size \in [Slots -> Nat], Sound(h, first, size),
         NEW v \in Slots, NEW b \in 1 .. size[v] - 1, b \notin PosIn(h, first[v]),
         NEW n \in Nodes \ DOMAIN h, NEW g, HeapTyped(g), Acyclic(g),
         g = Grown(h, NodeFor(n, b, first[v]))
  PROVE  Changed(h, first, size, v, g, n, size[v], PosIn(h, first[v]) \cup {b})
<1> DEFINE L == ReachIn(h, first[v])
           R == L \cup {n}
<1>1. /\ IsList(h, first[v], L) /\ L \subseteq DOMAIN h
      /\ \A x \in L : h[x].pos \in 1 .. size[v] - 1
      /\ \A x, y \in L : h[x].pos = h[y].pos => x = y
  BY DEF Sound, IsList
<1>2. /\ DOMAIN g = DOMAIN h \cup {n}
      /\ \A x \in DOMAIN h : g[x] = h[x]
      /\ g[n] = [pos |-> b, next |-> first[v]]
  BY DEF Grown, NodeFor
<1>3. n \in Ptr /\ g[n].pos = b /\ g[n].next = first[v]
  BY <1>2 DEF Ptr
<1>4. IsList(g, n, R)
  <2>1. IsList(g, first[v], L)
    <3>1. L \subseteq DOMAIN g /\ \A x \in L : g[x] = h[x]
      BY <1>1, <1>2
    <3> HIDE DEF L
    <3> QED BY <1>1, <3>1, ListKept
  <2>2. n \in DOMAIN g \ L /\ NullPtr \notin DOMAIN g
    BY <1>1, <1>2, SuperblocAssumption DEF HeapTyped
  <2> HIDE DEF L
  <2> QED BY <1>3, <2>1, <2>2, ListPushed
<1>5. \A x \in L : h[x].pos # b /\ g[x] = h[x]
  BY <1>1, <1>2 DEF PosIn
<1>6. /\ \A x \in R : g[x].pos \in 1 .. size[v] - 1
      /\ \A x, y \in R : g[x].pos = g[y].pos => x = y
      /\ R \cap DOMAIN h \subseteq L
      /\ DOMAIN g = (DOMAIN h \ L) \cup R
      /\ \A x \in DOMAIN h \ L : g[x] = h[x]
  BY <1>1, <1>2, <1>3, <1>5
<1>7. size[v] \in Nat /\ [size EXCEPT ![v] = size[v]] = size
  OBVIOUS
<1>8. {g[x].pos : x \in R} = {h[x].pos : x \in L} \cup {b}
  BY <1>3, <1>5
<1> DEFINE k == size[v]
<1> HIDE DEF R, k
<1>9. /\ Sound(g, [first EXCEPT ![v] = n], [size EXCEPT ![v] = k])
      /\ PosIn(g, n) = {g[x].pos : x \in R}
      /\ \A w \in Slots \ {v} : PosIn(g, first[w]) = PosIn(h, first[w])
  <2>1. Becomes(h, ReachIn(h, first[v]), g, n, R, k) /\ k \in Nat
    BY <1>4, <1>6, <1>7 DEF Becomes, k
  <2>2. StaysSound(h, first, size, v, g, n, R, k)
    BY <1>3, <2>1, OneListChanges
  <2> QED BY <2>2 DEF StaysSound
<1>10. {h[x].pos : x \in L} = PosIn(h, first[v])
  BY DEF PosIn
<1> QED BY <1>8, <1>9, <1>10 DEF k, Changed

\* init_volume gives a slot without a list one of all blocks but block 0.
LEMMA FreshSound ==
  ASSUME NEW h, HeapTyped(h), Acyclic(h), NEW first \in [Slots -> Ptr],
         NEW size \in [Slots -> Nat], Sound(h, first, size),
         NEW v \in Slots, first[v] = NullPtr, NEW k \in Nat \ {0, 1},
         NEW place \in Injection(ListedBlocs(k), Nodes \ DOMAIN h), NEW g,
         HeapTyped(g), Acyclic(g), g = Grown(h, FreshList(place, ListedBlocs(k)))
  PROVE  Changed(h, first, size, v, g, place[1], k, 1 .. k - 1)
<1> DEFINE bs == ListedBlocs(k)
           f  == FreshList(place, bs)
           R  == Range(place)
           p  == place[1]
<1>1. bs = 1 .. k - 1
  BY DEF ListedBlocs
<1>2. /\ DOMAIN f = R /\ R \subseteq Nodes \ DOMAIN h
      /\ \A b \in bs : f[place[b]] = [pos |-> b, next |-> IF b + 1 \in bs THEN place[b + 1]
                                                        ELSE NullPtr]
      /\ p \in R /\ p \in Ptr
  BY FreshNodes DEF Ptr
<1>3. R = {place[b] : b \in bs}
  BY DEF Range, Injection
<1>4. IsList(f, p, R)
  BY FreshIsList
<1>5. /\ DOMAIN g = DOMAIN h \cup R
      /\ \A x \in DOMAIN h : g[x] = h[x]
      /\ \A x \in R : g[x] = f[x]
  <2> HIDE DEF f, R, p
  <2>1. g = Grown(h, f)
    BY DEF f
  <2> HIDE DEF bs
  <2> QED BY <1>2, <2>1 DEF Grown
<1>6. ReachIn(h, first[v]) = {}
  BY EmptyList, ListReached
<1> HIDE DEF f, R, p, bs
<1>7. IsList(g, p, R)
  BY <1>4, <1>5, ListKept
<1>8. \A b \in bs : g[place[b]].pos = b
  <2> SUFFICES ASSUME NEW b \in bs PROVE g[place[b]].pos = b
    OBVIOUS
  <2>1. f[place[b]] = [pos |-> b, next |-> IF b + 1 \in bs THEN place[b + 1] ELSE NullPtr]
    BY <1>2
  <2>2. g[place[b]] = f[place[b]]
    BY <1>3, <1>5
  <2> QED BY <2>1, <2>2
<1>9. /\ \A x \in R : g[x].pos \in 1 .. k - 1
      /\ \A x, y \in R : g[x].pos = g[y].pos => x = y
  BY <1>1, <1>3, <1>8
<1>10. {g[x].pos : x \in R} = 1 .. k - 1
  BY <1>1, <1>3, <1>8
<1>11. /\ R \cap DOMAIN h \subseteq ReachIn(h, first[v])
       /\ DOMAIN g = (DOMAIN h \ ReachIn(h, first[v])) \cup R
       /\ \A x \in DOMAIN h \ ReachIn(h, first[v]) : g[x] = h[x]
  BY <1>2, <1>5, <1>6
<1>12. /\ Sound(g, [first EXCEPT ![v] = p], [size EXCEPT ![v] = k])
       /\ PosIn(g, p) = {g[x].pos : x \in R}
       /\ \A w \in Slots \ {v} : PosIn(g, first[w]) = PosIn(h, first[w])
  <2>1. Becomes(h, ReachIn(h, first[v]), g, p, R, k)
    BY <1>7, <1>9, <1>11 DEF Becomes
  <2>2. StaysSound(h, first, size, v, g, p, R, k)
    BY <1>2, <2>1, OneListChanges
  <2> QED BY <2>2 DEF StaysSound
<1> QED BY <1>10, <1>12 DEF p, Changed

\* A new process has no lists.
LEMMA NothingSound ==
  Sound(<<>>, [v \in Slots |-> NullPtr], [v \in Slots |-> 0])
<1>1. HeapTyped(<<>>) /\ Acyclic(<<>>) /\ DOMAIN <<>> = {} /\ NullPtr \in Ptr
  BY NoHeap DEF Ptr
<1> DEFINE e == <<>>
<1> HIDE DEF e
<1>2. IsList(e, NullPtr, {})
  BY EmptyList
<1>3. ReachIn(e, NullPtr) = {}
  BY <1>1, <1>2, ListReached DEF e
<1>4. DOMAIN e = {}
  BY <1>1 DEF e
<1>5. Sound(e, [v \in Slots |-> NullPtr], [v \in Slots |-> 0])
  BY <1>2, <1>3, <1>4 DEF Sound
<1> QED BY <1>5 DEF e

---------------------------------------------------------------------------
(* A session between two commands. *)

\* What the invariants of the shell say of a session.
LEMMA Basics ==
  ASSUME SessionInv
  PROVE  /\ mbr \in Mbr /\ Ordered(mbr) /\ StartsOnDisk(mbr)
         /\ savedMbr \in Mbr /\ StartsOnDisk(savedMbr)
         /\ DiskTyped /\ HeapTyped(heap) /\ Acyclic(heap) /\ SuperTyped
         /\ running \in BOOLEAN /\ currentVol \in Slots
         /\ ~running => superbloc = NullPtr
BY DEF SessionInv, NamedInv, ShellInv, ListInv, TableInv, TypeOK, VolumesOrdered

\* Where the blocks of a volume of the table are.
LEMMA VolumeAt ==
  ASSUME SessionInv, NEW v \in Present(mbr)
  PROVE  /\ v \in Slots /\ Start(mbr, v) \in Nat /\ Start(mbr, v) >= 1
         /\ mbr.volumes[v].nbBlocs \in Nat \ {0, 1}
         /\ mbr.volumes[v].nbBlocs \in BlocCounts
         /\ Address(v, 0) \in Sectors
         /\ \A b \in Nat : Address(v, b) = Start(mbr, v) + b /\ Address(v, b) # 0
         /\ 0 \in Blocs(mbr, v) /\ Blocs(mbr, v) \subseteq Nat
<1>1. mbr \in Mbr /\ Ordered(mbr) /\ StartsOnDisk(mbr)
  BY Basics
<1>2. v \in Slots /\ Start(mbr, v) \in Nat /\ Start(mbr, v) >= 1
  BY <1>1, StartType DEF Ordered
<1>3. mbr.volumes[v].nbBlocs \in BlocCounts
  BY DEF SessionInv, Sized
<1>4. mbr.volumes[v].nbBlocs \in Nat \ {0, 1}
  <2> DEFINE k == mbr.volumes[v].nbBlocs
  <2>1. k \in BlocCounts
    BY <1>3
  <2> HIDE DEF k
  <2>2. k \in Nat /\ k >= 2
    BY <2>1, SessionAssumption, TableAssumption
  <2>3. k \in Nat \ {0, 1}
    BY <2>2
  <2> QED BY <2>3 DEF k
<1>5. \A b \in Nat : Address(v, b) = Start(mbr, v) + b
  BY <1>1, <1>2, AddressOf
<1>6. Address(v, 0) \in Sectors
  BY <1>1, <1>2, SuperAddress
<1>7. 0 \in Blocs(mbr, v) /\ Blocs(mbr, v) \subseteq Nat
  BY <1>4 DEF Blocs
<1> QED BY <1>2, <1>3, <1>4, <1>5, <1>6, <1>7

\* A volume in use is one of the table.
LEMMA InTable == InUse \subseteq Present(mbr)
BY DEF InUse

\* No two of them are in the same sector.
LEMMA OwnAddress ==
  ASSUME SessionInv, NEW v \in Present(mbr), NEW w \in Present(mbr),
         NEW b \in Blocs(mbr, v), NEW c \in Blocs(mbr, w), Address(v, b) = Address(w, c)
  PROVE  v = w /\ b = c
<1>1. /\ Start(mbr, v) + b = Start(mbr, w) + c
      /\ Start(mbr, v) \in Nat /\ Start(mbr, w) \in Nat /\ v \in Int /\ w \in Int
      /\ b \in Nat /\ c \in Nat
  BY VolumeAt DEF Slots
<1>2. b < mbr.volumes[v].nbBlocs /\ c < mbr.volumes[w].nbBlocs
  BY VolumeAt DEF Blocs
<1>3. /\ mbr.volumes[v].nbBlocs \in Nat /\ mbr.volumes[w].nbBlocs \in Nat
      /\ v < w => Start(mbr, v) + mbr.volumes[v].nbBlocs <= Start(mbr, w)
      /\ w < v => Start(mbr, w) + mbr.volumes[w].nbBlocs <= Start(mbr, v)
  BY VolumeAt, Basics DEF Ordered
<1> DEFINE s == Start(mbr, v)
           t == Start(mbr, w)
           k == mbr.volumes[v].nbBlocs
           l == mbr.volumes[w].nbBlocs
<1>4. /\ s \in Nat /\ t \in Nat /\ k \in Nat /\ l \in Nat /\ b \in Nat /\ c \in Nat
      /\ v \in Int /\ w \in Int
      /\ s + b = t + c /\ b < k /\ c < l
      /\ v < w => s + k <= t
      /\ w < v => t + l <= s
      /\ v = w => s = t
  BY <1>1, <1>2, <1>3
<1> HIDE DEF s, t, k, l
<1>5. ~(v < w) /\ ~(w < v)
  BY <1>4
<1>6. v = w
  BY <1>4, <1>5
<1> QED BY <1>4, <1>6

\* The lists start at addresses, and the sizes are numbers.
LEMMA SnapshotTyped ==
  ASSUME SessionInv
  PROVE  Firsts \in [Slots -> Ptr] /\ Sizes \in [Slots -> Nat]
<1>1. ASSUME NEW v \in Slots
      PROVE  /\ (IF Managed(v) THEN FirstOf(v) ELSE NullPtr) \in Ptr
             /\ (IF Managed(v) THEN mbr.volumes[v].nbBlocs ELSE 0) \in Nat
  <2>1. CASE Managed(v)
    <3>1. v \in Present(mbr)
      BY <2>1, InTable DEF Managed
    <3>2. mbr.volumes[v].nbBlocs \in Nat /\ Address(v, 0) \in Sectors
      BY <3>1, VolumeAt
    <3>3. FirstOf(v) \in Ptr
      BY <3>2, Basics DEF FirstOf, DiskTyped, SuperTyped
    <3> QED BY <2>1, <3>2, <3>3
  <2>2. CASE ~Managed(v)
    BY <2>2 DEF Ptr
  <2> QED BY <2>1, <2>2
<1> QED BY <1>1 DEF Firsts, Sizes

\* A volume without a list is not managed.
LEMMA SizeManaged ==
  ASSUME SessionInv, NEW v \in Slots
  PROVE  /\ Managed(v) => Sizes[v] = mbr.volumes[v].nbBlocs /\ Firsts[v] = FirstOf(v)
         /\ ~Managed(v) => /\ Sizes[v] = 0 /\ Firsts[v] = NullPtr
                           /\ ReachIn(heap, Firsts[v]) = {}
<1>1. Firsts[v] = NullPtr => ReachIn(heap, Firsts[v]) = {}
  BY Basics, EmptyList, ListReached DEF Ptr
<1> QED BY <1>1 DEF Firsts, Sizes

\* The list of the loaded volume is the one in memory, and no walk of it faults.
LEMMA LoadedList ==
  ASSUME SessionInv, superbloc # NullPtr
  PROVE  /\ currentVol \in InUse /\ currentVol \in Present(mbr) /\ currentVol \in Slots
         /\ running /\ Managed(currentVol) /\ superbloc \in [first : Ptr, home : Sectors]
         /\ Firsts[currentVol] = superbloc.first
         /\ Sizes[currentVol] = mbr.volumes[currentVol].nbBlocs
         /\ ~WalkFaults(superbloc.first)
         /\ superbloc.first \in DOMAIN heap \cup {NullPtr}
         /\ Positions(superbloc.first) = PosIn(heap, superbloc.first)
<1>1. running /\ superbloc \in [first : Ptr, home : Sectors] /\ currentVol \in Slots
  BY Basics DEF SuperTyped
<1>2. currentVol \in InUse /\ currentVol \in Present(mbr) /\ Managed(currentVol)
  BY <1>1, InTable DEF SessionInv, LoadedManaged, Managed
<1>3. /\ Firsts[currentVol] = superbloc.first
      /\ Sizes[currentVol] = mbr.volumes[currentVol].nbBlocs
  BY <1>1, <1>2 DEF Firsts, Sizes, FirstOf
<1>4. IsList(heap, superbloc.first, ReachIn(heap, superbloc.first)) /\ superbloc.first \in Ptr
  BY <1>1, <1>3 DEF SessionInv, ListsSound, Sound
<1>5. EndIn(heap, superbloc.first) = NullPtr
  BY <1>4, Basics, ListReached
<1>6. ~WalkFaults(superbloc.first)
  BY <1>5, WalksOfState DEF WalkFaults
<1>7. superbloc.first \in DOMAIN heap \cup {NullPtr}
  BY <1>4 DEF IsList
<1>8. Positions(superbloc.first) = PosIn(heap, superbloc.first)
  BY WalksOfState DEF Positions, PosIn
<1> QED BY <1>1, <1>2, <1>3, <1>6, <1>7, <1>8

---------------------------------------------------------------------------
(* What a command does to the lists. *)

\* It leaves them as they are, ...
Quiet == heap' = heap /\ Firsts' = Firsts /\ Sizes' = Sizes

\* or the volume v, that had none, gets the list of a new superblock, ...
Formats(v) ==
  /\ ~Managed(v)
  /\ \E place \in Injection(ListedBlocs(mbr.volumes[v].nbBlocs), Nodes \ DOMAIN heap) :
        /\ heap' = Grown(heap, FreshList(place, ListedBlocs(mbr.volumes[v].nbBlocs)))
        /\ Firsts' = [Firsts EXCEPT ![v] = place[1]]
        /\ Sizes' = [Sizes EXCEPT ![v] = mbr.volumes[v].nbBlocs]

\* or the list of v loses its first block, ...
Grants(v) ==
  /\ Firsts[v] \in DOMAIN heap
  /\ heap' = Restrict(heap, DOMAIN heap \ {Firsts[v]})
  /\ Firsts' = [Firsts EXCEPT ![v] = heap[Firsts[v]].next]
  /\ Sizes' = Sizes

\* or it gets back the block b, ...
Releases(v, b) ==
  /\ b \in 1 .. Sizes[v] - 1 /\ b \notin PosIn(heap, Firsts[v])
  /\ \E n \in Nodes \ DOMAIN heap :
        /\ heap' = Grown(heap, NodeFor(n, b, Firsts[v]))
        /\ Firsts' = [Firsts EXCEPT ![v] = n]
        /\ Sizes' = Sizes

\* or the process ends, and the lists with it.
Forgets ==
  /\ heap' = <<>>
  /\ Firsts' = [v \in Slots |-> NullPtr]
  /\ Sizes' = [v \in Slots |-> 0]

\* The list of v becomes one with the blocks bs below k.
OneChanges(v, k, bs) ==
  \E p \in Ptr :
     /\ Changed(heap, Firsts, Sizes, v, heap', p, k, bs)
     /\ Firsts' = [Firsts EXCEPT ![v] = p]
     /\ Sizes' = [Sizes EXCEPT ![v] = k]

\* What the lemmas about lists ask for.
LEMMA Snapshot ==
  ASSUME SessionInv
  PROVE  /\ HeapTyped(heap) /\ Acyclic(heap) /\ Firsts \in [Slots -> Ptr]
         /\ Sizes \in [Slots -> Nat] /\ Sound(heap, Firsts, Sizes)
         /\ \A v \in Slots : Sizes[v] \in Nat /\ [Sizes EXCEPT ![v] = Sizes[v]] = Sizes
BY Basics, SnapshotTyped DEF SessionInv, ListsSound

\* A new superblock has all blocks of its volume but block 0 in its list.
LEMMA FormatsOne ==
  ASSUME SessionInv, HeapTyped(heap'), Acyclic(heap'), NEW v \in Present(mbr), Formats(v)
  PROVE  OneChanges(v, mbr.volumes[v].nbBlocs, 1 .. mbr.volumes[v].nbBlocs - 1)
<1> DEFINE k == mbr.volumes[v].nbBlocs
<1>1. PICK place \in Injection(ListedBlocs(k), Nodes \ DOMAIN heap) :
        /\ heap' = Grown(heap, FreshList(place, ListedBlocs(k)))
        /\ Firsts' = [Firsts EXCEPT ![v] = place[1]]
        /\ Sizes' = [Sizes EXCEPT ![v] = k]
  BY DEF Formats
<1>2. v \in Slots /\ Firsts[v] = NullPtr /\ k \in Nat \ {0, 1}
  BY VolumeAt, SizeManaged DEF Formats
<1> HIDE DEF k
<1>3. place[1] \in Ptr
  BY <1>2, FreshNodes DEF Ptr
<1>4. PICK g : g = heap'
  OBVIOUS
<1>5. HeapTyped(g) /\ Acyclic(g) /\ g = Grown(heap, FreshList(place, ListedBlocs(k)))
  BY <1>1, <1>4
<1>6. Changed(heap, Firsts, Sizes, v, g, place[1], k, 1 .. k - 1)
  BY Snapshot, <1>2, <1>5, FreshSound
<1>7. OneChanges(v, k, 1 .. k - 1)
  BY <1>1, <1>3, <1>4, <1>6 DEF OneChanges
<1> QED BY <1>7 DEF k

\* new_bloc takes the block of the first node.
LEMMA GrantsOne ==
  ASSUME SessionInv, NEW v \in Slots, Grants(v)
  PROVE  /\ heap[Firsts[v]].pos \in PosIn(heap, Firsts[v])
         /\ heap[Firsts[v]].pos \in 1 .. Sizes[v] - 1
         /\ OneChanges(v, Sizes[v], PosIn(heap, Firsts[v]) \ {heap[Firsts[v]].pos})
<1>1. /\ Firsts[v] \in DOMAIN heap /\ heap' = Restrict(heap, DOMAIN heap \ {Firsts[v]})
      /\ Firsts' = [Firsts EXCEPT ![v] = heap[Firsts[v]].next] /\ Sizes' = Sizes
  BY DEF Grants
<1>2. heap[Firsts[v]].next \in Ptr
  BY <1>1, Snapshot DEF HeapTyped
<1>3. /\ heap[Firsts[v]].pos \in PosIn(heap, Firsts[v])
      /\ heap[Firsts[v]].pos \in 1 .. Sizes[v] - 1
      /\ Changed(heap, Firsts, Sizes, v, Restrict(heap, DOMAIN heap \ {Firsts[v]}),
                 heap[Firsts[v]].next, Sizes[v],
                 PosIn(heap, Firsts[v]) \ {heap[Firsts[v]].pos})
  BY <1>1, Snapshot, PopSound
<1>4. Sizes' = [Sizes EXCEPT ![v] = Sizes[v]]
  BY <1>1, Snapshot
<1> QED BY <1>1, <1>2, <1>3, <1>4 DEF OneChanges

\* free_bloc puts the block in front.
LEMMA ReleasesOne ==
  ASSUME SessionInv, HeapTyped(heap'), Acyclic(heap'), NEW v \in Slots, NEW b \in Nat,
         Releases(v, b)
  PROVE  /\ b \in 1 .. Sizes[v] - 1 /\ b \notin PosIn(heap, Firsts[v])
         /\ OneChanges(v, Sizes[v], PosIn(heap, Firsts[v]) \cup {b})
<1>1. PICK n \in Nodes \ DOMAIN heap :
        /\ heap' = Grown(heap, NodeFor(n, b, Firsts[v]))
        /\ Firsts' = [Firsts EXCEPT ![v] = n]
        /\ Sizes' = Sizes
  BY DEF Releases
<1>2. b \in 1 .. Sizes[v] - 1 /\ b \notin PosIn(heap, Firsts[v]) /\ n \in Ptr
  BY DEF Releases, Ptr
<1>3. PICK g : g = heap'
  OBVIOUS
<1>4. HeapTyped(g) /\ Acyclic(g) /\ g = Grown(heap, NodeFor(n, b, Firsts[v]))
  BY <1>1, <1>3
<1>5. Changed(heap, Firsts, Sizes, v, g, n, Sizes[v], PosIn(heap, Firsts[v]) \cup {b})
  BY Snapshot, <1>2, <1>4, PushSound
<1>6. Sizes' = [Sizes EXCEPT ![v] = Sizes[v]]
  BY <1>1, Snapshot
<1> QED BY <1>1, <1>2, <1>3, <1>5, <1>6 DEF OneChanges

\* Whatever it is, the lists stay sound.
LEMMA ListsStaySound ==
  ASSUME SessionInv, HeapTyped(heap'), Acyclic(heap'),
         \/ Quiet
         \/ \E v \in Present(mbr) : Formats(v)
         \/ \E v \in Slots : Grants(v)
         \/ \E v \in Slots : \E b \in Nat : Releases(v, b)
         \/ Forgets
  PROVE  ListsSound'
<1>1. CASE Quiet
  BY <1>1, Snapshot DEF Quiet, ListsSound
<1>2. ASSUME NEW v, NEW k, NEW bs, OneChanges(v, k, bs) PROVE ListsSound'
  BY <1>2 DEF OneChanges, Changed, ListsSound
<1>3. CASE \E v \in Present(mbr) : Formats(v)
  BY <1>2, <1>3, FormatsOne
<1>4. CASE \E v \in Slots : Grants(v)
  BY <1>2, <1>4, GrantsOne
<1>5. CASE \E v \in Slots : \E b \in Nat : Releases(v, b)
  BY <1>2, <1>5, ReleasesOne
<1>6. CASE Forgets
  BY <1>6, NothingSound DEF Forgets, ListsSound
<1> QED BY <1>1, <1>3, <1>4, <1>5, <1>6

---------------------------------------------------------------------------
(* What a command of a session does to the sectors. *)

\* Managed and FirstOf after a step that keeps the table.
LEMMA SameTable ==
  ASSUME SessionInv, running', mbr' = mbr
  PROVE  /\ InUse' = InUse
         /\ \A v \in Slots :
              /\ Managed(v)' <=> v \in InUse /\ disk'[Address(v, 0)].kind = "super"
              /\ FirstOf(v)' = IF superbloc' # NullPtr /\ currentVol' = v
                               THEN superbloc'.first ELSE disk'[Address(v, 0)].first
         /\ Firsts' = [v \in Slots |-> IF Managed(v)' THEN FirstOf(v)' ELSE NullPtr]
         /\ Sizes' = [v \in Slots |-> IF Managed(v)' THEN mbr.volumes[v].nbBlocs ELSE 0]
<1>1. ASSUME NEW v \in Slots PROVE Address(v, 0)' = Address(v, 0)
  BY DEF Address
<1>2. InUse' = InUse
  BY DEF InUse
<1> QED BY <1>1, <1>2 DEF Managed, IsSuper, FirstOf, Firsts, Sizes

\* The sectors of superblocks that are written hold superblocks.
LEMMA SuperblocksKept ==
  ASSUME SessionInv, running, running', mbr' = mbr,
         \A v \in InUse : \/ disk'[Address(v, 0)] = disk[Address(v, 0)]
                          \/ disk'[Address(v, 0)].kind = "super",
         superbloc' # NullPtr =>
            currentVol' \in InUse /\ disk'[Address(currentVol', 0)].kind = "super"
  PROVE  (NoNodeFirst /\ LoadedManaged)'
<1>1. \A v \in InUse : disk[Address(v, 0)].kind # "node"
  BY DEF SessionInv, NoNodeFirst
<1>2. \A v \in InUse : disk'[Address(v, 0)].kind # "node"
  BY <1>1
<1>3. InUse' = InUse /\ \A v : Address(v, 0)' = Address(v, 0)
  BY DEF InUse, Address
<1>4. NoNodeFirst'
  BY <1>2, <1>3 DEF NoNodeFirst, Address
<1>5. LoadedManaged'
  BY <1>3 DEF LoadedManaged, IsSuper, Address
<1> QED BY <1>4, <1>5

\* Without a change of block 0 of any volume in use or of the loaded superblock,
\* the lists are found where they were.
LEMMA SuperblocksStay ==
  ASSUME SessionInv, running, running', mbr' = mbr, heap' = heap,
         \A v \in InUse : disk'[Address(v, 0)] = disk[Address(v, 0)],
         superbloc' = superbloc, currentVol' = currentVol
  PROVE  Quiet
<1>1. \A v \in Slots : Managed(v)' <=> Managed(v)
  BY SameTable DEF Managed, IsSuper
<1>2. \A v \in Slots : Managed(v) => FirstOf(v)' = FirstOf(v)
  BY SameTable DEF Managed, FirstOf
<1>3. /\ Firsts' = [v \in Slots |-> IF Managed(v)' THEN FirstOf(v)' ELSE NullPtr]
      /\ Sizes' = [v \in Slots |-> IF Managed(v)' THEN mbr.volumes[v].nbBlocs ELSE 0]
  BY SameTable
<1>4. Firsts' = Firsts
  BY <1>1, <1>2, <1>3 DEF Firsts
<1>5. Sizes' = Sizes
  BY <1>1, <1>3 DEF Sizes
<1> QED BY <1>4, <1>5 DEF Quiet

\* The transfer of a clear write reaches no other superblock.
LEMMA ClearWrite ==
  ASSUME SessionInv, NEW v \in Present(mbr), NEW b \in Blocs(mbr, v), Clear(v, b),
         NEW n \in Counts(Address(v, b)), NEW w \in InUse,
         Address(w, 0) \in SectorsFrom(Address(v, b), n)
  PROVE  w = v /\ b = 0
<1>1. Address(w, 0) = Address(v, b)
  BY DEF Clear
<1>2. w \in Present(mbr) /\ 0 \in Blocs(mbr, w)
  BY InTable, VolumeAt
<1> QED BY <1>1, <1>2, OwnAddress

---------------------------------------------------------------------------
(* The commands of a session. *)

\* What every command keeps, besides the lists.
Kept ==
  /\ Sized(mbr') /\ Sized(savedMbr')
  /\ running' => (NoNodeFirst /\ LoadedManaged)'
  /\ ~running' => heap' = <<>>

\* Without a process no slot has a list.
LEMMA NoLists ==
  /\ ~running => /\ Firsts = [v \in Slots |-> NullPtr]
                 /\ Sizes = [v \in Slots |-> 0]
  /\ ~running' => /\ Firsts' = [v \in Slots |-> NullPtr]
                  /\ Sizes' = [v \in Slots |-> 0]
<1>1. ~running => \A v \in Slots : ~Managed(v)
  BY DEF Managed
<1>2. ~running' => \A v \in Slots : ~Managed(v)'
  BY DEF Managed
<1> QED BY <1>1, <1>2 DEF Firsts, Sizes

\* vm starts on a disk without superblocks.
LEMMA BootQuiet ==
  ASSUME SessionInv, ShellBoot, \A a \in Sectors : ~HasMagic(disk[a])
  PROVE  Kept /\ Quiet
<1>1. /\ ~running /\ running' /\ mbr' = savedMbr /\ savedMbr' = savedMbr
      /\ UNCHANGED <<disk, heap, superbloc, currentVol>> /\ superbloc = NullPtr
  BY Basics DEF ShellBoot, Boot, blocVars
<1>2. ASSUME NEW v \in Present(mbr')
      PROVE  v \in Slots /\ Linear(CytToSect(mbr', v, 0)) \in Sectors
  <2>1. mbr' \in Mbr /\ StartsOnDisk(mbr')
    BY <1>1, Basics
  <2>2. v \in Slots
    BY <2>1, StartType
  <2>3. Linear(CytToSect(mbr', v, 0)) = Start(mbr', v) + 0 /\ Start(mbr', v) \in Nat
    BY <2>1, <2>2, CytToSectLinear, StartNat
  <2>4. Start(mbr', v) \in Sectors
    BY <2>1, <2>2 DEF StartsOnDisk
  <2> QED BY <2>2, <2>3, <2>4
<1>3. NoNodeFirst' /\ LoadedManaged'
  BY <1>1, <1>2 DEF NoNodeFirst, LoadedManaged, InUse, Address, HasMagic
<1>4. \A v \in Slots : ~Managed(v)'
  BY <1>1, <1>2 DEF Managed, InUse, IsSuper, Address, HasMagic
<1>5. Quiet
  BY <1>1, <1>4, NoLists DEF Quiet, Firsts, Sizes
<1>6. Kept
  BY <1>1, <1>3 DEF Kept, SessionInv
<1> QED BY <1>5, <1>6

\* A new volume to be used has no superblock yet, and the others stay where they are.
LEMMA NewQuiet ==
  ASSUME SessionInv, NEW nbloc \in BlocCounts, ShellNew(nbloc),
         mbr.nb_volume \in Used => ~HasMagic(disk[Linear(NewStart(mbr))])
  PROVE  Kept /\ Quiet
<1>0. PICK new : new = mbr.nb_volume
  OBVIOUS
<1>1. /\ running /\ running' /\ mbr' = Appended(mbr, nbloc) /\ savedMbr' = savedMbr
      /\ new < MaxVolumes /\ UNCHANGED <<disk, heap, superbloc, currentVol>>
      /\ Linear(NewStart(mbr)) + nbloc + 1 < DiskSize
  BY <1>0 DEF ShellNew, New, blocVars, FitsDisk
<1>2. /\ mbr.volumes \in [Slots -> Volume] /\ new \in Slots /\ nbloc \in Nat
      /\ Present(mbr') = Present(mbr) \cup {new} /\ new \notin Present(mbr)
      /\ mbr' \in Mbr
  <2>1. mbr \in Mbr /\ Ordered(mbr) /\ nbloc \in Nat
    BY Basics, TableAssumption
  <2>2. mbr' \in Mbr
    BY <1>0, <1>1, <2>1, AppendedType
  <2>3. Present(mbr') = Present(mbr) \cup {new} /\ new \notin Present(mbr)
    BY <1>0, <1>1, <2>1 DEF Appended, Present, Mbr
  <2> QED BY <1>1, <2>1, <2>2, <2>3, <1>0, TableAssumption DEF Mbr, Slots
<1>3. \A v \in Slots \ {new} : mbr'.volumes[v] = mbr.volumes[v]
  BY <1>0, <1>1, <1>2 DEF Appended
<1>4. ASSUME NEW v \in Present(mbr)
      PROVE  /\ v \in Slots \ {new}
             /\ \A b : Address(v, b)' = Address(v, b)
  <2>1. v \in Slots \ {new} /\ mbr'.volumes[v] = mbr.volumes[v]
    BY <1>2, <1>3, VolumeAt
  <2>2. \A b : CytToSect(mbr', v, b) = CytToSect(mbr, v, b)
    BY <2>1 DEF CytToSect
  <2> QED BY <2>1, <2>2 DEF Address
<1>5. new \in Used => disk[Address(new, 0)'].kind \notin {"super", "node"}
  <2> DEFINE at == Linear(NewStart(mbr))
  <2>1. at \in Nat
    BY Basics, NewStartBehind
  <2>2. Address(new, 0)' = at
    <3>1. Address(new, 0)' = Start(mbr', new) + 0 /\ Start(mbr', new) \in Nat
      BY <1>2, CytToSectLinear, StartNat DEF Address
    <3>2. Start(mbr', new) = at
      BY <1>0, <1>1, <1>2 DEF Appended, Start, Linear
    <3> QED BY <3>1, <3>2
  <2> HIDE DEF at
  <2>3. new \in Used => ~HasMagic(disk[at])
    BY <1>0 DEF at
  <2> QED BY <2>2, <2>3 DEF HasMagic
<1>6. Sized(mbr') /\ Sized(savedMbr')
  <2>1. mbr'.volumes[new].nbBlocs = nbloc
    BY <1>0, <1>1, <1>2 DEF Appended
  <2> QED BY <1>1, <1>2, <1>3, <1>4, <2>1 DEF SessionInv, Sized
<1>7. InUse \subseteq Present(mbr) /\ InUse' \subseteq InUse \cup ({new} \cap Used)
      /\ InUse \subseteq InUse'
  BY <1>2 DEF InUse
<1>8. NoNodeFirst' /\ LoadedManaged'
  <2>1. /\ \A v \in InUse : disk[Address(v, 0)].kind # "node"
        /\ superbloc # NullPtr => currentVol \in InUse /\ IsSuper(currentVol)
    BY <1>1 DEF SessionInv, NoNodeFirst, LoadedManaged
  <2>2. \A v \in InUse' : disk'[Address(v, 0)'].kind # "node"
    BY <1>1, <1>4, <1>5, <1>7, <2>1
  <2>3. NoNodeFirst'
    BY <2>2 DEF NoNodeFirst, Address
  <2>4. LoadedManaged'
    BY <1>1, <1>4, <1>7, <2>1 DEF LoadedManaged, IsSuper
  <2> QED BY <2>3, <2>4
<1>9. \A v \in Slots : Managed(v)' <=> Managed(v)
  BY <1>1, <1>4, <1>5, <1>7 DEF Managed, IsSuper
<1>10. \A v \in Slots : Managed(v) => /\ FirstOf(v)' = FirstOf(v)
                                      /\ mbr'.volumes[v] = mbr.volumes[v]
  BY <1>1, <1>3, <1>4, <1>7 DEF Managed, FirstOf
<1>11. Firsts' = Firsts /\ Sizes' = Sizes
  BY <1>9, <1>10 DEF Firsts, Sizes
<1> QED BY <1>1, <1>6, <1>8, <1>11 DEF Kept, Quiet

\* Commands that touch neither a superblock nor a list.
LEMMA SaveQuiet ==
  ASSUME SessionInv, ShellSave
  PROVE  Kept /\ Quiet
<1>1. /\ running /\ running' /\ mbr' = mbr /\ savedMbr' = mbr /\ disk' = TableSaved
      /\ UNCHANGED <<heap, superbloc, currentVol>>
  BY DEF ShellSave, Save
<1>2. \A v \in InUse : disk'[Address(v, 0)] = disk[Address(v, 0)]
  <2> SUFFICES ASSUME NEW v \in InUse PROVE disk'[Address(v, 0)] = disk[Address(v, 0)]
    OBVIOUS
  <2>1. Address(v, 0) \in Sectors /\ Address(v, 0) # 0
    BY InTable, VolumeAt
  <2> QED BY <1>1, <2>1, Basics DEF TableSaved, DiskTyped
<1>3. superbloc' # NullPtr =>
        currentVol' \in InUse /\ disk'[Address(currentVol', 0)].kind = "super"
  BY <1>1, <1>2 DEF SessionInv, LoadedManaged, IsSuper
<1>4. (NoNodeFirst /\ LoadedManaged)'
  BY <1>1, <1>2, <1>3, SuperblocksKept
<1>5. Quiet
  BY <1>1, <1>2, SuperblocksStay
<1> QED BY <1>1, <1>4, <1>5 DEF Kept, SessionInv

\* write, as a session allows it;
SessionWrite(v, b) == (v \in Used => b # 0) /\ Clear(v, b) /\ Write(v, b)

LEMMA WriteQuiet ==
  ASSUME SessionInv, NEW v \in Present(mbr), NEW b \in Blocs(mbr, v), SessionWrite(v, b)
  PROVE  Kept /\ Quiet
<1>1. /\ running /\ running' /\ mbr' = mbr /\ savedMbr' = savedMbr
      /\ UNCHANGED <<heap, superbloc, currentVol>>
      /\ Clear(v, b) /\ (v \in Used => b # 0)
  BY DEF SessionWrite, Write, tableVars
<1>2. PICK n \in Counts(Address(v, b)) : disk' = Written(SectorsFrom(Address(v, b), n), Data)
  BY DEF SessionWrite, Write
<1>3. \A w \in InUse : disk'[Address(w, 0)] = disk[Address(w, 0)]
  <2> SUFFICES ASSUME NEW w \in InUse PROVE disk'[Address(w, 0)] = disk[Address(w, 0)]
    OBVIOUS
  <2>1. Address(w, 0) \in Sectors /\ w \in Used
    BY InTable, VolumeAt DEF InUse
  <2>2. Address(w, 0) \notin SectorsFrom(Address(v, b), n)
    BY <1>1, <2>1, ClearWrite
  <2> QED BY <1>2, <2>1, <2>2 DEF Written
<1>4. superbloc' # NullPtr =>
        currentVol' \in InUse /\ disk'[Address(currentVol', 0)].kind = "super"
  BY <1>1, <1>3 DEF SessionInv, LoadedManaged, IsSuper
<1>5. (NoNodeFirst /\ LoadedManaged)'
  BY <1>1, <1>3, <1>4, SuperblocksKept
<1>6. Quiet
  BY <1>1, <1>3, SuperblocksStay
<1> QED BY <1>1, <1>5, <1>6 DEF Kept, SessionInv

\* and commands that only print.
LEMMA NothingQuiet ==
  ASSUME SessionInv, UNCHANGED <<tableVars, blocVars>>
  PROVE  Kept /\ Quiet
<1>1. UNCHANGED <<running, mbr, savedMbr, disk, heap, superbloc, currentVol>>
  BY DEF tableVars, blocVars
<1>2. Firsts' = Firsts /\ Sizes' = Sizes
  BY <1>1 DEF Firsts, Sizes, Managed, InUse, FirstOf, IsSuper, Address
<1>3. running => (NoNodeFirst /\ LoadedManaged)'
  BY <1>1 DEF SessionInv, NoNodeFirst, LoadedManaged, InUse, IsSuper, Address
<1> QED BY <1>1, <1>2, <1>3 DEF Kept, Quiet, SessionInv

\* The list goes back to the superblock on the disk.
LEMMA SaveVolQuiet ==
  ASSUME SessionInv, superbloc # NullPtr, Clear(currentVol, 0), SaveVol
  PROVE  /\ Kept /\ Quiet
         /\ reply'.cmd = "save_vol" /\ reply'.res = "done"
<1>1. /\ running /\ running' /\ mbr' = mbr /\ savedMbr' = savedMbr
      /\ superbloc' = NullPtr /\ UNCHANGED <<heap, currentVol>>
  BY DEF SaveVol, SaveSuper, tableVars
<1>2. PICK n \in Counts(Address(currentVol, 0)) :
        disk' = Written(SectorsFrom(Address(currentVol, 0), n), Super(superbloc.first))
  BY DEF SaveVol, SaveSuper
<1>3. /\ currentVol \in InUse /\ currentVol \in Present(mbr) /\ currentVol \in Slots
      /\ Managed(currentVol)
      /\ Firsts[currentVol] = superbloc.first /\ Address(currentVol, 0) \in Sectors
      /\ 0 \in Blocs(mbr, currentVol)
  BY LoadedList, VolumeAt
<1>4. /\ disk'[Address(currentVol, 0)].kind = "super"
      /\ disk'[Address(currentVol, 0)].first = superbloc.first
  <2>1. Address(currentVol, 0) \in SectorsFrom(Address(currentVol, 0), n)
    BY <1>3, NamedSector DEF Sectors
  <2>2. disk'[Address(currentVol, 0)] = Super(superbloc.first)
    BY <1>2, <1>3, <2>1 DEF Written
  <2> QED BY <2>2 DEF Super
<1>5. \A v \in InUse \ {currentVol} : disk'[Address(v, 0)] = disk[Address(v, 0)]
  <2> SUFFICES ASSUME NEW v \in InUse \ {currentVol}
               PROVE  disk'[Address(v, 0)] = disk[Address(v, 0)]
    OBVIOUS
  <2>1. Address(v, 0) \in Sectors
    BY InTable, VolumeAt
  <2>2. Address(v, 0) \notin SectorsFrom(Address(currentVol, 0), n)
    BY <1>3, ClearWrite
  <2> QED BY <1>2, <2>1, <2>2 DEF Written
<1>6. (NoNodeFirst /\ LoadedManaged)'
  BY <1>1, <1>4, <1>5, SuperblocksKept
<1>7. ASSUME NEW v \in Slots
      PROVE  /\ Managed(v)' <=> Managed(v)
             /\ Managed(v) => FirstOf(v)' = FirstOf(v)
  <2>1. CASE v = currentVol
    BY <1>1, <1>3, <1>4, <2>1, SameTable DEF FirstOf
  <2>2. CASE v # currentVol
    BY <1>1, <1>5, <2>2, SameTable DEF Managed, IsSuper, FirstOf
  <2> QED BY <2>1, <2>2
<1>8. Quiet
  <2>1. /\ Firsts' = [v \in Slots |-> IF Managed(v)' THEN FirstOf(v)' ELSE NullPtr]
        /\ Sizes' = [v \in Slots |-> IF Managed(v)' THEN mbr.volumes[v].nbBlocs ELSE 0]
    BY <1>1, SameTable
  <2>2. Firsts' = Firsts
    BY <1>7, <2>1 DEF Firsts
  <2>3. Sizes' = Sizes
    BY <1>7, <2>1 DEF Sizes
  <2> QED BY <1>1, <2>2, <2>3 DEF Quiet
<1>9. reply'.cmd = "save_vol" /\ reply'.res = "done"
  BY DEF SaveVol, Says
<1>10. Kept
  BY <1>1, <1>6 DEF Kept, SessionInv
<1> QED BY <1>8, <1>9, <1>10

\* The process ends: the commands exit and quit.
LEMMA EndForgets ==
  ASSUME SessionInv, ShellExit \/ ShellQuit
  PROVE  Kept /\ Forgets
<1>1. ~running' /\ heap' = <<>> /\ mbr' = mbr /\ savedMbr' \in {mbr, savedMbr}
  BY DEF ShellExit, ShellQuit, Exit, Quit, ProcessEnds
<1> QED BY <1>1, NoLists DEF Kept, Forgets, SessionInv

\* load_vol of a volume with a superblock takes its list from the disk.
LEMMA LoadQuiet ==
  ASSUME SessionInv, superbloc = NullPtr, NEW v \in InUse, LoadVol(v),
         HasMagic(disk[Address(v, 0)])
  PROVE  Kept /\ Quiet
<1>1. /\ running /\ running' /\ mbr' = mbr /\ savedMbr' = savedMbr
      /\ superbloc' = [first |-> disk[Address(v, 0)].first, home |-> Address(v, 0)]
      /\ currentVol' = v /\ UNCHANGED <<disk, heap>>
  BY DEF LoadVol, LoadSuper, tableVars
<1>2. v \in Slots /\ disk[Address(v, 0)].kind = "super"
  BY <1>1, InTable, VolumeAt DEF SessionInv, NoNodeFirst, HasMagic
<1>3. (NoNodeFirst /\ LoadedManaged)'
  BY <1>1, <1>2, SuperblocksKept
<1>4. ASSUME NEW w \in Slots
      PROVE  /\ Managed(w)' <=> Managed(w)
             /\ Managed(w) => FirstOf(w)' = FirstOf(w)
  <2>1. Managed(w)' <=> Managed(w)
    BY <1>1, SameTable DEF Managed, IsSuper
  <2>2. FirstOf(w) = disk[Address(w, 0)].first
    BY DEF FirstOf
  <2>3. FirstOf(w)' = disk[Address(w, 0)].first
    BY <1>1, SameTable
  <2> QED BY <2>1, <2>2, <2>3
<1>5. Quiet
  <2>1. /\ Firsts' = [w \in Slots |-> IF Managed(w)' THEN FirstOf(w)' ELSE NullPtr]
        /\ Sizes' = [w \in Slots |-> IF Managed(w)' THEN mbr.volumes[w].nbBlocs ELSE 0]
    BY <1>1, SameTable
  <2>2. Firsts' = Firsts
    BY <1>4, <2>1 DEF Firsts
  <2>3. Sizes' = Sizes
    BY <1>4, <2>1 DEF Sizes
  <2> QED BY <1>1, <2>2, <2>3 DEF Quiet
<1>6. Kept
  BY <1>1, <1>3 DEF Kept, SessionInv
<1> QED BY <1>5, <1>6

\* load_vol, as a session allows it;
SessionLoad(v) == (\A b \in Blocs(mbr, v) : Clear(v, b)) /\ LoadVol(v)

\* of a volume without a superblock it makes one.
LEMMA LoadFormats ==
  ASSUME SessionInv, superbloc = NullPtr, NEW v \in InUse, SessionLoad(v),
         ~HasMagic(disk[Address(v, 0)])
  PROVE  Kept /\ Formats(v)
<1> DEFINE k  == mbr.volumes[v].nbBlocs
           bs == ListedBlocs(k)
<1>1. /\ running /\ running' /\ mbr' = mbr /\ savedMbr' = savedMbr
      /\ currentVol' = v /\ InitVolume(v)
      /\ \A b \in Blocs(mbr, v) : Clear(v, b)
  BY DEF SessionLoad, LoadVol, LoadSuper, tableVars
<1>2. PICK place \in Injection(bs, Nodes \ DOMAIN heap), junk \in {NullPtr, WildPtr} :
        /\ heap' = Malloc(FreshList(place, bs))
        /\ superbloc' = [first |-> place[1], home |-> Address(v, 0)]
        /\ \E count \in [{0} \cup bs -> 1 .. MaxSector] :
              /\ \A b \in {0} \cup bs : count[b] \in Counts(Address(v, b))
              /\ disk' = ListWritten(v, bs, count, junk)
  BY <1>1 DEF InitVolume
<1>3. PICK count : /\ \A b \in {0} \cup bs : count[b] \in Counts(Address(v, b))
                   /\ disk' = ListWritten(v, bs, count, junk)
  BY <1>2
<1>4. /\ v \in Present(mbr) /\ k \in Nat \ {0, 1} /\ v \in Slots
      /\ Address(v, 0) \in Sectors
  BY InTable, VolumeAt
<1>5. 0 \in Blocs(mbr, v) /\ bs \subseteq Blocs(mbr, v) \ {0}
  BY <1>4 DEF ListedBlocs, Blocs
<1>6. place[1] \in Nodes
  <2> HIDE DEF k
  <2>1. Range(place) \subseteq Nodes \ DOMAIN heap /\ place[1] \in Range(place)
    BY <1>4, FreshNodes
  <2> QED BY <2>1
<1> HIDE DEF k, bs
<1>7. superbloc' # NullPtr /\ superbloc'.first = place[1]
  <2>1. superbloc' \in [first : Nodes \cup {NullPtr, WildPtr}, home : 0 .. DiskSize - 1]
    BY <1>2, <1>4, <1>6 DEF Sectors
  <2>2. superbloc' # NullPtr
    BY <2>1, SuperblocAssumption
  <2> QED BY <1>2, <2>2
<1>8. ASSUME NEW w \in InUse, NEW b \in {0} \cup bs,
             Address(w, 0) \in SectorsFrom(Address(v, b), count[b])
      PROVE  w = v /\ b = 0
  <2>1. b \in Blocs(mbr, v) /\ count[b] \in Counts(Address(v, b))
    BY <1>3, <1>5
  <2> QED BY <1>1, <1>4, <1>8, <2>1, ClearWrite
<1>9. disk'[Address(v, 0)].kind = "super"
  <2>1. \A b \in bs : Address(v, 0) \notin SectorsFrom(Address(v, b), count[b])
    BY <1>5, <1>8
  <2>2. Address(v, 0) \in SectorsFrom(Address(v, 0), count[0])
    BY <1>3, <1>4, NamedSector DEF Sectors
  <2>3. disk'[Address(v, 0)] = Super(junk)
    BY <1>3, <1>4, <2>1, <2>2 DEF ListWritten
  <2> QED BY <2>3 DEF Super
<1>10. \A w \in InUse \ {v} : disk'[Address(w, 0)] = disk[Address(w, 0)]
  <2> SUFFICES ASSUME NEW w \in InUse \ {v}
               PROVE  disk'[Address(w, 0)] = disk[Address(w, 0)]
    OBVIOUS
  <2>1. Address(w, 0) \in Sectors
    BY InTable, VolumeAt
  <2>2. \A b \in {0} \cup bs : Address(w, 0) \notin SectorsFrom(Address(v, b), count[b])
    BY <1>8
  <2> QED BY <1>3, <2>1, <2>2 DEF ListWritten
<1>11. (NoNodeFirst /\ LoadedManaged)'
  BY <1>1, <1>9, <1>10, SuperblocksKept
<1>12. ~Managed(v)
  BY DEF Managed, IsSuper, HasMagic
<1>13. ASSUME NEW w \in Slots
       PROVE  /\ w = v => Managed(w)' /\ FirstOf(w)' = place[1]
              /\ w # v => (Managed(w)' <=> Managed(w))
              /\ w # v /\ Managed(w) => FirstOf(w)' = FirstOf(w)
  <2>1. CASE w = v
    BY <1>1, <1>7, <1>9, <2>1, SameTable
  <2>2. CASE w # v
    BY <1>1, <1>10, <2>2, SameTable DEF Managed, IsSuper, FirstOf
  <2> QED BY <2>1, <2>2
<1>14. Firsts' = [Firsts EXCEPT ![v] = place[1]] /\ Sizes' = [Sizes EXCEPT ![v] = k]
  <2>1. /\ Firsts' = [w \in Slots |-> IF Managed(w)' THEN FirstOf(w)' ELSE NullPtr]
        /\ Sizes' = [w \in Slots |-> IF Managed(w)' THEN mbr.volumes[w].nbBlocs ELSE 0]
    BY <1>1, SameTable
  <2>2. Firsts' = [Firsts EXCEPT ![v] = place[1]]
    BY <1>13, <2>1 DEF Firsts
  <2>3. Sizes' = [Sizes EXCEPT ![v] = k]
    BY <1>13, <2>1 DEF Sizes, k
  <2> QED BY <2>2, <2>3
<1>15. heap' = Grown(heap, FreshList(place, bs))
  BY <1>2 DEF Malloc, Grown
<1>16. Formats(v)
  BY <1>12, <1>14, <1>15 DEF Formats, k, bs
<1>17. Kept
  BY <1>1, <1>11 DEF Kept, SessionInv
<1> QED BY <1>16, <1>17

\* A walk along the list of the loaded volume never faults.
LEMMA ListVolQuiet ==
  ASSUME SessionInv, ListVol
  PROVE  Kept /\ Quiet /\ reply'.cmd = "list_vol" /\ reply'.res = "done"
<1>1. /\ UNCHANGED <<tableVars, blocVars>>
      /\ Says("list_vol", currentVol, None, "done")
  BY LoadedList DEF ListVol
<1> QED BY <1>1, NothingQuiet DEF Says

\* new_vol takes a block from the list, or there is none.
LEMMA NewVolGrants ==
  ASSUME SessionInv, NewVol
  PROVE  /\ Kept /\ disk' = disk /\ currentVol' = currentVol
         /\ reply'.cmd = "new_vol"
         /\ \/ /\ Grants(currentVol) /\ superbloc # NullPtr
               /\ reply'.res = "done"
               /\ reply'.bloc = heap[Firsts[currentVol]].pos
            \/ /\ Quiet
               /\ reply'.res = "none left"
<1>1. superbloc # NullPtr
  BY DEF NewVol, NewBloc, NewBlocFaults
<1>2. ~NewBlocFaults
  BY <1>1, LoadedList DEF NewBlocFaults
<1>3. CASE /\ running /\ NewBloc /\ UNCHANGED tableVars
           /\ LET bloc == heap[superbloc.first].pos
              IN  Says("new_vol", currentVol, bloc, IF bloc = 0 THEN "none left" ELSE "done")
  <2>1. /\ currentVol \in Present(mbr) /\ currentVol \in Slots
        /\ superbloc \in [first : Ptr, home : Sectors]
        /\ Managed(currentVol) /\ Firsts[currentVol] = superbloc.first
    BY <1>1, LoadedList
  <2>2. /\ running' /\ mbr' = mbr /\ savedMbr' = savedMbr
        /\ superbloc.first \in DOMAIN heap
        /\ superbloc' = [superbloc EXCEPT !.first = heap[superbloc.first].next]
        /\ heap' = Restrict(heap, DOMAIN heap \ {superbloc.first})
        /\ UNCHANGED <<disk, currentVol>>
    BY <1>3 DEF NewBloc, tableVars
  <2>3. heap[superbloc.first].next \in Ptr
    BY <2>2, Basics DEF HeapTyped
  <2>4. /\ superbloc' \in [first : Nodes \cup {NullPtr, WildPtr}, home : 0 .. DiskSize - 1]
        /\ superbloc'.first = heap[superbloc.first].next
    BY <2>1, <2>2, <2>3 DEF Ptr, Sectors
  <2>5. superbloc' # NullPtr
    BY <2>4, SuperblocAssumption
  <2>6. (NoNodeFirst /\ LoadedManaged)'
    BY <1>1, <1>3, <2>1, <2>2, SuperblocksKept DEF SessionInv, LoadedManaged, IsSuper
  <2>7. ASSUME NEW w \in Slots
        PROVE  /\ Managed(w)' <=> Managed(w)
               /\ w = currentVol => FirstOf(w)' = heap[superbloc.first].next
               /\ w # currentVol => FirstOf(w)' = FirstOf(w)
    <3>1. Managed(w)' <=> Managed(w)
      BY <1>3, <2>2, SameTable DEF Managed, IsSuper
    <3> QED BY <2>2, <2>4, <2>5, <3>1, SameTable DEF FirstOf
  <2>8. /\ Firsts' = [w \in Slots |-> IF Managed(w)' THEN FirstOf(w)' ELSE NullPtr]
        /\ Sizes' = [w \in Slots |-> IF Managed(w)' THEN mbr.volumes[w].nbBlocs ELSE 0]
    BY <2>2, SameTable
  <2>9. Firsts' = [Firsts EXCEPT ![currentVol] = heap[superbloc.first].next]
    BY <2>1, <2>7, <2>8 DEF Firsts
  <2>10. Sizes' = Sizes
    BY <2>7, <2>8 DEF Sizes
  <2>11. Grants(currentVol)
    BY <2>1, <2>2, <2>9, <2>10 DEF Grants
  <2>12. heap[superbloc.first].pos # 0
    <3>1. Firsts[currentVol] \in DOMAIN heap
      BY <2>1, <2>2
    <3>2. heap[Firsts[currentVol]].pos \in 1 .. Sizes[currentVol] - 1
      BY <2>1, <3>1, Basics, SnapshotTyped, PopSound DEF SessionInv, ListsSound
    <3>3. Sizes[currentVol] \in Nat
      BY <2>1, SnapshotTyped
    <3> QED BY <2>1, <3>2, <3>3
  <2>13. Kept
    BY <2>2, <2>6 DEF Kept, SessionInv
  <2> QED BY <1>1, <1>3, <2>1, <2>2, <2>11, <2>12, <2>13 DEF Says
<1>4. CASE UNCHANGED <<tableVars, blocVars>> /\ Says("new_vol", currentVol, None, "none left")
  BY <1>4, NothingQuiet DEF Says, blocVars
<1> QED BY <1>2, <1>3, <1>4 DEF NewVol

\* del_vol gives a block back, or finds that it cannot.
LEMMA DelVolReleases ==
  ASSUME SessionInv, NEW b \in BlocAnswers \ {0}, DelVol(b)
  PROVE  /\ Kept /\ disk' = disk
         /\ reply'.cmd = "del_vol" /\ reply'.res # "fault"
         /\ \/ Releases(currentVol, b) /\ superbloc # NullPtr
            \/ Quiet
<1>1. superbloc # NullPtr /\ b \in Nat \ {0}
  BY ShellAssumption DEF DelVol, FreeBloc, FreeBlocFaults
<1>2. ~FreeBlocFaults(b)
  BY <1>1, LoadedList DEF FreeBlocFaults
<1>3. CASE /\ running /\ FreeBloc(b) /\ UNCHANGED tableVars
           /\ Says("del_vol", currentVol, b, "done")
  <2>1. /\ currentVol \in Present(mbr) /\ currentVol \in Slots
        /\ superbloc \in [first : Ptr, home : Sectors]
        /\ Managed(currentVol) /\ Firsts[currentVol] = superbloc.first
        /\ Sizes[currentVol] = mbr.volumes[currentVol].nbBlocs
        /\ Positions(superbloc.first) = PosIn(heap, superbloc.first)
        /\ mbr.volumes[currentVol].nbBlocs \in Nat
    BY <1>1, LoadedList, VolumeAt
  <2>2. /\ running' /\ mbr' = mbr /\ savedMbr' = savedMbr
        /\ InVolume(b) /\ ~Finds(superbloc.first, b)
        /\ UNCHANGED <<disk, currentVol>>
    BY <1>3 DEF FreeBloc, tableVars
  <2>3. PICK n \in Nodes \ DOMAIN heap :
          /\ heap' = Malloc([x \in {n} |-> [pos |-> b, next |-> superbloc.first]])
          /\ superbloc' = [superbloc EXCEPT !.first = n]
    BY <1>3 DEF FreeBloc
  <2>4. /\ superbloc' \in [first : Nodes \cup {NullPtr, WildPtr}, home : 0 .. DiskSize - 1]
        /\ superbloc'.first = n
    BY <2>1, <2>3 DEF Ptr, Sectors
  <2>5. superbloc' # NullPtr
    BY <2>4, SuperblocAssumption
  <2>6. (NoNodeFirst /\ LoadedManaged)'
    BY <1>1, <1>3, <2>1, <2>2, SuperblocksKept DEF SessionInv, LoadedManaged, IsSuper
  <2>7. ASSUME NEW w \in Slots
        PROVE  /\ Managed(w)' <=> Managed(w)
               /\ w = currentVol => FirstOf(w)' = n
               /\ w # currentVol => FirstOf(w)' = FirstOf(w)
    <3>1. Managed(w)' <=> Managed(w)
      BY <1>3, <2>2, SameTable DEF Managed, IsSuper
    <3> QED BY <2>2, <2>4, <2>5, <3>1, SameTable DEF FirstOf
  <2>8. /\ Firsts' = [w \in Slots |-> IF Managed(w)' THEN FirstOf(w)' ELSE NullPtr]
        /\ Sizes' = [w \in Slots |-> IF Managed(w)' THEN mbr.volumes[w].nbBlocs ELSE 0]
    BY <2>2, SameTable
  <2>9. Firsts' = [Firsts EXCEPT ![currentVol] = n]
    BY <2>1, <2>7, <2>8 DEF Firsts
  <2>10. Sizes' = Sizes
    BY <2>7, <2>8 DEF Sizes
  <2>11. heap' = Grown(heap, NodeFor(n, b, Firsts[currentVol]))
    BY <2>1, <2>3 DEF Malloc, Grown, NodeFor
  <2>12. b \in 1 .. Sizes[currentVol] - 1 /\ b \notin PosIn(heap, Firsts[currentVol])
    BY <1>1, <2>1, <2>2 DEF InVolume, Finds
  <2>13. Releases(currentVol, b)
    BY <2>9, <2>10, <2>11, <2>12 DEF Releases
  <2>14. Kept
    BY <2>2, <2>6 DEF Kept, SessionInv
  <2> QED BY <1>1, <1>3, <2>2, <2>13, <2>14 DEF Says
<1>4. CASE /\ UNCHANGED <<tableVars, blocVars>>
           /\ \/ Says("del_vol", currentVol, b, "already free")
              \/ Says("del_vol", currentVol, b, "out of size")
  <2>1. Kept /\ Quiet /\ disk' = disk
    BY <1>4, NothingQuiet DEF blocVars
  <2>2. ASSUME NEW res \in {"already free", "out of size"}, Says("del_vol", currentVol, b, res)
        PROVE  reply'.cmd = "del_vol" /\ reply'.res # "fault"
    BY <2>2 DEF Says
  <2> QED BY <1>4, <2>1, <2>2
<1> QED BY <1>2, <1>3, <1>4 DEF DelVol

---------------------------------------------------------------------------
(* The invariant of a session. *)

\* A session names volumes of the table only.
LEMMA SessionNamed ==
  ASSUME SessionInv, [SessionNext]_shellVars
  PROVE  NamedInv'
<1>1. NamedInv /\ ShellInv
  BY DEF SessionInv, NamedInv
<1>2. Present(mbr) \subseteq Slots
  BY VolumeAt
<1>3. CASE UNCHANGED shellVars
  <2>1. [NamedNext]_shellVars
    BY <1>3
  <2> QED BY <1>1, <2>1, NamedInvNext
<1>4. CASE SessionNext
  <2>1. CASE \E v \in Present(mbr) : \E b \in Blocs(mbr, v) : SessionWrite(v, b)
    <3>1. PICK v \in Present(mbr) : \E b \in Blocs(mbr, v) : SessionWrite(v, b)
      BY <2>1
    <3>2. PICK b \in Blocs(mbr, v) : Write(v, b)
      BY <3>1 DEF SessionWrite
    <3>3. UNCHANGED <<superbloc, currentVol, mbr>>
      BY <3>2 DEF Write, tableVars
    <3> QED BY <1>1, <3>2, <3>3, WriteKeeps, BehindStays DEF NamedInv
  <2>2. CASE ~(\E v \in Present(mbr) : \E b \in Blocs(mbr, v) : SessionWrite(v, b))
    <3>1. NamedNext
      BY <1>4, <2>2, InTable DEF SessionNext, SessionWrite, NamedNext, Commands, OnVolume
    <3> QED BY <1>1, <3>1, NamedInvNext
  <2> QED BY <2>1, <2>2
<1> QED BY <1>3, <1>4

\* Every step of a session does one of five things to the lists.
LEMMA SessionEffect ==
  ASSUME SessionInv, [SessionNext]_shellVars
  PROVE  /\ Kept
         /\ \/ Quiet
            \/ \E v \in Present(mbr) : Formats(v)
            \/ \E v \in Slots : Grants(v)
            \/ \E v \in Slots : \E b \in Nat : Releases(v, b)
            \/ Forgets
<1>1. CASE (\A a \in Sectors : ~HasMagic(disk[a])) /\ ShellBoot
  BY <1>1, BootQuiet
<1>2. CASE /\ mbr.nb_volume \in Used => ~HasMagic(disk[Linear(NewStart(mbr))])
           /\ \E nbloc \in BlocCounts : ShellNew(nbloc)
  BY <1>2, NewQuiet
<1>3. CASE superbloc = NullPtr /\ \E v \in InUse : SessionLoad(v)
  BY <1>3, LoadQuiet, LoadFormats, InTable DEF SessionLoad
<1>4. CASE superbloc # NullPtr /\ Clear(currentVol, 0) /\ SaveVol
  BY <1>4, SaveVolQuiet
<1>5. CASE ShellQuit \/ ShellExit
  BY <1>5, EndForgets
<1>6. CASE ListVol
  BY <1>6, ListVolQuiet
<1>7. CASE NewVol
  BY <1>7, NewVolGrants, Basics
<1>8. CASE \E b \in BlocAnswers \ {0} : DelVol(b)
  <2>1. PICK b \in BlocAnswers \ {0} : DelVol(b)
    BY <1>8
  <2> QED BY <2>1, DelVolReleases, Basics, ShellAssumption
<1>9. CASE \E v \in Present(mbr) : \E b \in Blocs(mbr, v) : SessionWrite(v, b)
  BY <1>9, WriteQuiet
<1>10. CASE ShellSave
  BY <1>10, SaveQuiet
<1>11. CASE UNCHANGED shellVars
  BY <1>11, NothingQuiet DEF shellVars, tableVars, blocVars
<1> QED BY <1>1, <1>2, <1>3, <1>4, <1>5, <1>6, <1>7, <1>8, <1>9, <1>10, <1>11
       DEF SessionNext, SessionWrite, SessionLoad

\* Every command of a session keeps the invariant.
LEMMA SessionInvNext == SessionInv /\ [SessionNext]_shellVars => SessionInv'
<1> SUFFICES ASSUME SessionInv, [SessionNext]_shellVars PROVE SessionInv'
  OBVIOUS
<1>1. NamedInv'
  BY SessionNamed
<1>2. HeapTyped(heap') /\ Acyclic(heap')
  BY <1>1 DEF NamedInv, ShellInv, ListInv
<1>3. Kept /\ ListsSound'
  <2>1. /\ Kept
        /\ \/ Quiet
           \/ \E v \in Present(mbr) : Formats(v)
           \/ \E v \in Slots : Grants(v)
           \/ \E v \in Slots : \E b \in Nat : Releases(v, b)
           \/ Forgets
    BY SessionEffect
  <2> QED BY <1>2, <2>1, ListsStaySound
<1> QED BY <1>1, <1>3 DEF SessionInv, Kept

\* The lists of the empty disk are sound.
LEMMA SessionInvInit == ShellInit => SessionInv
<1> SUFFICES ASSUME ShellInit PROVE SessionInv
  OBVIOUS
<1>1. NamedInv
  BY NamedInvInit
<1>2. ~running /\ heap = <<>> /\ mbr = EmptyMbr /\ savedMbr = EmptyMbr
  BY DEF ShellInit, Init
<1>3. Present(EmptyMbr) = {}
  BY DEF Present, EmptyMbr
<1>4. ListsSound
  BY <1>2, NoLists, NothingSound DEF ListsSound
<1> QED BY <1>1, <1>2, <1>3, <1>4 DEF SessionInv, Sized

\* The invariant holds throughout a session.
LEMMA SessionInvariant == SessionSpec => []SessionInv
BY SessionInvInit, SessionInvNext, PTL DEF SessionSpec

\* Every node of the heap is in the list of exactly one volume: lists of two
\* volumes never join, and save_vol and load_vol lose none.
THEOREM NodesKeepOneList == SessionSpec => []NodesHaveOneList
<1>1. SessionInv => NodesHaveOneList
  <2> SUFFICES ASSUME SessionInv, running, NEW n \in DOMAIN heap
               PROVE  Cardinality({v \in Slots : Managed(v) /\ n \in Reached(FirstOf(v))}) = 1
    BY DEF NodesHaveOneList
  <2>1. PICK v \in Slots : n \in ReachIn(heap, Firsts[v])
    BY DEF SessionInv, ListsSound, Sound
  <2>2. ASSUME NEW w \in Slots
        PROVE  Managed(w) /\ n \in Reached(FirstOf(w)) <=> n \in ReachIn(heap, Firsts[w])
    BY SizeManaged, WalksOfState
  <2>3. \A w \in Slots : n \in ReachIn(heap, Firsts[w]) => w = v
    BY <2>1 DEF SessionInv, ListsSound, Sound
  <2>4. {w \in Slots : Managed(w) /\ n \in Reached(FirstOf(w))} = {v}
    BY <2>1, <2>2, <2>3
  <2> QED BY <2>4, FS_Singleton
<1> QED BY <1>1, SessionInvariant, PTL

\* No command of a session uses an address that holds nothing.
THEOREM SessionsNeverFault == SessionSpec => SessionNeverFaults
<1>1. SessionInv /\ [SessionNext]_shellVars => [reply'.res # "fault"]_shellVars
  <2> SUFFICES ASSUME SessionInv, SessionNext PROVE reply'.res # "fault"
    OBVIOUS
  <2>1. CASE ShellBoot \/ (\E nbloc \in BlocCounts : ShellNew(nbloc)) \/ ShellSave \/ ShellExit
    BY <2>1 DEF ShellBoot, ShellNew, ShellSave, ShellExit, Says
  <2>2. CASE \E v \in InUse : LoadVol(v)
    BY <2>2 DEF LoadVol, Says
  <2>3. CASE superbloc # NullPtr /\ Clear(currentVol, 0) /\ (SaveVol \/ ShellQuit)
    BY <2>3, SaveVolQuiet DEF ShellQuit, Says
  <2>4. CASE ListVol
    BY <2>4, ListVolQuiet
  <2>5. CASE NewVol
    BY <2>5, NewVolGrants
  <2>6. CASE \E b \in BlocAnswers \ {0} : DelVol(b)
    BY <2>6, DelVolReleases
  <2>7. CASE \E v \in Present(mbr) : \E b \in Blocs(mbr, v) : SessionWrite(v, b)
    BY <2>7 DEF SessionWrite, Write, Says
  <2> QED BY <2>1, <2>2, <2>3, <2>4, <2>5, <2>6, <2>7 DEF SessionNext, SessionWrite
<1> QED BY <1>1, SessionInvariant, PTL DEF SessionSpec, SessionNeverFaults

---------------------------------------------------------------------------
(* The lists are a block allocator. *)

SpaceOf(size) == [v \in Slots |-> 0 .. size[v] - 1]

UsedOf(h, first, size) == [v \in Slots |-> (0 .. size[v] - 1) \ PosIn(h, first[v])]

BarsAreLists ==
  /\ spaceBar = SpaceOf(Sizes)
  /\ usedBar = UsedOf(heap, Firsts, Sizes)

\* The blocks in use are those that are in no list.
LEMMA BarsOfState == BarsAreLists
<1>1. ASSUME NEW v \in Slots
      PROVE  /\ (IF Managed(v) THEN Blocs(mbr, v) ELSE {}) = 0 .. Sizes[v] - 1
             /\ (IF Managed(v) THEN Blocs(mbr, v) \ Positions(FirstOf(v)) ELSE {})
                  = (0 .. Sizes[v] - 1) \ PosIn(heap, Firsts[v])
  <2>1. CASE Managed(v)
    <3>1. Sizes[v] = mbr.volumes[v].nbBlocs /\ Firsts[v] = FirstOf(v)
      BY <2>1 DEF Sizes, Firsts
    <3>2. Positions(FirstOf(v)) = PosIn(heap, FirstOf(v))
      BY WalksOfState DEF Positions, PosIn
    <3> QED BY <2>1, <3>1, <3>2 DEF Blocs
  <2>2. CASE ~Managed(v)
    <3>1. Sizes[v] = 0
      BY <2>2 DEF Sizes
    <3> QED BY <2>2, <3>1
  <2> QED BY <2>1, <2>2
<1>2. spaceBar = SpaceOf(Sizes)
  BY <1>1 DEF spaceBar, SpaceOf
<1>3. usedBar = UsedOf(heap, Firsts, Sizes)
  BY <1>1 DEF usedBar, UsedOf
<1> QED BY <1>2, <1>3 DEF BarsAreLists

\* The same after a step.
LEMMA BarsOfNextState == BarsAreLists'
BY BarsOfState, PTL

\* The steps of the allocator, for one volume.
LEMMA AllocSteps ==
  /\ grantedBar' = {} /\ spaceBar' = spaceBar /\ usedBar' = usedBar => Promise!AllocNext
  /\ \A v \in Slots, k \in BlocCounts :
        /\ spaceBar[v] = {} /\ grantedBar' = {}
        /\ spaceBar' = [spaceBar EXCEPT ![v] = 0 .. k - 1]
        /\ usedBar' = [usedBar EXCEPT ![v] = {0}]
        => Promise!AllocNext
  /\ \A v \in Slots : \A b \in spaceBar[v] \ usedBar[v] :
        /\ spaceBar' = spaceBar /\ grantedBar' = {<<v, b>>}
        /\ usedBar' = [usedBar EXCEPT ![v] = @ \cup {b}]
        => Promise!AllocNext
  /\ \A v \in Slots : \A b \in usedBar[v] \ {0} :
        /\ spaceBar' = spaceBar /\ grantedBar' = {}
        /\ usedBar' = [usedBar EXCEPT ![v] = @ \ {b}]
        => Promise!AllocNext
  /\ /\ spaceBar' = [v \in Slots |-> {}] /\ grantedBar' = {}
     /\ usedBar' = [v \in Slots |-> {}]
     => Promise!AllocNext
BY DEF Promise!AllocNext, Promise!Other, Promise!Initialise, Promise!Grant, Promise!Release,
       Promise!Close

\* Only a new_vol that gets a block grants one.
LEMMA NothingGranted ==
  /\ reply.cmd # "new_vol" \/ reply.res # "done" => grantedBar = {}
  /\ reply'.cmd # "new_vol" \/ reply'.res # "done" => grantedBar' = {}
BY DEF grantedBar

\* What a command of a session does to the lists, and the block it grants.
LEMMA SessionGrants ==
  ASSUME SessionInv, SessionNext
  PROVE  \/ /\ grantedBar' = {}
            /\ \/ Quiet
               \/ \E v \in Present(mbr) : Formats(v)
               \/ \E v \in Slots : \E b \in Nat : Releases(v, b)
               \/ Forgets
         \/ \E v \in Slots : Grants(v) /\ grantedBar' = {<<v, heap[Firsts[v]].pos>>}
<1>1. CASE (\A a \in Sectors : ~HasMagic(disk[a])) /\ ShellBoot
  <2>1. reply'.cmd = "boot"
    BY <1>1 DEF ShellBoot, Says
  <2> QED BY <1>1, <2>1, BootQuiet, NothingGranted
<1>2. CASE /\ mbr.nb_volume \in Used => ~HasMagic(disk[Linear(NewStart(mbr))])
           /\ \E nbloc \in BlocCounts : ShellNew(nbloc)
  <2>1. reply'.cmd = "new"
    BY <1>2 DEF ShellNew, Says
  <2> QED BY <1>2, <2>1, NewQuiet, NothingGranted
<1>3. CASE superbloc = NullPtr /\ \E v \in InUse : SessionLoad(v)
  <2>1. reply'.cmd = "load_vol"
    BY <1>3 DEF SessionLoad, LoadVol, Says
  <2> QED BY <1>3, <2>1, LoadQuiet, LoadFormats, InTable, NothingGranted DEF SessionLoad
<1>4. CASE superbloc # NullPtr /\ Clear(currentVol, 0) /\ SaveVol
  BY <1>4, SaveVolQuiet, NothingGranted
<1>5. CASE superbloc # NullPtr /\ ShellQuit
  <2>1. reply'.cmd = "quit"
    BY <1>5 DEF ShellQuit, Says
  <2> QED BY <1>5, <2>1, EndForgets, NothingGranted
<1>6. CASE ShellExit
  <2>1. reply'.cmd = "exit"
    BY <1>6 DEF ShellExit, Says
  <2> QED BY <1>6, <2>1, EndForgets, NothingGranted
<1>7. CASE ListVol
  BY <1>7, ListVolQuiet, NothingGranted
<1>8. CASE NewVol
  <2>1. CASE /\ Grants(currentVol) /\ reply'.res = "done"
             /\ reply'.bloc = heap[Firsts[currentVol]].pos
    <3>1. grantedBar' = {<<currentVol', reply'.bloc>>}
      BY <1>8, <2>1, NewVolGrants DEF grantedBar
    <3>2. currentVol \in Slots /\ currentVol' = currentVol
      BY <1>8, NewVolGrants, Basics
    <3> QED BY <2>1, <3>1, <3>2
  <2>2. CASE Quiet /\ reply'.res = "none left"
    BY <2>2, NothingGranted
  <2> QED BY <1>8, <2>1, <2>2, NewVolGrants
<1>9. CASE \E b \in BlocAnswers \ {0} : DelVol(b)
  <2>1. PICK b \in BlocAnswers \ {0} : DelVol(b)
    BY <1>9
  <2>2. grantedBar' = {}
    BY <2>1, DelVolReleases, NothingGranted
  <2> QED BY <2>1, <2>2, DelVolReleases, Basics, ShellAssumption
<1>10. CASE \E v \in Present(mbr) : \E b \in Blocs(mbr, v) : SessionWrite(v, b)
  <2>1. reply'.cmd = "write"
    BY <1>10 DEF SessionWrite, Write, Says
  <2> QED BY <1>10, <2>1, WriteQuiet, NothingGranted
<1>11. CASE ShellSave
  <2>1. reply'.cmd = "save"
    BY <1>11 DEF ShellSave, Says
  <2> QED BY <1>11, <2>1, SaveQuiet, NothingGranted
<1> QED BY <1>1, <1>2, <1>3, <1>4, <1>5, <1>6, <1>7, <1>8, <1>9, <1>10, <1>11
       DEF SessionNext, SessionWrite, SessionLoad

\* When one list changes, the space and the used blocks change in one slot.
LEMMA BarsChange ==
  ASSUME SessionInv, NEW v \in Slots, NEW k \in Nat, NEW bs, OneChanges(v, k, bs)
  PROVE  /\ spaceBar' = [spaceBar EXCEPT ![v] = 0 .. k - 1]
         /\ usedBar' = [usedBar EXCEPT ![v] = (0 .. k - 1) \ bs]
<1>1. PICK p \in Ptr : /\ Changed(heap, Firsts, Sizes, v, heap', p, k, bs)
                       /\ Firsts' = [Firsts EXCEPT ![v] = p]
                       /\ Sizes' = [Sizes EXCEPT ![v] = k]
  BY DEF OneChanges
<1>2. ASSUME NEW w \in Slots
      PROVE  /\ Sizes'[w] = IF w = v THEN k ELSE Sizes[w]
             /\ Firsts'[w] = IF w = v THEN p ELSE Firsts[w]
             /\ PosIn(heap', Firsts'[w]) = IF w = v THEN bs ELSE PosIn(heap, Firsts[w])
  BY <1>1, Snapshot DEF Changed
<1>3. /\ spaceBar = SpaceOf(Sizes) /\ usedBar = UsedOf(heap, Firsts, Sizes)
      /\ spaceBar' = SpaceOf(Sizes') /\ usedBar' = UsedOf(heap', Firsts', Sizes')
  BY BarsOfState, BarsOfNextState DEF BarsAreLists
<1>4. spaceBar' = [spaceBar EXCEPT ![v] = 0 .. k - 1]
  BY <1>2, <1>3 DEF SpaceOf
<1>5. usedBar' = [usedBar EXCEPT ![v] = (0 .. k - 1) \ bs]
  BY <1>2, <1>3 DEF UsedOf
<1> QED BY <1>4, <1>5

\* A command of a session is a step of the allocator.
LEMMA PromiseStep ==
  ASSUME SessionInv, SessionInv', SessionNext
  PROVE  Promise!AllocNext
<1>1. /\ spaceBar = SpaceOf(Sizes) /\ usedBar = UsedOf(heap, Firsts, Sizes)
      /\ spaceBar' = SpaceOf(Sizes') /\ usedBar' = UsedOf(heap', Firsts', Sizes')
  BY BarsOfState, BarsOfNextState DEF BarsAreLists
<1>2. HeapTyped(heap') /\ Acyclic(heap')
  BY DEF SessionInv, NamedInv, ShellInv, ListInv
<1>3. ASSUME NEW v \in Slots
      PROVE  /\ Sizes[v] \in Nat
             /\ spaceBar[v] = 0 .. Sizes[v] - 1
             /\ usedBar[v] = (0 .. Sizes[v] - 1) \ PosIn(heap, Firsts[v])
             /\ spaceBar = [spaceBar EXCEPT ![v] = 0 .. Sizes[v] - 1]
  BY <1>1, Snapshot DEF SpaceOf, UsedOf
<1>4. CASE Quiet /\ grantedBar' = {}
  <2>1. spaceBar' = spaceBar /\ usedBar' = usedBar
    BY <1>1, <1>4 DEF Quiet
  <2> QED BY <1>4, <2>1, AllocSteps
<1>5. ASSUME NEW v \in Present(mbr), Formats(v), grantedBar' = {} PROVE Promise!AllocNext
  <2> DEFINE k == mbr.volumes[v].nbBlocs
  <2>1. v \in Slots /\ k \in Nat \ {0, 1} /\ k \in BlocCounts /\ Sizes[v] = 0
    BY <1>5, VolumeAt, SizeManaged DEF Formats
  <2>2. OneChanges(v, k, 1 .. k - 1)
    BY <1>2, <1>5, FormatsOne
  <2> HIDE DEF k
  <2>3. /\ spaceBar' = [spaceBar EXCEPT ![v] = 0 .. k - 1]
        /\ usedBar' = [usedBar EXCEPT ![v] = (0 .. k - 1) \ (1 .. k - 1)]
    BY <2>1, <2>2, BarsChange
  <2>4. (0 .. k - 1) \ (1 .. k - 1) = {0} /\ spaceBar[v] = {}
    BY <1>3, <2>1
  <2> QED BY <1>5, <2>1, <2>3, <2>4, AllocSteps
<1>6. ASSUME NEW v \in Slots, Grants(v), grantedBar' = {<<v, heap[Firsts[v]].pos>>}
      PROVE  Promise!AllocNext
  <2>1. PICK b : b = heap[Firsts[v]].pos
    OBVIOUS
  <2>2. PICK free : free = PosIn(heap, Firsts[v])
    OBVIOUS
  <2>3. PICK k : k = Sizes[v]
    OBVIOUS
  <2>4. b \in free /\ b \in 1 .. k - 1 /\ k \in Nat /\ OneChanges(v, k, free \ {b})
    BY <1>3, <1>6, <2>1, <2>2, <2>3, GrantsOne
  <2>5. /\ spaceBar' = [spaceBar EXCEPT ![v] = 0 .. k - 1]
        /\ usedBar' = [usedBar EXCEPT ![v] = (0 .. k - 1) \ (free \ {b})]
    BY <2>4, BarsChange
  <2>6. /\ (0 .. k - 1) \ (free \ {b}) = usedBar[v] \cup {b}
        /\ b \in spaceBar[v] \ usedBar[v]
    BY <1>3, <2>2, <2>3, <2>4
  <2>7. spaceBar' = spaceBar /\ usedBar' = [usedBar EXCEPT ![v] = @ \cup {b}]
    BY <1>3, <2>3, <2>5, <2>6
  <2>8. grantedBar' = {<<v, b>>}
    BY <1>6, <2>1
  <2> QED BY <2>6, <2>7, <2>8, AllocSteps
<1>7. ASSUME NEW v \in Slots, NEW b \in Nat, Releases(v, b), grantedBar' = {}
      PROVE  Promise!AllocNext
  <2>1. PICK free : free = PosIn(heap, Firsts[v])
    OBVIOUS
  <2>2. PICK k : k = Sizes[v]
    OBVIOUS
  <2>3. b \notin free /\ b \in 1 .. k - 1 /\ k \in Nat /\ OneChanges(v, k, free \cup {b})
    BY <1>2, <1>3, <1>7, <2>1, <2>2, ReleasesOne
  <2>4. /\ spaceBar' = [spaceBar EXCEPT ![v] = 0 .. k - 1]
        /\ usedBar' = [usedBar EXCEPT ![v] = (0 .. k - 1) \ (free \cup {b})]
    BY <2>3, BarsChange
  <2>5. /\ (0 .. k - 1) \ (free \cup {b}) = usedBar[v] \ {b}
        /\ b \in usedBar[v] \ {0}
    BY <1>3, <2>1, <2>2, <2>3
  <2>6. spaceBar' = spaceBar /\ usedBar' = [usedBar EXCEPT ![v] = @ \ {b}]
    BY <1>3, <2>2, <2>4, <2>5
  <2> QED BY <1>7, <2>5, <2>6, AllocSteps
<1>8. CASE Forgets /\ grantedBar' = {}
  <2>1. Sizes' = [v \in Slots |-> 0]
    BY <1>8 DEF Forgets
  <2>2. \A v \in Slots : 0 .. Sizes'[v] - 1 = {}
    BY <2>1
  <2>3. spaceBar' = [v \in Slots |-> {}] /\ usedBar' = [v \in Slots |-> {}]
    BY <1>1, <2>2 DEF SpaceOf, UsedOf
  <2> QED BY <1>8, <2>3, AllocSteps
<1> QED BY <1>4, <1>5, <1>6, <1>7, <1>8, SessionGrants

\* The linked lists are a block allocator: new_vol grants only blocks that are in
\* no one's hands, del_vol gives back exactly the block it names, and no block is
\* lost while volumes are loaded and saved in turn.
THEOREM SessionsKeepPromise == SessionSpec => KeepsPromise
<1>1. ShellInit => Promise!AllocInit
  <2> SUFFICES ASSUME ShellInit PROVE Promise!AllocInit
    OBVIOUS
  <2>1. grantedBar = {}
    <3>1. reply.cmd = "none"
      BY DEF ShellInit
    <3> QED BY <3>1, NothingGranted
  <2>2. \A v \in Slots : 0 .. Sizes[v] - 1 = {}
    BY NoLists DEF ShellInit, Init
  <2>3. spaceBar = [v \in Slots |-> {}] /\ usedBar = [v \in Slots |-> {}]
    BY <2>2, BarsOfState DEF BarsAreLists, SpaceOf, UsedOf
  <2> QED BY <2>1, <2>3 DEF Promise!AllocInit
<1>2. SessionInv /\ SessionInv' /\ [SessionNext]_shellVars
        => [Promise!AllocNext]_(Promise!allocVars)
  <2>1. CASE UNCHANGED shellVars
    <3>1. spaceBar' = spaceBar /\ usedBar' = usedBar /\ grantedBar' = grantedBar
      BY <2>1 DEF shellVars, spaceBar, usedBar, grantedBar, Managed, InUse, IsSuper, Address, FirstOf,
                  Positions, Reached, Step
    <3> QED BY <3>1 DEF Promise!allocVars
  <2> QED BY <2>1, PromiseStep
<1> QED BY <1>1, <1>2, SessionInvariant, PTL DEF SessionSpec, KeepsPromise, Promise!AllocSpec
=============================================================================
