--------------------------- MODULE BlocAllocator ---------------------------
(***************************************************************************)
(* What the superblock promises its user: each volume has a space of       *)
(* blocks, new_vol grants one that nobody uses, del_vol takes one back.    *)
(* How the free blocks are kept does not matter here.                      *)
(***************************************************************************)
EXTENDS Integers

CONSTANTS
  Volumes,      \* the volumes of the table
  NbBlocs       \* sizes a volume may have

VARIABLES
  space,        \* the blocks of each volume; none before its first load
  used,         \* those of them that are in use
  granted       \* the block the last request was given: a set of at most one pair

allocVars == <<space, used, granted>>

AllocInit ==
  /\ space = [v \in Volumes |-> {}]
  /\ used = [v \in Volumes |-> {}]
  /\ granted = {}

\* Block 0 is used by the superblock itself.
Initialise(v) ==
  /\ space[v] = {}
  /\ \E n \in NbBlocs : space' = [space EXCEPT ![v] = 0 .. n - 1]
  /\ used' = [used EXCEPT ![v] = {0}]
  /\ granted' = {}

Grant(v) ==
  \E b \in space[v] \ used[v] :
     /\ used' = [used EXCEPT ![v] = @ \cup {b}]
     /\ granted' = {<<v, b>>}
     /\ UNCHANGED space

Release(v) ==
  \E b \in used[v] \ {0} :
     /\ used' = [used EXCEPT ![v] = @ \ {b}]
     /\ granted' = {}
     /\ UNCHANGED space

\* Everything else, and a request refused.
Other == granted' = {} /\ UNCHANGED <<space, used>>

\* The promise ends with the process.
Close ==
  /\ space' = [v \in Volumes |-> {}]
  /\ used' = [v \in Volumes |-> {}]
  /\ granted' = {}

AllocNext ==
  \/ Other
  \/ \E v \in Volumes : Initialise(v) \/ Grant(v) \/ Release(v)
  \/ Close

AllocSpec == AllocInit /\ [][AllocNext]_allocVars
=============================================================================
