---------------------------- MODULE SectorStore ----------------------------
(***************************************************************************)
(* What drive.c promises its callers: a store of sectors, and requests     *)
(* that read, write or format the sectors they name.  A write may reach    *)
(* sectors behind the one it names as well, until the next request; a      *)
(* request that comes to an address the store does not have never ends.    *)
(***************************************************************************)
EXTENDS Integers

CONSTANTS
  Sectors,          \* the addresses of the store
  Contents,         \* what a sector holds
  Requests,         \* the requests, with op, at, and data and n as op needs
  Nth(_, _),        \* the n-th address from one on, from 0
  Behind(_)         \* the sectors a request may reach without naming them

VARIABLES
  store,            \* the sectors
  last,             \* the request made last: a set of one, or of none yet
  busy,             \* it has not been answered
  toDo,             \* the sectors it has still to change
  answer            \* what the last read returned

storeVars == <<store, last, busy, toDo, answer>>

Reads(r) == r.op \in {"read", "show"}

Count(r) == IF Reads(r) THEN 0 ELSE IF r.op = "write" THEN 1 ELSE r.n

StoreInit ==
  /\ store \in {[s \in Sectors |-> d] : d \in Contents}
  /\ last = {}
  /\ busy = FALSE
  /\ toDo = 0
  /\ answer \in Contents

Begin ==
  /\ ~busy
  /\ \E r \in Requests : last' = {r} /\ toDo' = Count(r)
  /\ busy' = TRUE
  /\ UNCHANGED <<store, answer>>

\* The sectors change one at a time, in order.
Change ==
  /\ toDo > 0
  /\ \E r \in last : LET s == Nth(r.at, Count(r) - toDo)
                     IN  s \in Sectors /\ store' = [store EXCEPT ![s] = r.data]
  /\ toDo' = toDo - 1
  /\ UNCHANGED <<last, busy, answer>>

\* The sector that was named came first.
Spill ==
  /\ toDo = 0
  /\ \E r \in last : \E s \in Behind(r) : store' = [store EXCEPT ![s] = r.data]
  /\ UNCHANGED <<last, busy, toDo, answer>>

Finish ==
  /\ busy
  /\ toDo = 0
  /\ \E r \in last : IF Reads(r) THEN r.at \in Sectors /\ answer' = store[r.at]
                                 ELSE answer' = answer
  /\ busy' = FALSE
  /\ UNCHANGED <<store, last, toDo>>

StoreNext == Begin \/ Change \/ Spill \/ Finish

\* A request for sectors of the store is answered.
StoreSpec == StoreInit /\ [][StoreNext]_storeVars /\ WF_storeVars(Change \/ Finish)
=============================================================================
