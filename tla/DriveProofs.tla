---------------------------- MODULE DriveProofs ----------------------------
(* Proofs about Drive, for disks of every size. *)
EXTENDS Drive, Arithmetic, TLAPS

States == {"off", "idle", "seek"} \cup Transfers
Pcs    == {"idle", "armSeek", "sleepSeek", "command", "armMove", "sleepMove", "finish"}
Ats    == Addresses \cup Targets
Ctls   == [state : States, next : States, power : 0 .. PON_DELAY, nbSec : -1 .. MaxSector,
           secDelay : 0 .. STPS, head : Positions, dst : Ats]

---------------------------------------------------------------------------
(* What a command and a tick make of the controller. *)

\* A seek command, register by register;
LEMMA SeekSets ==
  ASSUME ctl \in Ctls, NEW p, Seek(p)
  PROVE  ctl' = [state |-> ctl.state, next |-> "seek", power |-> ctl.power,
                 nbSec |-> ctl.nbSec, secDelay |-> ctl.secDelay, head |-> ctl.head, dst |-> p]
BY DEF Seek, Ctls

\* a command that transfers;
LEMMA StartSets ==
  ASSUME ctl \in Ctls, NEW cmd, NEW count, Start(cmd, count)
  PROVE  ctl' = [state |-> ctl.state, next |-> cmd, power |-> ctl.power,
                 nbSec |-> count, secDelay |-> ctl.secDelay, head |-> ctl.head,
                 dst |-> ctl.dst]
BY DEF Start, Ctls

\* Power comes on only after some ticks.
LEMMA PowerSets ==
  ASSUME ctl \in Ctls, PowerTick
  PROVE  /\ ctl.state = "off" /\ ctl' \in Ctls
         /\ ctl'.next = ctl.next /\ ctl'.nbSec = ctl.nbSec /\ ctl'.secDelay = ctl.secDelay
         /\ ctl'.dst = ctl.dst
         /\ ctl'.state \in {"off", ctl.next}
         /\ UNCHANGED <<surface, master, irq>>
<1>1. ctl.state = "off" /\ UNCHANGED <<surface, master, irq>>
  BY DEF PowerTick
<1>2. [cyl |-> 0, sect |-> 0] \in Positions
  BY DriveAssumption DEF Positions
<1>3. CASE ctl.power + 1 < PON_DELAY
  <2>1. ctl' = [state |-> ctl.state, next |-> ctl.next, power |-> ctl.power + 1,
                nbSec |-> ctl.nbSec, secDelay |-> ctl.secDelay, head |-> ctl.head,
                dst |-> ctl.dst]
    BY <1>3 DEF PowerTick, Ctls
  <2>2. ctl.power + 1 \in 0 .. PON_DELAY
    BY <1>3, DriveAssumption DEF Ctls
  <2> QED BY <1>1, <2>1, <2>2 DEF Ctls
<1>4. CASE ~(ctl.power + 1 < PON_DELAY)
  <2>1. ctl' = [state |-> ctl.next, next |-> ctl.next, power |-> 0,
                nbSec |-> ctl.nbSec, secDelay |-> ctl.secDelay,
                head |-> [cyl |-> 0, sect |-> 0], dst |-> ctl.dst]
    BY <1>4 DEF PowerTick, Ctls
  <2>2. 0 \in 0 .. PON_DELAY
    BY DriveAssumption
  <2> QED BY <1>1, <1>2, <2>1, <2>2 DEF Ctls
<1> QED BY <1>3, <1>4

\* The parts of a tick of the disk that turns.
Delay    == ctl.secDelay - 1
Moves    == Delay = 1 /\ ctl.next \in Transfers
Leaves   == Delay <= 0
NextHead == [cyl  |-> Toward(ctl.head.cyl, ctl.dst.cyl),
             sect |-> IF Leaves THEN (ctl.head.sect + 1) % MaxSector ELSE ctl.head.sect]
Arrives  == ctl.next = "seek" /\ NextHead = ctl.dst
Ends     == Arrives \/ (Moves /\ ctl.nbSec <= 1)

\* The head stays on the disk, and on a cylinder it has reached.
LEMMA HeadMoves ==
  ASSUME ctl \in Ctls
  PROVE  /\ NextHead \in Positions
         /\ ctl.dst.cyl = ctl.head.cyl => NextHead.cyl = ctl.head.cyl
<1>1. /\ ctl.head.cyl \in 0 .. MaxCylinder - 1 /\ ctl.head.sect \in 0 .. MaxSector - 1
      /\ ctl.dst.cyl \in Nat
  BY DriveAssumption DEF Ctls, Ats, Addresses, Positions
<1>2. /\ Toward(ctl.head.cyl, ctl.dst.cyl) \in 0 .. MaxCylinder - 1
      /\ ctl.dst.cyl = ctl.head.cyl => Toward(ctl.head.cyl, ctl.dst.cyl) = ctl.head.cyl
  BY <1>1, DriveAssumption DEF Toward
<1>3. (ctl.head.sect + 1) % MaxSector \in 0 .. MaxSector - 1
  BY <1>1, DriveAssumption
<1> QED BY <1>1, <1>2, <1>3 DEF NextHead, Positions

\* and what a turn of the disk does with either.
LEMMA TurnSets ==
  ASSUME ctl \in Ctls, ctl.next \in Transfers => ctl.nbSec >= 0, TurnTick
  PROVE  /\ ctl.state # "off"
         /\ ctl' = [state |-> IF Ends THEN "idle" ELSE ctl.next,
                    next |-> IF Ends THEN "idle" ELSE ctl.next, power |-> ctl.power,
                    nbSec |-> IF Moves THEN ctl.nbSec - 1 ELSE ctl.nbSec,
                    secDelay |-> IF Leaves \/ Arrives THEN STPS ELSE Delay,
                    head |-> NextHead, dst |-> ctl.dst]
         /\ ctl' \in Ctls
         /\ surface' = IF Moves /\ ctl.next # "read"
                       THEN [surface EXCEPT ![ctl.head] = master] ELSE surface
         /\ master' = IF Moves /\ ctl.next = "read" THEN surface[ctl.head] ELSE master
         /\ irq' = (irq \/ Moves \/ Arrives)
<1> DEFINE s == IF Ends THEN "idle" ELSE ctl.next
           n == IF Moves THEN ctl.nbSec - 1 ELSE ctl.nbSec
           d == IF Leaves \/ Arrives THEN STPS ELSE Delay
<1>1. /\ ctl.state # "off"
      /\ ctl' = [ctl EXCEPT !.state = s, !.next = s, !.head = NextHead, !.secDelay = d,
                            !.nbSec = n]
      /\ surface' = IF Moves /\ ctl.next # "read"
                    THEN [surface EXCEPT ![ctl.head] = master] ELSE surface
      /\ master' = IF Moves /\ ctl.next = "read" THEN surface[ctl.head] ELSE master
      /\ irq' = (irq \/ Moves \/ Arrives)
  BY Zenon DEF TurnTick, Delay, Moves, Leaves, NextHead, Arrives, Ends
<1>2. s \in States /\ n \in -1 .. MaxSector /\ d \in 0 .. STPS
  BY DriveAssumption DEF Ctls, States, Moves, Leaves, Delay
<1> HIDE DEF s, n, d
<1>3. ctl' = [state |-> s, next |-> s, power |-> ctl.power, nbSec |-> n,
              secDelay |-> d, head |-> NextHead, dst |-> ctl.dst]
  BY <1>1 DEF Ctls
<1>4. ctl' \in Ctls
  BY <1>2, <1>3, HeadMoves DEF Ctls
<1> QED BY <1>1, <1>3, <1>4 DEF s, n, d

---------------------------------------------------------------------------
(* The invariant of the driver, however the ticks fall.                     *)

Fits ==
  /\ ctl \in Ctls /\ surface \in [Positions -> Payload] /\ master \in Payload
  /\ irq \in BOOLEAN /\ pc \in Pcs /\ req \in Requests /\ at \in Ats /\ left \in Nat
  /\ result \in Payload

\* The driver waits for the seek, for which the controller has the address.
SeekInv ==
  /\ ctl.next = "off" => pc = "idle" /\ ctl.state = "off"
  /\ ctl.next # "off" => ctl.dst = at
  /\ ctl.state = "off" => /\ ctl.next \in {"off", "seek"} /\ ~irq
                          /\ pc \in {"idle", "armSeek", "sleepSeek"}
  /\ pc \in {"armSeek", "sleepSeek"} => ctl.next \in {"seek", "idle"}

\* The seek is over: the head is on the cylinder the driver works on.
ThereInv ==
  (\/ pc = "sleepSeek" /\ irq
   \/ pc \in {"command", "armMove", "sleepMove", "finish"}
   \/ ctl.next \in Transfers) => ctl.head.cyl = at.cyl

\* The controller has the command of the request, or is done with it.
CommandInv ==
  /\ ctl.next \in Transfers => ctl.nbSec >= 0
  /\ pc \in {"armMove", "sleepMove", "finish"} => ctl.next \in {CommandOf(req), "idle"}

RequestInv ==
  /\ pc # "idle" /\ req.op # "format" => at = req.at
  /\ pc # "idle" /\ req.op = "format" => left >= 1

\* What a read has taken comes from the cylinder.
ReadInv ==
  Moved /\ req.op \in Reading =>
    \E p \in Positions : p.cyl = at.cyl /\ master = surface[p]

DriveInv == Fits /\ SeekInv /\ ThereInv /\ CommandInv /\ RequestInv /\ ReadInv

\* The fields of a request.
LEMMA RequestFields ==
  ASSUME NEW r \in Requests
  PROVE  /\ r.op \in {"read", "show", "write", "format"} /\ r.at \in Ats
         /\ r.op \notin Reading => r.data \in Payload
         /\ r.op = "format" => r.n \in Nat \ {0}
         /\ SectorCount(r) \in 0 .. MaxSector
         /\ CommandOf(r) \in Transfers
         /\ r.op \in Reading <=> CommandOf(r) = "read"
<1>1. [cyl |-> 0, sect |-> 0] \in Addresses
  BY DriveAssumption DEF Addresses
<1>2. MaxCylinder * MaxSector \in Nat \ {0}
  BY DriveAssumption
<1>3. [cyl : {0}, sect : {0}] \subseteq Addresses
  BY DriveAssumption DEF Addresses
<1>4. \A p \in Ats : p.sect \in 0 .. MaxSector - 1
  BY DriveAssumption DEF Ats, Addresses
<1>5. /\ r.op \in {"read", "show", "write", "format"} /\ r.at \in Ats
      /\ r.op \notin Reading => r.data \in Payload
      /\ r.op = "format" => r.n \in Nat \ {0}
  <2>1. CASE r \in [op : {"read"}, at : Targets] \cup [op : {"show"}, at : Targets]
    BY <2>1 DEF Reading, Ats
  <2>2. CASE r \in [op : {"write"}, at : Targets, data : Payload]
    BY <2>2 DEF Reading, Ats
  <2>3. CASE r \in [op : {"format"}, at : Targets, data : Payload, n : FormatCounts \cup {1}]
    <3>1. FormatCounts \cup {1} \subseteq Nat \ {0}
      BY DriveAssumption
    <3> QED BY <2>3, <3>1 DEF Reading, Ats
  <2>4. CASE r \in [op : {"format"}, at : [cyl : {0}, sect : {0}], data : Payload,
                   n : {MaxCylinder * MaxSector}]
    BY <1>2, <1>3, <2>4 DEF Reading, Ats
  <2> QED BY <2>1, <2>2, <2>3, <2>4 DEF Requests, DriverRequests, FrmtRequests
<1>6. SectorCount(r) \in 0 .. MaxSector
  BY <1>4, <1>5, DriveAssumption DEF SectorCount
<1> QED BY <1>5, <1>6 DEF CommandOf, Transfers, Reading

\* The drive starts switched off and unasked.
LEMMA DriveInvInit == DriveInit => DriveInv
<1> SUFFICES ASSUME DriveInit PROVE DriveInv
  OBVIOUS
<1>1. [cyl |-> 0, sect |-> 0] \in Positions /\ [cyl |-> 0, sect |-> 0] \in Ats
  BY DriveAssumption DEF Positions, Ats, Addresses
<1>2. ctl = [state |-> "off", next |-> "off", power |-> 0, nbSec |-> 0, secDelay |-> 0,
             head |-> [cyl |-> 0, sect |-> 0], dst |-> [cyl |-> 0, sect |-> 0]]
  BY DEF DriveInit
<1>3. ctl \in Ctls /\ ctl.state = "off" /\ ctl.next = "off"
  BY <1>1, <1>2, DriveAssumption DEF Ctls, States
<1>4. PICK d \in Payload : surface = [p \in Positions |-> d]
  BY DEF DriveInit
<1>5. surface \in [Positions -> Payload]
  BY <1>4
<1>6. req \in Requests /\ at \in Ats /\ pc = "idle" /\ irq = FALSE
  BY RequestFields DEF DriveInit
<1>7. Fits
  BY <1>3, <1>5, <1>6 DEF DriveInit, Fits, Pcs
<1> QED BY <1>3, <1>6, <1>7
        DEF DriveInv, SeekInv, ThereInv, CommandInv, RequestInv, ReadInv, Moved, Transfers

\* Every call, wake and tick keeps the invariant.
LEMMA DriveInvNext == DriveInv /\ [DriveNext]_driveVars => DriveInv'
<1> SUFFICES ASSUME DriveInv, [DriveNext]_driveVars PROVE DriveInv'
  OBVIOUS
<1>1. Fits /\ SeekInv /\ ThereInv /\ CommandInv /\ RequestInv /\ ReadInv
  BY DEF DriveInv
<1>2. ctl \in Ctls /\ ctl.state \in States /\ ctl.next \in States
  BY <1>1 DEF Fits, Ctls
<1>3. /\ req.op \in {"read", "show", "write", "format"}
      /\ req.op \notin Reading => req.data \in Payload
      /\ SectorCount(req) \in 0 .. MaxSector /\ CommandOf(req) \in Transfers
      /\ req.op \in Reading <=> CommandOf(req) = "read"
  BY <1>1, RequestFields DEF Fits
<1>4. ASSUME NEW p \in Ats, Seek(p)
      PROVE  /\ ctl' \in Ctls /\ ctl'.next = "seek" /\ ctl'.dst = p /\ ctl'.head = ctl.head
             /\ ctl'.state = ctl.state /\ ctl'.nbSec = ctl.nbSec
  BY <1>2, <1>4, SeekSets DEF Ctls, States
<1>5. ASSUME NEW r \in Requests, Call(r) PROVE DriveInv'
  <2>1. /\ r.at \in Ats /\ (r.op = "format" => r.n \in Nat \ {0})
    BY RequestFields
  <2>2. /\ pc = "idle" /\ req' = r /\ at' = r.at /\ pc' = "armSeek" /\ Seek(r.at)
        /\ left' = (IF r.op = "format" THEN r.n ELSE 1)
        /\ UNCHANGED <<surface, master, irq, result>>
    BY <1>5 DEF Call
  <2>3. /\ ctl' \in Ctls /\ ctl'.next = "seek" /\ ctl'.dst = r.at /\ ctl'.head = ctl.head
        /\ ctl'.state = ctl.state
    BY <1>4, <2>1, <2>2
  <2>4. Fits'
    BY <1>1, <2>1, <2>2, <2>3 DEF Fits, Pcs
  <2>5. SeekInv' /\ ThereInv' /\ CommandInv' /\ RequestInv' /\ ReadInv'
    BY <1>1, <2>1, <2>2, <2>3
       DEF SeekInv, ThereInv, CommandInv, RequestInv, ReadInv, Moved, Transfers
  <2> QED BY <2>4, <2>5 DEF DriveInv
<1>6. CASE Arm
  <2>1. /\ \/ pc = "armSeek" /\ pc' = "sleepSeek"
           \/ pc = "armMove" /\ pc' = "sleepMove"
        /\ irq' = FALSE
        /\ UNCHANGED <<ctl, surface, master, req, at, left, result>>
    BY <1>6 DEF Arm
  <2>2. Fits'
    BY <1>1, <2>1 DEF Fits, Pcs
  <2>3. SeekInv' /\ ThereInv' /\ CommandInv' /\ RequestInv' /\ ReadInv'
    BY <1>1, <2>1 DEF SeekInv, ThereInv, CommandInv, RequestInv, ReadInv, Moved, Transfers
  <2> QED BY <2>2, <2>3 DEF DriveInv
<1>7. CASE Wake
  <2>1. /\ irq
        /\ \/ pc = "sleepSeek" /\ pc' = "command"
           \/ pc = "sleepMove" /\ pc' = "finish"
        /\ UNCHANGED <<ctl, surface, master, irq, req, at, left, result>>
    BY <1>7 DEF Wake, diskVars
  <2>2. Fits'
    BY <1>1, <2>1 DEF Fits, Pcs
  <2>3. SeekInv' /\ ThereInv' /\ CommandInv' /\ RequestInv' /\ ReadInv'
    BY <1>1, <2>1 DEF SeekInv, ThereInv, CommandInv, RequestInv, ReadInv, Moved, Transfers
  <2> QED BY <2>2, <2>3 DEF DriveInv
<1>8. CASE Command
  <2>1. /\ pc = "command" /\ pc' = "armMove"
        /\ master' = (IF req.op \in Reading THEN master ELSE req.data)
        /\ UNCHANGED <<surface, irq, req, at, left, result>>
    BY <1>8 DEF Command
  <2>2. /\ ctl' = [state |-> ctl.state, next |-> CommandOf(req), power |-> ctl.power,
                   nbSec |-> SectorCount(req), secDelay |-> ctl.secDelay,
                   head |-> ctl.head, dst |-> ctl.dst]
    BY <1>2, <1>8, StartSets DEF Command
  <2>3. /\ ctl' \in Ctls /\ ctl'.next = CommandOf(req) /\ ctl'.nbSec >= 0
        /\ ctl'.head = ctl.head /\ ctl'.dst = ctl.dst /\ ctl'.state = ctl.state
    BY <1>2, <1>3, <2>2, DriveAssumption DEF Ctls, States
  <2>4. Fits'
    BY <1>1, <1>3, <2>1, <2>3 DEF Fits, Pcs
  <2>5. SeekInv' /\ ThereInv' /\ CommandInv' /\ RequestInv' /\ ReadInv'
    BY <1>1, <1>3, <2>1, <2>3
       DEF SeekInv, ThereInv, CommandInv, RequestInv, ReadInv, Moved, Transfers
  <2> QED BY <2>4, <2>5 DEF DriveInv
<1>9. CASE ReadDone \/ WriteDone
  <2>1. /\ pc = "finish" /\ pc' = "idle" /\ left' = 0 /\ result' \in {result, master}
        /\ UNCHANGED <<ctl, surface, master, irq, req, at>>
    BY <1>9 DEF ReadDone, WriteDone, diskVars
  <2>2. Fits'
    BY <1>1, <2>1 DEF Fits, Pcs
  <2>3. SeekInv' /\ ThereInv' /\ CommandInv' /\ RequestInv' /\ ReadInv'
    BY <1>1, <2>1 DEF SeekInv, ThereInv, CommandInv, RequestInv, ReadInv, Moved, Transfers
  <2> QED BY <2>2, <2>3 DEF DriveInv
<1>10. CASE FormatStep
  <2>1. /\ pc = "finish" /\ req.op = "format" /\ left' = left - 1
        /\ UNCHANGED <<surface, master, irq, req, result>>
    BY <1>10 DEF FormatStep
  <2>2. left >= 1 /\ left \in Nat /\ ctl.head.cyl = at.cyl
    BY <1>1, <2>1 DEF RequestInv, ThereInv, Fits
  <2>3. CASE left > 1
    <3>1. /\ at' = Following(at) /\ Seek(Following(at)) /\ pc' = "armSeek"
      BY <1>10, <2>3 DEF FormatStep
    <3>2. Following(at) \in Ats
      <4>1. /\ at.cyl \in 0 .. MaxCylinder - 1 /\ at.sect \in 0 .. MaxSector - 1
        BY <1>1, <1>2, <2>2, DriveAssumption DEF Fits, Ctls, Positions, Ats, Addresses
      <4>2. (at.sect + 1) % MaxSector \in 0 .. MaxSector - 1
        BY <4>1, DriveAssumption
      <4>3. Following(at) \in Addresses
        BY <4>1, <4>2, DriveAssumption DEF Following, Addresses
      <4> QED BY <4>3 DEF Ats
    <3>3. /\ ctl' \in Ctls /\ ctl'.next = "seek" /\ ctl'.dst = at' /\ ctl'.state = ctl.state
      BY <1>4, <3>1, <3>2
    <3>4. Fits'
      BY <1>1, <2>1, <2>2, <3>1, <3>2, <3>3 DEF Fits, Pcs
    <3>5. SeekInv' /\ ThereInv' /\ CommandInv' /\ RequestInv' /\ ReadInv'
      BY <1>1, <2>1, <2>2, <2>3, <3>1, <3>3
         DEF SeekInv, ThereInv, CommandInv, RequestInv, ReadInv, Moved, Transfers
    <3> QED BY <3>4, <3>5 DEF DriveInv
  <2>4. CASE ~(left > 1)
    <3>1. pc' = "idle" /\ UNCHANGED <<ctl, at>>
      BY <1>10, <2>4 DEF FormatStep
    <3>2. Fits'
      BY <1>1, <2>1, <2>2, <3>1 DEF Fits, Pcs
    <3>3. SeekInv' /\ ThereInv' /\ CommandInv' /\ RequestInv' /\ ReadInv'
      BY <1>1, <2>1, <3>1
         DEF SeekInv, ThereInv, CommandInv, RequestInv, ReadInv, Moved, Transfers
    <3> QED BY <3>2, <3>3 DEF DriveInv
  <2> QED BY <2>3, <2>4
<1>11. CASE Tick /\ PowerTick
  <2>1. /\ ctl.state = "off" /\ ctl' \in Ctls
        /\ ctl'.next = ctl.next /\ ctl'.nbSec = ctl.nbSec /\ ctl'.dst = ctl.dst
        /\ ctl'.state \in {"off", ctl.next}
        /\ UNCHANGED <<surface, master, irq>>
    BY <1>2, <1>11, PowerSets
  <2>2. ctl.next # "off" /\ UNCHANGED <<pc, req, at, left, result>>
    BY <1>11 DEF Tick, driverVars
  <2>3. Fits'
    BY <1>1, <2>1, <2>2 DEF Fits
  <2>4. SeekInv' /\ ThereInv' /\ CommandInv' /\ RequestInv' /\ ReadInv'
    BY <1>1, <2>1, <2>2
       DEF SeekInv, ThereInv, CommandInv, RequestInv, ReadInv, Moved, Transfers
  <2> QED BY <2>3, <2>4 DEF DriveInv
<1>12. CASE Tick /\ TurnTick
  <2>1. ctl.next # "off" /\ UNCHANGED <<pc, req, at, left, result>>
    BY <1>12 DEF Tick, driverVars
  <2>2. /\ ctl.state # "off" /\ ctl' \in Ctls
        /\ ctl' = [state |-> IF Ends THEN "idle" ELSE ctl.next,
                   next |-> IF Ends THEN "idle" ELSE ctl.next, power |-> ctl.power,
                   nbSec |-> IF Moves THEN ctl.nbSec - 1 ELSE ctl.nbSec,
                   secDelay |-> IF Leaves \/ Arrives THEN STPS ELSE Delay,
                   head |-> NextHead, dst |-> ctl.dst]
        /\ surface' = (IF Moves /\ ctl.next # "read"
                       THEN [surface EXCEPT ![ctl.head] = master] ELSE surface)
        /\ master' = (IF Moves /\ ctl.next = "read" THEN surface[ctl.head] ELSE master)
        /\ irq' = (irq \/ Moves \/ Arrives)
    BY <1>1, <1>2, <1>12, TurnSets DEF CommandInv
  <2>3. /\ ctl'.next \in {ctl.next, "idle"} /\ ctl'.state = ctl'.next
        /\ ctl'.head = NextHead /\ ctl'.dst = ctl.dst
        /\ ctl'.nbSec = (IF Moves THEN ctl.nbSec - 1 ELSE ctl.nbSec)
        /\ (ctl'.next # "idle" => ~Ends)
    BY <2>2
  <2> HIDE DEF Ends
  <2>4. ctl.dst = at /\ ctl.head \in Positions
    BY <1>1, <1>2, <2>1 DEF SeekInv, Ctls
  <2>5. NextHead.cyl = ctl.head.cyl \/ ctl.head.cyl # at.cyl
    BY <1>2, <2>4, HeadMoves
  <2>6. Fits'
    BY <1>1, <2>1, <2>2, <2>4 DEF Fits
  <2>7. SeekInv'
    BY <1>1, <2>1, <2>2, <2>3 DEF SeekInv
  <2>8. ThereInv'
    BY <1>1, <2>1, <2>2, <2>3, <2>4, <2>5
       DEF SeekInv, ThereInv, Arrives, Moves, Transfers
  <2>9. CommandInv' /\ RequestInv'
    BY <1>1, <1>2, <2>1, <2>3 DEF CommandInv, RequestInv, Ends, Moves, Ctls, Transfers
  <2>10. ReadInv'
    BY <1>1, <1>3, <2>1, <2>2, <2>3, <2>4
       DEF ReadInv, Moved, CommandInv, ThereInv, Moves, Arrives, Transfers
  <2> QED BY <2>6, <2>7, <2>8, <2>9, <2>10 DEF DriveInv
<1>13. CASE UNCHANGED driveVars
  BY <1>1, <1>13
     DEF driveVars, DriveInv, Fits, SeekInv, ThereInv, CommandInv, RequestInv, ReadInv, Moved
<1> QED BY <1>5, <1>6, <1>7, <1>8, <1>9, <1>10, <1>11, <1>12, <1>13
        DEF DriveNext, Driver, Tick

---------------------------------------------------------------------------
(* However the ticks fall (DriveSpec). *)

\* The invariant contains the type of the state.
LEMMA DriveInvTyped == DriveInv => DriveTypeOK
<1> SUFFICES ASSUME DriveInv PROVE DriveTypeOK
  OBVIOUS
<1>1. Fits
  BY DEF DriveInv
<1>2. 0 .. STPS \subseteq -1 .. STPS
  BY DriveAssumption
<1> QED BY <1>1, <1>2 DEF Fits, Ctls, States, Ats, Pcs, DriveTypeOK

\* The driver and the controller keep their types, whatever the size of the
\* disk and whenever the ticks fall: the head stays on the disk, and the count
\* of sectors above -1.
THEOREM DriveTyped == DriveSpec => []DriveTypeOK
<1> QED BY DriveInvInit, DriveInvNext, DriveInvTyped, PTL DEF DriveSpec

\* A step changes sectors of the requested cylinder only.
LEMMA CylinderStep ==
  ASSUME DriveInv, [DriveNext]_driveVars
  PROVE  [\A p \in Positions : surface'[p] # surface[p] => p.cyl = at.cyl]_driveVars
<1>1. CASE surface' = surface
  BY <1>1
<1>2. CASE Tick /\ surface' # surface
  <2>1. TurnTick
    BY <1>2 DEF Tick, PowerTick
  <2>2. ctl \in Ctls /\ (ctl.next \in Transfers => ctl.nbSec >= 0)
    BY DEF DriveInv, Fits, CommandInv
  <2>3. Moves /\ surface' = [surface EXCEPT ![ctl.head] = master]
    BY <1>2, <2>1, <2>2, TurnSets
  <2>4. ctl.head.cyl = at.cyl
    BY <2>3 DEF Moves, DriveInv, ThereInv
  <2>5. surface \in [Positions -> Payload]
    BY DEF DriveInv, Fits
  <2> QED BY <2>3, <2>4, <2>5
<1>3. \/ surface' = surface
      \/ Tick /\ surface' # surface
  BY DEF DriveNext, Driver, Call, Arm, Wake, Command, ReadDone, WriteDone, FormatStep,
         driveVars, diskVars
<1> QED BY <1>1, <1>2, <1>3

\* A sector changes only on the cylinder of the last request: a transfer that
\* goes on after write_sector returned never follows the head to the cylinder of
\* the next request, on a disk of any size, at any speed.
THEOREM CylinderKept == DriveSpec => CylinderOfRequest
<1> QED BY DriveInvInit, DriveInvNext, CylinderStep, PTL DEF DriveSpec, CylinderOfRequest

\* A read returns what a sector of its cylinder holds.
LEMMA ReadStep ==
  ASSUME DriveInv, [DriveNext]_driveVars
  PROVE  [pc = "finish" /\ pc' = "idle" /\ req.op \in Reading =>
            \E p \in Positions : p.cyl = req.at.cyl /\ result' = surface[p]]_driveVars
<1> SUFFICES ASSUME DriveNext, pc = "finish", pc' = "idle", req.op \in Reading
             PROVE  \E p \in Positions : p.cyl = req.at.cyl /\ result' = surface[p]
  OBVIOUS
<1>1. at = req.at /\ \E p \in Positions : p.cyl = at.cyl /\ master = surface[p]
  BY DEF DriveInv, RequestInv, ReadInv, Moved, Reading
<1>2. ReadDone
  BY DEF DriveNext, Driver, Call, Arm, Wake, Command, WriteDone, FormatStep, Tick,
         driverVars, Reading
<1> QED BY <1>1, <1>2 DEF ReadDone

\* However late the driver is, read_sector returns what a sector of the cylinder
\* it was asked for holds.
THEOREM ReadsCylinder == DriveSpec => ReadsItsCylinder
<1> QED BY DriveInvInit, DriveInvNext, ReadStep, PTL DEF DriveSpec, ReadsItsCylinder

---------------------------------------------------------------------------
(* With a prompt driver (PromptSpec): from the arrival of the head to the   *)
(* transfer the disk has not turned on, so that the sector of the transfer  *)
(* is the one the head was sent to.                                         *)

AsCommanded == ctl.next = CommandOf(req) /\ (req.op \notin Reading => master = req.data)

\* The head has come to the sector, which has just begun to pass.
ArrivedInv ==
  (pc = "sleepSeek" /\ irq) \/ pc \in {"command", "armMove"} =>
    ctl.head = at /\ ctl.secDelay = STPS

\* The transfer is to come, with the sector still under the head.
UnderHeadInv ==
  /\ pc = "armMove" => AsCommanded
  /\ pc = "sleepMove" /\ ~irq => AsCommanded /\ ctl.head = at /\ ctl.secDelay \in 2 .. STPS

\* The transfer has been.
LandedInv ==
  Moved =>
    /\ ctl.head = at
    /\ IF req.op \in Reading THEN master = surface[at] ELSE surface[at] = req.data

PromptInv == DriveInv /\ ArrivedInv /\ UnderHeadInv /\ LandedInv

\* PromptSpec makes no step that DriveSpec does not.
LEMMA PromptIsDrive == [PromptNext]_driveVars => [DriveNext]_driveVars
BY DEF PromptNext, DriveNext, PromptTick

\* Nothing is late before the first request.
LEMMA PromptInvInit == DriveInit => PromptInv
<1> SUFFICES ASSUME DriveInit PROVE PromptInv
  OBVIOUS
<1> QED BY DriveInvInit DEF DriveInit, PromptInv, ArrivedInv, UnderHeadInv, LandedInv, Moved

\* Without a tick between a seek and its command nothing ever is.
LEMMA PromptInvNext == PromptInv /\ [PromptNext]_driveVars => PromptInv'
<1> SUFFICES ASSUME PromptInv, [PromptNext]_driveVars PROVE PromptInv'
  OBVIOUS
<1> USE DEF ArrivedInv, UnderHeadInv, LandedInv, Moved
<1>1. DriveInv /\ DriveInv' /\ ArrivedInv /\ UnderHeadInv /\ LandedInv
  BY PromptIsDrive, DriveInvNext DEF PromptInv
<1>2. /\ ctl \in Ctls /\ surface \in [Positions -> Payload] /\ irq \in BOOLEAN /\ pc \in Pcs
      /\ req \in Requests
  BY <1>1 DEF DriveInv, Fits
<1>3. /\ req.op \in {"read", "show", "write", "format"}
      /\ CommandOf(req) \in Transfers
      /\ req.op \in Reading <=> CommandOf(req) = "read"
  BY <1>2, RequestFields
<1>4. ASSUME NEW r \in Requests, Call(r) PROVE PromptInv'
  BY <1>1, <1>4 DEF Call, PromptInv
<1>5. CASE Arm
  <2>1. 2 \in 2 .. STPS /\ STPS \in 2 .. STPS
    BY DriveAssumption
  <2> QED BY <1>1, <1>5, <2>1 DEF Arm, PromptInv, AsCommanded
<1>6. CASE Wake
  BY <1>1, <1>6 DEF Wake, diskVars, PromptInv
<1>7. CASE Command
  <2>1. ctl' = [state |-> ctl.state, next |-> CommandOf(req), power |-> ctl.power,
                nbSec |-> SectorCount(req), secDelay |-> ctl.secDelay,
                head |-> ctl.head, dst |-> ctl.dst]
    BY <1>2, <1>7, StartSets DEF Command
  <2> QED BY <1>1, <1>7, <2>1 DEF Command, PromptInv, AsCommanded, CommandOf
<1>8. CASE ReadDone \/ WriteDone
  BY <1>1, <1>8 DEF ReadDone, WriteDone, diskVars, PromptInv
<1>9. CASE FormatStep
  BY <1>1, <1>9 DEF FormatStep, PromptInv
<1>10. CASE PromptTick /\ PowerTick
  <2>1. pc \in {"idle", "sleepSeek"} /\ irq' = irq /\ UNCHANGED pc /\ ~irq
    BY <1>1, <1>2, <1>10, PowerSets
       DEF PromptTick, Tick, driverVars, DriveInv, SeekInv
  <2> QED BY <1>1, <2>1 DEF PromptInv
<1>11. CASE PromptTick /\ TurnTick
  <2>1. /\ pc = "idle" \/ (pc \in {"sleepSeek", "sleepMove"} /\ ~irq)
        /\ UNCHANGED <<pc, req, at, left, result>> /\ ctl.next # "off"
    BY <1>11 DEF PromptTick, Tick, driverVars
  <2>2. /\ ctl' = [state |-> IF Ends THEN "idle" ELSE ctl.next,
                   next |-> IF Ends THEN "idle" ELSE ctl.next, power |-> ctl.power,
                   nbSec |-> IF Moves THEN ctl.nbSec - 1 ELSE ctl.nbSec,
                   secDelay |-> IF Leaves \/ Arrives THEN STPS ELSE Delay,
                   head |-> NextHead, dst |-> ctl.dst]
        /\ surface' = (IF Moves /\ ctl.next # "read"
                       THEN [surface EXCEPT ![ctl.head] = master] ELSE surface)
        /\ master' = (IF Moves /\ ctl.next = "read" THEN surface[ctl.head] ELSE master)
        /\ irq' = (irq \/ Moves \/ Arrives)
    BY <1>1, <1>2, <1>11, TurnSets DEF DriveInv, CommandInv
  <2>3. ctl.dst = at /\ ctl.head \in Positions
    BY <1>1, <1>2, <2>1 DEF DriveInv, SeekInv, Ctls
  <2>4. CASE pc = "idle"
    BY <1>1, <2>1, <2>4 DEF PromptInv
  <2>5. CASE pc = "sleepSeek"
    <3>1. ctl.next \in {"seek", "idle"}
      BY <1>1, <2>5 DEF DriveInv, SeekInv
    <3>2. irq' => Arrives
      BY <2>1, <2>2, <2>5, <3>1 DEF Moves, Transfers
    <3>3. irq' => ctl'.head = at' /\ ctl'.secDelay = STPS
      BY <2>1, <2>2, <2>3, <3>2 DEF Arrives
    <3> QED BY <1>1, <2>1, <2>5, <3>3 DEF PromptInv
  <2>6. CASE pc = "sleepMove"
    <3>1. AsCommanded /\ ctl.head = at /\ ctl.secDelay \in 2 .. STPS /\ ~irq
      BY <1>1, <2>1, <2>6
    <3>2. ctl.next \in Transfers /\ ~Arrives /\ Delay \in 1 .. STPS /\ ~Leaves
      BY <1>3, <3>1, DriveAssumption DEF AsCommanded, Arrives, Transfers, Leaves, Delay
    <3>3. NextHead = at
      <4>1. NextHead = [cyl |-> Toward(ctl.head.cyl, ctl.dst.cyl), sect |-> ctl.head.sect]
        BY <3>2 DEF NextHead
      <4>2. Toward(ctl.head.cyl, ctl.dst.cyl) = ctl.head.cyl
        BY <2>3, <3>1, DriveAssumption DEF Toward, Positions
      <4> QED BY <2>3, <3>1, <4>1, <4>2 DEF Positions
    <3>4. CASE Moves
      <4>1. irq' /\ ctl'.head = at'
        BY <2>1, <2>2, <3>3, <3>4
      <4>2. IF req'.op \in Reading THEN master' = surface'[at'] ELSE surface'[at'] = req'.data
        BY <1>2, <1>3, <2>1, <2>2, <2>3, <3>1, <3>4 DEF AsCommanded
      <4> QED BY <1>1, <2>1, <2>6, <4>1, <4>2 DEF PromptInv
    <3>5. CASE ~Moves
      <4>1. Delay # 1 /\ ~Ends
        BY <3>2, <3>5 DEF Moves, Ends
      <4>2. ctl'.next = ctl.next /\ ctl'.secDelay = Delay /\ ctl'.head = at /\ ~irq'
        BY <2>1, <2>2, <3>1, <3>2, <3>3, <3>5, <4>1
      <4>3. Delay \in 2 .. STPS
        BY <3>2, <4>1, DriveAssumption
      <4>4. master' = master
        BY <2>2, <3>5
      <4> QED BY <1>1, <2>1, <2>6, <3>1, <4>2, <4>3, <4>4 DEF PromptInv, AsCommanded, CommandOf
    <3> QED BY <3>4, <3>5
  <2> QED BY <2>1, <2>4, <2>5, <2>6
<1>12. CASE UNCHANGED driveVars
  BY <1>1, <1>12 DEF driveVars, PromptInv, AsCommanded, CommandOf
<1> QED BY <1>4, <1>5, <1>6, <1>7, <1>8, <1>9, <1>10, <1>11, <1>12
        DEF PromptNext, Driver, PromptTick, Tick

\* A prompt read returns what its own sector holds.
LEMMA SectorStep ==
  ASSUME PromptInv, [PromptNext]_driveVars
  PROVE  [pc = "finish" /\ pc' = "idle" /\ req.op \in Reading =>
            result' = surface[req.at]]_driveVars
<1> SUFFICES ASSUME PromptNext, pc = "finish", pc' = "idle", req.op \in Reading
             PROVE  result' = surface[req.at]
  OBVIOUS
<1>1. at = req.at /\ master = surface[at]
  BY DEF PromptInv, LandedInv, Moved, DriveInv, RequestInv, Reading
<1>2. ReadDone
  BY DEF PromptNext, Driver, Call, Arm, Wake, Command, WriteDone, FormatStep, PromptTick,
         Tick, driverVars, Reading
<1> QED BY <1>1, <1>2 DEF ReadDone

\* read_sector returns what is on the sector it was asked for, though the disk
\* turns between its seek and its transfer, and goes on transferring the sectors
\* behind while MASTERBUFFER is copied: for every disk, at every speed of two
\* ticks a sector or more.
THEOREM ReadsSector == PromptSpec => ReadsItsSector
<1> QED BY PromptInvInit, PromptInvNext, SectorStep, PTL DEF PromptSpec, ReadsItsSector

\* A prompt write leaves its data in its own sector.
LEMMA WriteStep ==
  ASSUME PromptInv
  PROVE  [pc = "finish" /\ pc' # "finish" /\ req.op \notin Reading =>
            surface[at] = req.data]_driveVars
BY DEF PromptInv, LandedInv, Moved

\* When write_sector and each step of format_sector return, the sector holds the
\* new contents.
THEOREM WritesReachTheDisk == PromptSpec => WritesLand
<1> QED BY PromptInvInit, PromptInvNext, WriteStep, PTL DEF PromptSpec, WritesLand

---------------------------------------------------------------------------
(* The driver implements the store of sectors, as long as it answers.       *)

\* format_sector is at the sector the store changes next.
WalkInv ==
  pc # "idle" =>
    IF req.op = "format"
    THEN left \in 1 .. req.n /\ at = NthSector(req.at, req.n - left)
    ELSE left = 1

\* The controller has the count of the command.
CountInv ==
  pc = "armMove" \/ (pc = "sleepMove" /\ ~irq) => ctl.nbSec = SectorCount(req)

\* The sectors that were transferred, the one that was named included.
Passed == req.at.sect - ctl.nbSec

\* A transfer that goes on is a write, and comes to the sectors behind one by
\* one: the head is on the sector that comes next, or one before it when that has
\* just been transferred.
SpillInv ==
  (Moved \/ pc = "idle") /\ ctl.next \in {"write", "format"} =>
     /\ req.op = "write" /\ OnDisk(req) /\ at = req.at /\ master = req.data
     /\ ctl.nbSec >= 1 /\ Passed >= 1
     /\ ctl.secDelay >= 1
     /\ ctl.head.sect = (req.at.sect + Passed - (IF ctl.secDelay = 1 THEN 1 ELSE 0))
                          % MaxSector

StoreInv == PromptInv /\ WalkInv /\ CountInv /\ SpillInv

\* The address of a request, and the one behind it.
LEMMA NthNext ==
  ASSUME NEW p \in Ats, NEW n \in Nat
  PROVE  NthSector(p, 0) = p /\ NthSector(p, n + 1) = Following(NthSector(p, n))
<1> DEFINE line == p.cyl * MaxSector + p.sect
<1>1. p \in [cyl : Nat, sect : 0 .. MaxSector - 1] /\ MaxSector \in Nat \ {0}
  BY DriveAssumption DEF Ats, Addresses
<1>2. line = MaxSector * p.cyl + p.sect /\ line \in Nat
  BY <1>1, TimesNat
<1> HIDE DEF line
<1>3. line % MaxSector = p.sect /\ line \div MaxSector = p.cyl
  <2> DEFINE u == p.cyl
             r == p.sect
  <2>1. u \in Nat /\ r \in 0 .. MaxSector - 1 /\ MaxSector \in Nat \ {0}
    BY <1>1
  <2>2. line \in Nat /\ line = MaxSector * u + r
    BY <1>2
  <2> HIDE DEF u, r
  <2>3. line % MaxSector = r /\ line \div MaxSector = u
    BY <2>1, <2>2, DivModOnly
  <2> QED BY <2>3 DEF u, r
<1>4. NthSector(p, 0) = p
  <2>1. p.cyl * MaxSector + p.sect + 0 = line
    BY <1>1, <1>2 DEF line
  <2>2. NthSector(p, 0) = [cyl |-> line \div MaxSector, sect |-> line % MaxSector]
    BY <2>1 DEF NthSector
  <2> QED BY <1>1, <1>3, <2>2
<1>5. /\ (line + n + 1) % MaxSector = (((line + n) % MaxSector) + 1) % MaxSector
      /\ (line + n + 1) \div MaxSector =
           (IF ((line + n) % MaxSector) + 1 = MaxSector
            THEN ((line + n) \div MaxSector) + 1 ELSE (line + n) \div MaxSector)
  <2>1. line + n \in Nat
    BY <1>2
  <2> QED BY <1>1, <2>1, DivModNext
<1>6. /\ NthSector(p, n) = [cyl |-> (line + n) \div MaxSector, sect |-> (line + n) % MaxSector]
      /\ NthSector(p, n + 1) = [cyl  |-> (line + n + 1) \div MaxSector,
                                sect |-> (line + n + 1) % MaxSector]
  BY <1>1, <1>2 DEF NthSector, line
<1>7. NthSector(p, n + 1) = Following(NthSector(p, n))
  BY <1>5, <1>6 DEF Following
<1> QED BY <1>4, <1>7

\* A sector of the disk is counted within it.
LEMMA PositionOnDisk ==
  ASSUME NEW r \in Requests, r.op = "write", r.at \in Positions
  PROVE  OnDisk(r)
<1>1. /\ r.at.cyl \in 0 .. MaxCylinder - 1 /\ r.at.sect \in 0 .. MaxSector - 1
      /\ MaxSector \in Nat \ {0} /\ MaxCylinder \in Nat \ {0}
  BY DriveAssumption DEF Positions
<1>2. r.at.cyl * MaxSector <= (MaxCylinder - 1) * MaxSector
  BY <1>1
<1>3. (MaxCylinder - 1) * MaxSector = MaxCylinder * MaxSector - MaxSector
  BY <1>1
<1>4. r.at.cyl * MaxSector \in Nat /\ MaxCylinder * MaxSector \in Nat
  BY <1>1, TimesNat
<1> QED BY <1>1, <1>2, <1>3, <1>4 DEF OnDisk

\* The store and the disk start with the same sectors,
LEMMA StoreInvInit == DriveInit => StoreInv
BY PromptInvInit DEF DriveInit, StoreInv, WalkInv, CountInv, SpillInv

\* What is known of a request and its address in every state.
LEMMA StoreTypes ==
  ASSUME StoreInv
  PROVE  /\ ctl \in Ctls /\ ctl.head \in Positions /\ ctl.secDelay \in 0 .. STPS
         /\ ctl.nbSec \in Int
         /\ surface \in [Positions -> Payload] /\ irq \in BOOLEAN /\ pc \in Pcs
         /\ req \in Requests /\ req.op \in {"read", "show", "write", "format"}
         /\ req.at \in Ats /\ req.at.sect \in 0 .. MaxSector - 1 /\ left \in Nat
         /\ CommandOf(req) \in Transfers
         /\ (req.op \in Reading <=> CommandOf(req) = "read")
         /\ (req.op = "format" => req.n \in Nat \ {0})
<1>1. Fits
  BY DEF StoreInv, PromptInv, DriveInv
<1>2. \A p \in Ats : p.sect \in 0 .. MaxSector - 1
  BY DriveAssumption DEF Ats, Addresses
<1>3. ctl \in Ctls /\ ctl.head \in Positions /\ ctl.secDelay \in 0 .. STPS /\ ctl.nbSec \in Int
  BY <1>1, DriveAssumption DEF Fits, Ctls
<1>4. /\ req.op \in {"read", "show", "write", "format"} /\ req.at \in Ats
      /\ CommandOf(req) \in Transfers
      /\ (req.op \in Reading <=> CommandOf(req) = "read")
      /\ (req.op = "format" => req.n \in Nat \ {0})
  BY <1>1, RequestFields DEF Fits
<1> QED BY <1>1, <1>2, <1>3, <1>4 DEF Fits

\* and every step keeps them in agreement.
LEMMA StoreInvNext == StoreInv /\ [PromptNext]_driveVars => StoreInv'
<1> SUFFICES ASSUME StoreInv, [PromptNext]_driveVars PROVE WalkInv' /\ CountInv' /\ SpillInv'
  BY PromptInvNext DEF StoreInv
<1>1. PromptInv /\ DriveInv /\ WalkInv /\ CountInv /\ SpillInv /\ PromptInv'
  BY PromptInvNext DEF StoreInv, PromptInv
<1>2. /\ ctl \in Ctls /\ irq \in BOOLEAN /\ pc \in Pcs /\ req \in Requests
      /\ req.op \in {"read", "show", "write", "format"} /\ req.at \in Ats
      /\ req.at.sect \in 0 .. MaxSector - 1 /\ CommandOf(req) \in Transfers
      /\ (req.op \in Reading <=> CommandOf(req) = "read")
      /\ (req.op = "format" => req.n \in Nat \ {0})
  BY StoreTypes
<1>3. ASSUME NEW r \in Requests, Call(r) PROVE WalkInv' /\ CountInv' /\ SpillInv'
  <2>1. /\ pc' = "armSeek" /\ req' = r /\ at' = r.at
        /\ left' = (IF r.op = "format" THEN r.n ELSE 1)
    BY <1>3 DEF Call
  <2>2. r.at \in Ats /\ (r.op = "format" => r.n \in Nat \ {0})
    BY RequestFields
  <2>3. r.op = "format" => r.n \in 1 .. r.n /\ r.n - r.n = 0
    BY <2>2
  <2>4. NthSector(r.at, 0) = r.at
    BY <2>2, NthNext
  <2>5. WalkInv'
    BY <2>1, <2>3, <2>4 DEF WalkInv
  <2> QED BY <2>1, <2>5 DEF CountInv, SpillInv, Moved
<1>4. CASE Arm
  BY <1>1, <1>4 DEF Arm, WalkInv, CountInv, SpillInv, Moved, SectorCount
<1>5. CASE Wake
  BY <1>1, <1>5 DEF Wake, diskVars, WalkInv, CountInv, SpillInv, Moved, Passed, OnDisk
<1>6. CASE Command
  <2>1. ctl' = [state |-> ctl.state, next |-> CommandOf(req), power |-> ctl.power,
                nbSec |-> SectorCount(req), secDelay |-> ctl.secDelay,
                head |-> ctl.head, dst |-> ctl.dst]
    BY <1>2, <1>6, StartSets DEF Command
  <2> QED BY <1>1, <1>6, <2>1
          DEF Command, WalkInv, CountInv, SpillInv, Moved, SectorCount
<1>7. CASE ReadDone \/ WriteDone
  BY <1>1, <1>7 DEF ReadDone, WriteDone, diskVars, WalkInv, CountInv, SpillInv, Moved,
                    Passed, OnDisk
<1>8. CASE FormatStep
  <2>1. /\ pc = "finish" /\ req.op = "format" /\ left' = left - 1
        /\ UNCHANGED <<surface, master, irq, req, result>>
    BY <1>8 DEF FormatStep
  <2>2. left \in 1 .. req.n /\ at = NthSector(req.at, req.n - left) /\ req.n \in Nat
    BY <1>1, <1>2, <2>1 DEF WalkInv
  <2>3. ctl.next \notin {"write", "format"}
    BY <1>1, <2>1 DEF SpillInv, Moved
  <2>4. CASE left > 1
    <3>1. /\ at' = Following(at) /\ pc' = "armSeek"
      BY <1>8, <2>4 DEF FormatStep
    <3>2. req.n - left \in Nat /\ req.n - (left - 1) = (req.n - left) + 1
          /\ left - 1 \in 1 .. req.n
      BY <2>2, <2>4
    <3>3. at' = NthSector(req.at, (req.n - left) + 1)
      BY <1>2, <2>2, <3>1, <3>2, NthNext
    <3> QED BY <2>1, <3>1, <3>2, <3>3 DEF WalkInv, CountInv, SpillInv, Moved
  <2>5. CASE ~(left > 1)
    <3>1. pc' = "idle" /\ UNCHANGED ctl
      BY <1>8, <2>5 DEF FormatStep
    <3> QED BY <2>1, <2>3, <3>1 DEF WalkInv, CountInv, SpillInv, Moved
  <2> QED BY <2>4, <2>5
<1>9. CASE PromptTick /\ PowerTick
  <2>1. UNCHANGED <<pc, req, at, left, irq>> /\ pc \in {"idle", "armSeek", "sleepSeek"}
        /\ ctl'.next \in {"off", "seek"}
    BY <1>1, <1>2, <1>9, PowerSets DEF PromptTick, Tick, driverVars, DriveInv, SeekInv
  <2> QED BY <1>1, <2>1 DEF WalkInv, CountInv, SpillInv, Moved
<1>10. CASE PromptTick /\ TurnTick
  <2>1. /\ pc = "idle" \/ (pc \in {"sleepSeek", "sleepMove"} /\ ~irq)
        /\ UNCHANGED <<pc, req, at, left, result>> /\ ctl.next # "off"
    BY <1>10 DEF PromptTick, Tick, driverVars
  <2>2. /\ ctl' = [state |-> IF Ends THEN "idle" ELSE ctl.next,
                   next |-> IF Ends THEN "idle" ELSE ctl.next, power |-> ctl.power,
                   nbSec |-> IF Moves THEN ctl.nbSec - 1 ELSE ctl.nbSec,
                   secDelay |-> IF Leaves \/ Arrives THEN STPS ELSE Delay,
                   head |-> NextHead, dst |-> ctl.dst]
        /\ surface' = (IF Moves /\ ctl.next # "read"
                       THEN [surface EXCEPT ![ctl.head] = master] ELSE surface)
        /\ master' = (IF Moves /\ ctl.next = "read" THEN surface[ctl.head] ELSE master)
        /\ irq' = (irq \/ Moves \/ Arrives)
    BY <1>1, <1>2, <1>10, TurnSets DEF DriveInv, CommandInv
  <2>3. WalkInv'
    BY <1>1, <2>1 DEF WalkInv
  <2>4. CountInv'
    BY <1>1, <2>1, <2>2 DEF CountInv, SectorCount
  <2>5. SpillInv'
    <3> SUFFICES ASSUME Moved' \/ pc' = "idle", ctl'.next \in {"write", "format"}
                 PROVE  /\ req.op = "write" /\ OnDisk(req) /\ at = req.at
                        /\ master' = req.data
                        /\ ctl'.nbSec >= 1 /\ req.at.sect - ctl'.nbSec >= 1
                        /\ ctl'.secDelay >= 1
                        /\ ctl'.head.sect =
                             (req.at.sect + (req.at.sect - ctl'.nbSec)
                                - (IF ctl'.secDelay = 1 THEN 1 ELSE 0)) % MaxSector
      BY <2>1 DEF SpillInv, OnDisk, Passed
    <3>1. /\ ctl.next = ctl'.next /\ ~Ends /\ ~Arrives /\ ctl.next \in Transfers
          /\ master' = master
      BY <2>2 DEF Ends, Arrives, Transfers
    <3>2. /\ ctl'.nbSec = (IF Moves THEN ctl.nbSec - 1 ELSE ctl.nbSec)
          /\ ctl'.secDelay = (IF Leaves THEN STPS ELSE Delay)
          /\ ctl'.head.sect =
               (IF Leaves THEN (ctl.head.sect + 1) % MaxSector ELSE ctl.head.sect)
      BY <2>2, <3>1 DEF NextHead
    <3>3. /\ Moves <=> ctl.secDelay = 2
          /\ Leaves <=> ctl.secDelay <= 1
          /\ Delay = ctl.secDelay - 1 /\ ctl.secDelay \in Int /\ ctl.nbSec \in Int
          /\ Moves => ctl.nbSec >= 2
      BY <3>1, StoreTypes DEF Moves, Leaves, Delay, Ends
    <3>4. MaxSector \in Nat \ {0} /\ STPS \in Nat /\ STPS >= 2
      BY DriveAssumption
    <3>5. CASE pc = "idle"
      <4> DEFINE a == req.at.sect + Passed - (IF ctl.secDelay = 1 THEN 1 ELSE 0)
      <4>1. /\ req.op = "write" /\ OnDisk(req) /\ at = req.at /\ master = req.data
            /\ ctl.nbSec >= 1 /\ Passed >= 1 /\ ctl.secDelay >= 1
            /\ ctl.head.sect = a % MaxSector
        BY <1>1, <3>1, <3>5 DEF SpillInv
      <4>2. a \in Nat /\ (a + 1) % MaxSector = ((a % MaxSector) + 1) % MaxSector
        <5>1. a \in Nat
          BY <1>2, <3>3, <4>1 DEF Passed
        <5> QED BY <3>4, <5>1, DivModNext
      <4>3. CASE Moves
        <5>1. /\ ctl'.nbSec = ctl.nbSec - 1 /\ ctl'.secDelay = 1
              /\ ctl'.head.sect = a % MaxSector
              /\ ctl.secDelay = 2
          BY <3>2, <3>3, <4>1, <4>3
        <5>2. a = req.at.sect + (req.at.sect - ctl'.nbSec) - 1
          BY <1>2, <3>3, <5>1 DEF Passed
        <5> HIDE DEF a
        <5>3. ctl'.nbSec >= 1 /\ req.at.sect - ctl'.nbSec >= 1
          BY <1>2, <3>3, <4>1, <4>3, <5>1 DEF Passed
        <5> QED BY <3>1, <4>1, <5>1, <5>2, <5>3
      <4>4. CASE Leaves
        <5>1. /\ ctl'.nbSec = ctl.nbSec /\ ctl'.secDelay = STPS
              /\ ctl'.head.sect = ((a % MaxSector) + 1) % MaxSector
              /\ ctl.secDelay = 1
          BY <3>2, <3>3, <4>1, <4>4
        <5>2. a + 1 = req.at.sect + (req.at.sect - ctl'.nbSec) - 0
          BY <1>2, <3>3, <5>1 DEF Passed
        <5> HIDE DEF a
        <5> QED BY <3>1, <3>4, <4>1, <4>2, <5>1, <5>2 DEF Passed
      <4>5. CASE ~Moves /\ ~Leaves
        <5>1. /\ ctl'.nbSec = ctl.nbSec /\ ctl'.secDelay = ctl.secDelay - 1
              /\ ctl'.secDelay # 1 /\ ctl'.secDelay >= 1
              /\ ctl'.head.sect = a % MaxSector /\ ctl.secDelay # 1
          BY <3>2, <3>3, <4>1, <4>5
        <5>2. a = req.at.sect + (req.at.sect - ctl'.nbSec) - 0
          BY <1>2, <3>3, <5>1 DEF Passed
        <5> HIDE DEF a
        <5> QED BY <3>1, <4>1, <5>1, <5>2 DEF Passed
      <4> QED BY <4>3, <4>4, <4>5
    <3>6. CASE pc # "idle"
      <4>1. pc = "sleepMove" /\ ~irq /\ irq'
        BY <2>1, <3>6 DEF Moved
      <4>2. Moves
        BY <1>2, <2>2, <3>1, <4>1
      <4>3. /\ ctl.next = CommandOf(req) /\ (req.op \notin Reading => master = req.data)
            /\ ctl.head = at /\ ctl.nbSec = SectorCount(req)
        BY <1>1, <4>1 DEF PromptInv, UnderHeadInv, AsCommanded, CountInv
      <4>4. req.op = "write" /\ ctl.nbSec = req.at.sect
        BY <1>2, <3>1, <3>3, <4>2, <4>3 DEF SectorCount, CommandOf
      <4>5. at = req.at /\ master = req.data
        BY <1>1, <4>1, <4>3, <4>4 DEF DriveInv, RequestInv, Reading
      <4>6. OnDisk(req)
        BY <1>2, <4>3, <4>4, <4>5, StoreTypes, PositionOnDisk
      <4>7. /\ ctl'.nbSec = req.at.sect - 1 /\ ctl'.secDelay = 1
            /\ ctl'.head.sect = req.at.sect /\ req.at.sect >= 2
        BY <3>2, <3>3, <4>2, <4>3, <4>4, <4>5
      <4>8. req.at.sect % MaxSector = req.at.sect
        BY <1>2, <3>4
      <4>9. req.at.sect = req.at.sect + (req.at.sect - ctl'.nbSec) - 1
        BY <1>2, <4>7
      <4> QED BY <1>2, <3>1, <4>4, <4>5, <4>6, <4>7, <4>8, <4>9
    <3> QED BY <3>5, <3>6
  <2> QED BY <2>3, <2>4, <2>5
<1>11. CASE UNCHANGED driveVars
  BY <1>1, <1>11 DEF driveVars, WalkInv, CountInv, SpillInv, Moved, Passed, OnDisk, SectorCount
<1> QED BY <1>3, <1>4, <1>5, <1>6, <1>7, <1>8, <1>9, <1>10, <1>11
        DEF PromptNext, Driver, PromptTick, Tick

\* The state of the store.
LastMade == IF ctl.next = "off" THEN {} ELSE {req}
Busy     == pc # "idle"
ToDo     == IF pc = "idle" \/ req.op \in Reading THEN 0
            ELSE IF Moved THEN left - 1 ELSE left

\* The steps of the store, in the state of the driver.
LEMMA StoreActs ==
  /\ Store!StoreInit <=> /\ surface \in {[s \in Positions |-> d] : d \in Payload}
                         /\ LastMade = {} /\ Busy = FALSE /\ ToDo = 0 /\ result \in Payload
  /\ Store!Begin <=> /\ ~Busy
                     /\ \E r \in Requests : LastMade' = {r} /\ ToDo' = Store!Count(r)
                     /\ Busy' = TRUE
                     /\ UNCHANGED <<surface, result>>
  /\ Store!Change <=> /\ ToDo > 0
                      /\ \E r \in LastMade :
                           LET s == NthSector(r.at, Store!Count(r) - ToDo)
                           IN  s \in Positions /\ surface' = [surface EXCEPT ![s] = r.data]
                      /\ ToDo' = ToDo - 1
                      /\ UNCHANGED <<LastMade, Busy, result>>
  /\ Store!Spill <=> /\ ToDo = 0
                     /\ \E r \in LastMade : \E s \in SectorsBehind(r) :
                          surface' = [surface EXCEPT ![s] = r.data]
                     /\ UNCHANGED <<LastMade, Busy, ToDo, result>>
  /\ Store!Finish <=> /\ Busy
                      /\ ToDo = 0
                      /\ \E r \in LastMade :
                           IF Store!Reads(r) THEN r.at \in Positions /\ result' = surface[r.at]
                                             ELSE result' = result
                      /\ Busy' = FALSE
                      /\ UNCHANGED <<surface, LastMade, ToDo>>
  /\ UNCHANGED <<surface, LastMade, Busy, ToDo, result>> =>
       UNCHANGED Store!storeVars
BY Zenon DEF Store!StoreInit, Store!Begin, Store!Change, Store!Spill, Store!Finish,
             Store!storeVars, LastMade, Busy, ToDo

Still == UNCHANGED <<surface, LastMade, Busy, ToDo, result>>

\* Every step of the driver and the controller is one of the store, or none.
LEMMA StoreSimulated ==
  ASSUME StoreInv, [PromptNext]_driveVars
  PROVE  Store!Begin \/ Store!Change \/ Store!Spill \/ Store!Finish \/ Still
<1>1. PromptInv /\ DriveInv /\ WalkInv /\ CountInv /\ SpillInv
  BY DEF StoreInv, PromptInv
<1>2. /\ ctl \in Ctls /\ irq \in BOOLEAN /\ pc \in Pcs /\ req \in Requests
      /\ ctl.head \in Positions
      /\ req.op \in {"read", "show", "write", "format"} /\ req.at \in Ats
      /\ CommandOf(req) \in Transfers /\ left \in Nat
      /\ (req.op \in Reading <=> CommandOf(req) = "read")
      /\ (req.op = "format" => req.n \in Nat \ {0})
  BY StoreTypes
<1>3. Store!Reads(req) <=> req.op \in Reading
  BY DEF Store!Reads, Reading
<1>4. /\ pc # "idle" => ctl.next # "off"
      /\ ctl.next # "off" => LastMade = {req}
  BY <1>1 DEF DriveInv, SeekInv, LastMade
<1>5. ASSUME NEW r \in Requests, Call(r) PROVE Store!Begin
  <2>1. /\ pc = "idle" /\ pc' = "armSeek" /\ req' = r
        /\ left' = (IF r.op = "format" THEN r.n ELSE 1)
        /\ UNCHANGED <<surface, result>> /\ Seek(r.at)
    BY <1>5 DEF Call
  <2>2. ctl'.next = "seek"
    BY <1>2, <2>1, SeekSets
  <2>3. r.op \in {"read", "show", "write", "format"}
    BY RequestFields
  <2>4. LastMade' = {r} /\ ToDo' = Store!Count(r)
    BY <2>1, <2>2, <2>3 DEF LastMade, ToDo, Moved, Store!Count, Store!Reads, Reading
  <2> QED BY <2>1, <2>4, StoreActs DEF Busy
<1>6. CASE Arm \/ Wake
  <2>1. /\ UNCHANGED <<ctl, surface, req, left, result>> /\ pc # "idle" /\ pc' # "idle"
        /\ Moved' <=> Moved
    BY <1>2, <1>6 DEF Arm, Wake, diskVars, Moved, Pcs
  <2> QED BY <2>1 DEF Still, LastMade, Busy, ToDo
<1>7. CASE Command
  <2>1. /\ UNCHANGED <<surface, req, left, result>> /\ pc = "command" /\ pc' = "armMove"
        /\ Start(CommandOf(req), SectorCount(req))
    BY <1>7 DEF Command
  <2>2. ctl'.next \in Transfers
    BY <1>2, <2>1, StartSets
  <2> QED BY <1>4, <2>1, <2>2 DEF Still, LastMade, Busy, ToDo, Moved, Transfers
<1>8. CASE ReadDone
  <2>1. /\ pc = "finish" /\ pc' = "idle" /\ req.op \in Reading /\ result' = master
        /\ UNCHANGED <<ctl, surface, req>>
    BY <1>8 DEF ReadDone, diskVars
  <2>2. master = surface[req.at] /\ req.at \in Positions
    BY <1>1, <1>2, <2>1
       DEF PromptInv, LandedInv, Moved, DriveInv, RequestInv, Reading
  <2>3. LastMade = {req} /\ LastMade' = {req} /\ ToDo = 0 /\ ToDo' = 0
    BY <1>4, <2>1 DEF LastMade, ToDo
  <2> QED BY <1>3, <2>1, <2>2, <2>3, StoreActs DEF Busy
<1>9. CASE WriteDone
  <2>1. /\ pc = "finish" /\ pc' = "idle" /\ req.op = "write"
        /\ UNCHANGED <<ctl, surface, req, result>>
    BY <1>9 DEF WriteDone, diskVars
  <2>2. left = 1
    BY <1>1, <2>1 DEF WalkInv
  <2>3. LastMade = {req} /\ LastMade' = {req} /\ ToDo = 0 /\ ToDo' = 0
    BY <1>4, <2>1, <2>2 DEF LastMade, ToDo, Moved, Reading
  <2> QED BY <1>3, <2>1, <2>3, StoreActs DEF Busy, Reading
<1>10. CASE FormatStep
  <2>1. /\ pc = "finish" /\ req.op = "format" /\ left' = left - 1
        /\ UNCHANGED <<surface, req, result>>
    BY <1>10 DEF FormatStep
  <2>2. left >= 1
    BY <1>1, <1>2, <2>1 DEF DriveInv, RequestInv
  <2>3. CASE left > 1
    <3>1. Seek(Following(at)) /\ pc' = "armSeek"
      BY <1>10, <2>3 DEF FormatStep
    <3>2. ctl'.next = "seek"
      BY <1>2, <3>1, SeekSets
    <3> QED BY <1>4, <2>1, <3>1, <3>2 DEF Still, LastMade, Busy, ToDo, Moved, Reading
  <2>4. CASE ~(left > 1)
    <3>1. pc' = "idle" /\ UNCHANGED ctl
      BY <1>10, <2>4 DEF FormatStep
    <3>2. LastMade = {req} /\ LastMade' = {req} /\ ToDo = 0 /\ ToDo' = 0
      BY <1>2, <1>4, <2>1, <2>2, <2>4, <3>1 DEF LastMade, ToDo, Moved, Reading
    <3> QED BY <1>3, <2>1, <3>1, <3>2, StoreActs DEF Busy, Reading
  <2> QED BY <2>3, <2>4
<1>11. CASE PromptTick /\ PowerTick
  <2>1. UNCHANGED <<pc, req, left, irq, result, surface>> /\ ctl'.next = ctl.next
    BY <1>2, <1>11, PowerSets DEF PromptTick, Tick, driverVars
  <2> QED BY <2>1 DEF Still, LastMade, Busy, ToDo, Moved
<1>12. CASE PromptTick /\ TurnTick
  <2>1. /\ pc = "idle" \/ (pc \in {"sleepSeek", "sleepMove"} /\ ~irq)
        /\ UNCHANGED <<pc, req, at, left, result>> /\ ctl.next # "off"
    BY <1>12 DEF PromptTick, Tick, driverVars
  <2>2. /\ ctl'.next \in {ctl.next, "idle"}
        /\ surface' = (IF Moves /\ ctl.next # "read"
                       THEN [surface EXCEPT ![ctl.head] = master] ELSE surface)
        /\ irq' = (irq \/ Moves \/ Arrives)
    BY <1>1, <1>2, <1>12, TurnSets DEF DriveInv, CommandInv
  <2>3. LastMade = {req} /\ LastMade' = {req} /\ Busy' = Busy
    BY <1>4, <2>1, <2>2 DEF LastMade, Busy
  <2>4. CASE pc = "idle"
    <3>1. ToDo = 0 /\ ToDo' = 0
      BY <2>1, <2>4 DEF ToDo
    <3>2. CASE Moves /\ ctl.next # "read"
      <4>1. ctl.next \in {"write", "format"} /\ ctl.secDelay = 2
        BY <3>2, StoreTypes DEF Moves, Delay, Transfers
      <4>2. /\ req.op = "write" /\ OnDisk(req) /\ at = req.at /\ master = req.data
            /\ ctl.nbSec >= 1 /\ Passed >= 1
            /\ ctl.head.sect = (req.at.sect + Passed - 0) % MaxSector
        BY <1>1, <2>4, <4>1 DEF SpillInv
      <4>3. /\ Passed \in 1 .. req.at.sect - 1
            /\ ctl.head.sect = (req.at.sect + Passed) % MaxSector
        BY <4>2, StoreTypes DEF Passed
      <4>4. ctl.head.cyl = req.at.cyl
        BY <1>1, <4>1, <4>2 DEF DriveInv, ThereInv, Transfers
      <4>5. ctl.head = [req.at EXCEPT !.sect = (@ + Passed) % MaxSector]
        <5>1. /\ req.at \in [cyl : Nat, sect : 0 .. MaxSector - 1]
              /\ ctl.head = [cyl |-> ctl.head.cyl, sect |-> ctl.head.sect]
          BY <1>2, DriveAssumption DEF Positions, Ats, Addresses
        <5>2. [req.at EXCEPT !.sect = (@ + Passed) % MaxSector]
                = [cyl |-> req.at.cyl, sect |-> (req.at.sect + Passed) % MaxSector]
          BY <5>1
        <5> QED BY <4>3, <4>4, <5>1, <5>2
      <4>6. ctl.head \in SectorsBehind(req)
        BY <4>2, <4>3, <4>5 DEF SectorsBehind
      <4>7. surface' = [surface EXCEPT ![ctl.head] = req.data]
        BY <2>2, <3>2, <4>2
      <4> QED BY <2>1, <2>3, <3>1, <4>6, <4>7, StoreActs
    <3>3. CASE ~(Moves /\ ctl.next # "read")
      BY <2>1, <2>2, <2>3, <3>1, <3>3 DEF Still
    <3> QED BY <3>2, <3>3
  <2>5. CASE pc = "sleepSeek"
    <3>1. ~Moves
      BY <1>1, <2>5 DEF DriveInv, SeekInv, Moves, Transfers
    <3>2. ToDo' = ToDo
      BY <2>1, <2>5 DEF ToDo, Moved
    <3> QED BY <2>1, <2>2, <2>3, <3>1, <3>2 DEF Still
  <2>6. CASE pc = "sleepMove"
    <3>1. AsCommanded /\ ctl.head = at /\ ~irq
      BY <1>1, <2>1, <2>6 DEF PromptInv, UnderHeadInv
    <3>2. ~Arrives
      BY <1>2, <3>1 DEF AsCommanded, Arrives, Transfers
    <3>3. CASE req.op \in Reading
      <4>1. ctl.next = "read" /\ ToDo = 0 /\ ToDo' = 0
        BY <1>2, <2>1, <3>1, <3>3 DEF AsCommanded, ToDo
      <4> QED BY <2>1, <2>2, <2>3, <4>1 DEF Still
    <3>4. CASE req.op \notin Reading /\ ~Moves
      <4>1. ToDo' = ToDo
        BY <2>1, <2>2, <2>6, <3>1, <3>2, <3>4 DEF ToDo, Moved
      <4> QED BY <2>1, <2>2, <2>3, <3>4, <4>1 DEF Still
    <3>5. CASE req.op \notin Reading /\ Moves
      <4>1. ctl.next # "read" /\ master = req.data
        BY <1>2, <3>1, <3>5 DEF AsCommanded
      <4>2. surface' = [surface EXCEPT ![at] = req.data] /\ at \in Positions
        BY <1>2, <2>2, <3>1, <3>5, <4>1
      <4>3. ToDo = left /\ ToDo' = left - 1
        BY <2>1, <2>2, <2>6, <3>1, <3>5 DEF ToDo, Moved
      <4>4. left > 0 /\ at = NthSector(req.at, Store!Count(req) - left)
        <5>1. CASE req.op = "format"
          BY <1>1, <1>2, <2>6, <5>1 DEF WalkInv, Store!Count, Store!Reads
        <5>2. CASE req.op = "write"
          <6>1. left = 1 /\ at = req.at /\ Store!Count(req) = 1
            BY <1>1, <2>6, <5>2
               DEF WalkInv, DriveInv, RequestInv, Store!Count, Store!Reads
          <6>2. NthSector(req.at, 0) = req.at
            BY <1>2, NthNext
          <6> QED BY <6>1, <6>2
        <5> QED BY <1>2, <3>5, <5>1, <5>2 DEF Reading
      <4> QED BY <2>1, <2>3, <4>2, <4>3, <4>4, StoreActs
    <3> QED BY <3>3, <3>4, <3>5
  <2> QED BY <2>1, <2>4, <2>5, <2>6
<1>13. CASE UNCHANGED driveVars
  BY <1>13 DEF driveVars, Still, LastMade, Busy, ToDo, Moved
<1> QED BY <1>5, <1>6, <1>7, <1>8, <1>9, <1>10, <1>11, <1>12, <1>13
        DEF PromptNext, Driver, PromptTick, Tick

\* The initial states are initial states of the store,
LEMMA StoreInitial == DriveInit => Store!StoreInit
<1> SUFFICES ASSUME DriveInit PROVE Store!StoreInit
  OBVIOUS
<1>1. /\ surface \in {[s \in Positions |-> d] : d \in Payload}
      /\ ctl.next = "off" /\ pc = "idle" /\ result \in Payload
  BY DEF DriveInit
<1>2. LastMade = {} /\ Busy = FALSE /\ ToDo = 0
  BY <1>1 DEF LastMade, Busy, ToDo
<1> QED BY <1>1, <1>2, StoreActs

\* and every step is a step of the store, or none.
LEMMA StoreSteps ==
  ASSUME StoreInv, [PromptNext]_driveVars
  PROVE  [Store!StoreNext]_(Store!storeVars)
BY StoreSimulated, StoreActs DEF Still, Store!StoreNext

\* drive.c and the turning disk are a store of sectors (the safety part of
\* ImplementsStore): a read answers with what the sector holds, a write and a
\* format change their sectors, in order, and only a write reaches others, those
\* of SectorsBehind, until the next request.
THEOREM DriveActsAsStore ==
  PromptSpec => Store!StoreInit /\ [][Store!StoreNext]_(Store!storeVars)
<1> QED BY StoreInvInit, StoreInvNext, StoreInitial, StoreSteps, PTL DEF PromptSpec
=============================================================================
