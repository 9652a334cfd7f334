------------------------------- MODULE Drive -------------------------------
(***************************************************************************)
(* drive.c, one request at a time, against the disk it drives.             *)
(*                                                                         *)
(* The disk and the processor are simulated by libhardware, which is in    *)
(* the repository as an archive only: the controller (Tick and the effect  *)
(* of a command) is the external part of the model.  It turns all the      *)
(* time: a transfer takes the sector that is under the head.  The          *)
(* simulation advances in ticks of a timer signal, at any instruction of   *)
(* the driver.                                                             *)
(***************************************************************************)
EXTENDS Integers

CONSTANTS
  MaxCylinder, MaxSector,   \* HDA_MAXCYLINDER, HDA_MAXSECTOR
  STPS,                     \* ticks per sector (HDA_STPS)
  PON_DELAY,                \* ticks to power on (HDA_PON_DELAY)
  Payload,                  \* contents of a sector
  Targets,                  \* the addresses requests are made for
  FormatCounts              \* sizes of the ranges format_sector is called for

ASSUME DriveAssumption ==
  /\ MaxCylinder \in Nat \ {0} /\ MaxSector \in Nat \ {0}
  /\ STPS \in Nat \ {0, 1} /\ PON_DELAY \in Nat
  /\ FormatCounts \subseteq Nat \ {0}
  /\ Targets \subseteq [cyl : Nat, sect : 0 .. MaxSector - 1]

VARIABLES
  ctl,          \* the controller
  surface,      \* the sectors
  master,       \* MASTERBUFFER
  irq,          \* HDA_IRQ was delivered since the driver armed its sleep
  pc,           \* where the driver is
  req,          \* the request it works on
  at,           \* the sector it addresses; format_sector walks it
  left,         \* the sectors format_sector has left
  result        \* what read_sector returned last

diskVars   == <<ctl, surface, master, irq>>
driverVars == <<pc, req, at, left, result>>
driveVars  == <<ctl, surface, master, irq, pc, req, at, left, result>>

Positions == [cyl : 0 .. MaxCylinder - 1, sect : 0 .. MaxSector - 1]

DriverRequests ==
  [op : {"read"}, at : Targets]
    \cup [op : {"write"}, at : Targets, data : Payload]
    \cup [op : {"format"}, at : Targets, data : Payload, n : FormatCounts]

\* frmt.c has a sequence of commands of its own, that of a step of format_sector,
\* for one sector or all, and shows what it read.
FrmtRequests ==
  [op : {"show"}, at : Targets]
    \cup [op : {"format"}, at : Targets, data : Payload, n : {1}]
    \cup [op : {"format"}, at : [cyl : {0}, sect : {0}], data : Payload,
          n : {MaxCylinder * MaxSector}]

Requests == DriverRequests \cup FrmtRequests

Reading == {"read", "show"}

Transfers == {"read", "write", "format"}

---------------------------------------------------------------------------
(* The controller. *)

\* A command takes effect at the next tick; a new one replaces an old one that
\* still runs.
Seek(p) == ctl' = [ctl EXCEPT !.next = "seek", !.dst = p]

Start(cmd, count) == ctl' = [ctl EXCEPT !.next = cmd, !.nbSec = count]

\* The head stops at the last cylinder: a seek behind it does not end.
Toward(cyl, dst) ==
  IF cyl < dst /\ cyl < MaxCylinder - 1 THEN cyl + 1 ELSE IF cyl > dst THEN cyl - 1 ELSE cyl

PowerTick ==
  /\ ctl.state = "off"
  /\ ctl' = IF ctl.power + 1 < PON_DELAY
            THEN [ctl EXCEPT !.power = @ + 1]
            ELSE [ctl EXCEPT !.power = 0, !.state = ctl.next,
                             !.head = [cyl |-> 0, sect |-> 0]]
  /\ UNCHANGED <<surface, master, irq>>

\* One tick before the head leaves a sector the controller transfers it, and
\* interrupts for every sector of a transfer.  One cylinder per tick.
TurnTick ==
  /\ ctl.state # "off"
  /\ LET delay   == ctl.secDelay - 1
         moves   == delay = 1 /\ ctl.next \in Transfers
         leaves  == delay <= 0
         sect    == IF leaves THEN (ctl.head.sect + 1) % MaxSector ELSE ctl.head.sect
         head    == [cyl |-> Toward(ctl.head.cyl, ctl.dst.cyl), sect |-> sect]
         arrives == ctl.next = "seek" /\ head = ctl.dst
         ends    == arrives \/ (moves /\ ctl.nbSec <= 1)
         state   == IF ends THEN "idle" ELSE ctl.next
     IN  /\ ctl' = [ctl EXCEPT !.state = state, !.next = state, !.head = head,
                               !.secDelay = IF leaves \/ arrives THEN STPS ELSE delay,
                               !.nbSec = IF moves THEN @ - 1 ELSE @]
         /\ surface' = IF moves /\ ctl.next # "read"
                       THEN [surface EXCEPT ![ctl.head] = master] ELSE surface
         /\ master' = IF moves /\ ctl.next = "read" THEN surface[ctl.head] ELSE master
         /\ irq' = (irq \/ moves \/ arrives)

\* Until the first command the disk is off, and stays so.
Tick ==
  /\ ctl.next # "off"
  /\ PowerTick \/ TurnTick
  /\ UNCHANGED driverVars

---------------------------------------------------------------------------
(* The driver.  _sleep(HDA_IRQ) forgets the interrupts there were (Arm) and *)
(* returns when there is one (Wake).                                        *)

DriveInit ==
  /\ ctl = [state |-> "off", next |-> "off", power |-> 0, nbSec |-> 0, secDelay |-> 0,
            head |-> [cyl |-> 0, sect |-> 0], dst |-> [cyl |-> 0, sect |-> 0]]
  /\ surface \in {[p \in Positions |-> d] : d \in Payload}
  /\ master \in Payload
  /\ irq = FALSE
  /\ pc = "idle"
  /\ req \in {r \in Requests : r.op = "read"}
  /\ at = req.at
  /\ left = 0
  /\ result = master

\* Mutant: the head stays on the cylinder it is on.
CallSectorOnly(r) ==
  /\ pc = "idle"
  /\ req' = r
  /\ at' = r.at
  /\ left' = IF r.op = "format" THEN r.n ELSE 1
  /\ Seek([cyl |-> ctl.dst.cyl, sect |-> r.at.sect])
  /\ pc' = "armSeek"
  /\ UNCHANGED <<surface, master, irq, result>>

\* do_seek up to its _sleep, called from read_sector, write_sector and
\* format_sector.
Call(r) ==
  /\ pc = "idle"
  /\ req' = r
  /\ at' = r.at
  /\ left' = IF r.op = "format" THEN r.n ELSE 1
  /\ Seek(r.at)
  /\ pc' = "armSeek"
  /\ UNCHANGED <<surface, master, irq, result>>

Arm ==
  /\ \/ pc = "armSeek" /\ pc' = "sleepSeek"
     \/ pc = "armMove" /\ pc' = "sleepMove"
  /\ irq' = FALSE
  /\ UNCHANGED <<ctl, surface, master, req, at, left, result>>

\* Mutant: the second _sleep returns at any time.
WakeEarly ==
  /\ \/ irq /\ pc = "sleepSeek" /\ pc' = "command"
     \/ pc = "sleepMove" /\ pc' = "finish"
  /\ UNCHANGED <<diskVars, req, at, left, result>>

Wake ==
  /\ irq
  /\ \/ pc = "sleepSeek" /\ pc' = "command"
     \/ pc = "sleepMove" /\ pc' = "finish"
  /\ UNCHANGED <<diskVars, req, at, left, result>>

\* Mutant: the number of the sector, counted from 1.
SectorCountFromOne(r) == IF r.op \in {"format", "show"} THEN 1 ELSE r.at.sect + 1

\* read_sector and write_sector pass the number of the sector to do_read and
\* do_write, which put it where the controller expects the number of sectors.
SectorCount(r) == IF r.op \in {"format", "show"} THEN 1 ELSE r.at.sect

CommandOf(r) == IF r.op = "show" THEN "read" ELSE r.op

\* Mutant: MASTERBUFFER is left as it is.
CommandNoCopy ==
  /\ pc = "command"
  /\ Start(CommandOf(req), SectorCount(req))
  /\ pc' = "armMove"
  /\ UNCHANGED <<surface, master, irq, req, at, left, result>>

\* write_sector fills MASTERBUFFER first, CMD_FORMAT fills it with its value.
Command ==
  /\ pc = "command"
  /\ master' = IF req.op \in Reading THEN master ELSE req.data
  /\ Start(CommandOf(req), SectorCount(req))
  /\ pc' = "armMove"
  /\ UNCHANGED <<surface, irq, req, at, left, result>>

\* read_sector copies MASTERBUFFER, frmt displays it.
ReadDone ==
  /\ pc = "finish"
  /\ req.op \in Reading
  /\ result' = master
  /\ left' = 0
  /\ pc' = "idle"
  /\ UNCHANGED <<diskVars, req, at>>

WriteDone ==
  /\ pc = "finish"
  /\ req.op = "write"
  /\ left' = 0
  /\ pc' = "idle"
  /\ UNCHANGED <<diskVars, req, at, result>>

\* Mutant: format_sector counts on past the last sector of a cylinder.
FollowingNoWrap(p) == [cyl |-> p.cyl, sect |-> p.sect + 1]

\* format_sector: the next sector, on the next cylinder after the last one.
Following(p) ==
  [cyl  |-> IF p.sect + 1 = MaxSector THEN p.cyl + 1 ELSE p.cyl,
   sect |-> (p.sect + 1) % MaxSector]

\* Mutant: format_sector seeks once and relies on the disk to turn.
FormatStepNoSeek ==
  /\ pc = "finish"
  /\ req.op = "format"
  /\ left' = left - 1
  /\ IF left > 1 THEN at' = Following(at) /\ pc' = "command"
                 ELSE pc' = "idle" /\ UNCHANGED at
  /\ UNCHANGED <<diskVars, req, result>>

\* Mutant: format_sector sleeps once more than it gives commands.
FormatStepSleeps ==
  /\ pc = "finish"
  /\ req.op = "format"
  /\ left' = left - 1
  /\ IF left > 1 THEN at' = Following(at) /\ pc' = "armSeek"
                 ELSE pc' = "idle" /\ UNCHANGED at
  /\ UNCHANGED <<diskVars, req, result>>

FormatStep ==
  /\ pc = "finish"
  /\ req.op = "format"
  /\ left' = left - 1
  /\ IF left > 1
     THEN /\ at' = Following(at)
          /\ Seek(Following(at))
          /\ pc' = "armSeek"
     ELSE /\ pc' = "idle"
          /\ UNCHANGED <<ctl, at>>
  /\ UNCHANGED <<surface, master, irq, req, result>>

Driver ==
  \/ Arm
  \/ Wake
  \/ Command
  \/ ReadDone
  \/ WriteDone
  \/ FormatStep

\* Ticks at any instruction of the driver.
DriveNext ==
  \/ \E r \in Requests : Call(r)
  \/ Driver
  \/ Tick

DriveSpec == DriveInit /\ [][DriveNext]_driveVars

\* The driver runs from one sleep to the next in less than a tick: a tick of
\* 1 ms finds it asleep, or between two requests.
PromptTick ==
  /\ pc = "idle" \/ (pc \in {"sleepSeek", "sleepMove"} /\ ~irq)
  /\ Tick

PromptNext ==
  \/ \E r \in Requests : Call(r)
  \/ Driver
  \/ PromptTick

DriveFairness == WF_driveVars(PromptTick) /\ WF_driveVars(Driver)

PromptSpec == DriveInit /\ [][PromptNext]_driveVars /\ DriveFairness
---------------------------------------------------------------------------
(* Properties.  The first two hold however the ticks fall (DriveSpec).  The *)
(* others need a prompt driver (PromptSpec): a tick between the arrival of  *)
(* the head and the command moves the next sector under the head, and one   *)
(* between a command and its _sleep may bring the interrupt the _sleep then *)
(* waits for.                                                               *)

OnDisk(r) ==
  r.at.cyl * MaxSector + r.at.sect + (IF r.op = "format" THEN r.n ELSE 1)
    <= MaxCylinder * MaxSector

Addresses == [cyl : 0 .. MaxCylinder, sect : 0 .. MaxSector - 1]

DriveTypeOK ==
  /\ ctl \in [state : {"off", "idle", "seek"} \cup Transfers,
              next : {"off", "idle", "seek"} \cup Transfers,
              power : 0 .. PON_DELAY, nbSec : -1 .. MaxSector,
              secDelay : -1 .. STPS, head : Positions, dst : Addresses \cup Targets]
  /\ surface \in [Positions -> Payload]
  /\ master \in Payload
  /\ irq \in BOOLEAN
  /\ pc \in {"idle", "armSeek", "sleepSeek", "command", "armMove", "sleepMove", "finish"}
  /\ req \in Requests
  /\ at \in Addresses \cup Targets
  /\ left \in Nat
  /\ result \in Payload

\* A sector changes only while the head is on the cylinder of the last request:
\* a transfer that goes on after write_sector returned never follows the head
\* to the cylinder of the next request.
CylinderOfRequest ==
  [][\A p \in Positions : surface'[p] # surface[p] => p.cyl = at.cyl]_driveVars

\* However late the driver is, read_sector returns the contents of a sector of
\* the cylinder it was asked for.
ReadsItsCylinder ==
  [][pc = "finish" /\ pc' = "idle" /\ req.op \in Reading =>
       \E p \in Positions : p.cyl = req.at.cyl /\ result' = surface[p]]_driveVars

\* read_sector returns what is on the sector it was asked for, though the disk
\* turns between its seek and its transfer, and goes on transferring the
\* sectors behind while MASTERBUFFER is copied.
ReadsItsSector ==
  [][pc = "finish" /\ pc' = "idle" /\ req.op \in Reading =>
       result' = surface[req.at]]_driveVars

\* When write_sector and each step of format_sector return, the sector holds
\* the new contents.
WritesLand ==
  [][pc = "finish" /\ pc' # "finish" /\ req.op \notin Reading =>
       surface[at] = req.data]_driveVars

\* Every request for sectors of the disk returns: no _sleep of do_seek, do_read,
\* do_write and format_sector waits for an interrupt that went by.
EveryRequestReturns == []((pc # "idle" /\ OnDisk(req)) => <>(pc = "idle"))

\* "ainsi que le nombre de secteurs dans les ports 0 et 1" (drive.c:95): a write
\* or a format changes the sectors it was asked to, and no other.
OneSectorChanges ==
  [][\A p \in Positions : surface'[p] # surface[p] => p = at]_driveVars

---------------------------------------------------------------------------
(* The driver implements the store.  A sector of a request is changed when  *)
(* the tick that transfers it has interrupted.  The sectors a write reaches *)
(* without naming them are on its cylinder: as many as its sector has       *)
(* before it, which is one less than the count it gives.                    *)

Moved == pc = "finish" \/ (pc = "sleepMove" /\ irq)

NthSector(p, n) ==
  LET linear == p.cyl * MaxSector + p.sect + n
  IN  [cyl |-> linear \div MaxSector, sect |-> linear % MaxSector]

SectorsBehind(r) ==
  IF r.op # "write" \/ ~OnDisk(r) THEN {}
  ELSE {[r.at EXCEPT !.sect = (@ + k) % MaxSector] : k \in 1 .. r.at.sect - 1}

Store == INSTANCE SectorStore
           WITH Sectors  <- Positions, Contents <- Payload,
                Nth      <- NthSector, Behind <- SectorsBehind,
                store    <- surface,
                last     <- IF ctl.next = "off" THEN {} ELSE {req},
                busy     <- pc # "idle",
                toDo     <- IF pc = "idle" \/ req.op \in Reading THEN 0
                            ELSE IF Moved THEN left - 1 ELSE left,
                answer   <- result

\* drive.c, as vm, mbr and frmt call it, and the turning disk are a store of
\* sectors whose requests end: a read answers with what the sector holds, a write
\* and a format change their sectors, in order, and only a write reaches others,
\* those of SectorsBehind, until the next request.  A request that comes to an
\* address behind the last cylinder changes nothing there and never returns.
ImplementsStore == Store!StoreSpec
=============================================================================
