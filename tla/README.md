# A verification of asa_kernel

The repository holds three programs that share no code: the storage tools of
`src/src` (a disk driver, a partition table, a shell), an example of contexts
and semaphores (`src/src/x86-64/examples/TP3.c`), and a small x86 kernel
(`src/my-kernel-asa`). This directory models them in TLA+, checks the models
with TLC and proves theorems about them with TLAPS. `PROJECT.json` maps every
definition to the lines it stands for.

## Inventory

| Component | State | Operations | Interacts with | What makes it correct |
|---|---|---|---|---|
| Disk driver, `includes/drive.c` | none of its own: the registers of the controller, MASTERBUFFER, the level of the last interrupt | `read_sector`, `write_sector`, `format_sector` | writes controller registers, sleeps for HDA_IRQ | a request moves the sectors it names and no other, and returns |
| Simulated hardware, `libhardware.a` | head, speed and command of the disk; interrupt mask | ticks of a signal, `_out`, `_sleep`, `_mask` | calls the interrupt vector | (no source: the environment) |
| Partition table, `includes/volume.c`, the table commands of `vm.c`, `mbr.c` | `mbr` in memory, its copy on sector (0,0) | `load_mbr`, `save_mbr`, `cytToSect`, `new`, `del`, `save`, `quit`, `exit` | blocks are sectors of the driver | volumes never share a sector, with each other or with the table |
| Superblock and free list, `includes/superbloc.c` | `current_superbloc`, `current_vol`, list nodes in the heap, superblocks and nodes on the disk | `load_super` (with `init_volume`), `save_super`, `new_bloc`, `free_bloc`, `display_current_vol` | finds its blocks through the table | a block has one owner; lists are finite and hold live nodes |
| vm shell, `vm/vm.c` | the globals of the two above | 15 commands, in any order | all of the above | a command acts on what it was given |
| Contexts and semaphores, `TP3.c` | ring of contexts, current context, semaphore, interrupt mask | `create_ctx`, `yield`, `switch_to_ctx`, `sem_down`, `sem_up`, `timer_it` | preempted by the timer | the processor goes to live contexts that may run; tokens are neither lost nor made |
| Kernel contexts, `context.c` | `courant`, `listeContextes`, both NULL when `yield` reads them | `yield`, `switch_to_ctx`, `irq_enable`, `irq_disable`; `init_ctx` | called by the timer handler | the timer handler returns |
| Kernel interrupts, `idt.c`, `idt0.s`, handlers in `main.c` | handler table, interrupt flag; the two interrupt controllers | `irq_handler`, `isr_handler`, `timer_irq`, `keyboard_irq`, `main` | console, contexts | a handler acknowledges its own line and no other; nested handlers all return |
| Kernel console, `main.c` | cursor, video memory, registers of the CRT controller | `putc`, `puts`, `clear_screen`, `setCursor`; `puthex` | called from both handlers, from `isr_handler` and from `main` | a character is printed once, on its place; no store leaves the video memory |
| Disk tools, `frmt`, `dmps`, `part`, `mkhd`, `dump0` | none | `frmt`: commands of its own; the others one call of `drive.c` or `volume.c` | the controller, the driver | those of the driver |
| GDT, boot, port access; `tmr.c`, `testascii.c` | tables written once | straight-line code | | not modelled |

What is hard here: the disk turns while the driver works, and an interrupt
that comes before `_sleep` is lost; the superblock stores heap addresses on
the disk, which outlive their nodes and the process; a write to the disk does not
stop at its sector; `del` renumbers the volumes behind a loaded superblock; a timer interrupt may come at any
instruction of `yield`, of a semaphore operation, or of a `putc` of the kernel,
whose handlers print on the cursor of whom they interrupt. The hazards are
listed, with their lines and with the properties that would catch them, in
`PROJECT.json`.

## Plan

Written, in this order:

1. `VolumeTable`, with `VolumeTableProofs`: the table every other part relies on.
2. `Superbloc` and, over both, `Shell`: every command in every order.
3. `BlocAllocator`, the abstract allocator, and `ShellSession`, the sessions in
   which superbloc.c implements it.
4. `Drive`, and `SectorStore`, the abstract store it implements.
5. `Scheduler` (TP3.c): the ring, `yield`, the semaphore, and the timer.
6. `Terminal`, what a console promises, and `Console`, which implements it by its
   accesses to memory and ports.
7. `Kernel`, over `Console`: controllers, handlers, `main`, and what `yield` does in it.

8. The proofs, in the order the parts rely on each other: `KernelProofs` over
   `ConsoleProofs`, `DriveProofs`, `SchedulerProofs`, `ShellProofs` and, over it,
   `ShellSessionProofs`. Every safety property of a passing run is a theorem now.

To come:

9. `Scheduler` with neighbours that end at once: what of the ring is left when a `yield` has
   freed both (`finding_ring_sound`), and how many steps later the program meets the freed one.
10. `Console`: the part of `ImplementsTerminal` that speaks of the timer handlers, that is
    how far from a terminal a nested `putc` may get.

## Modules

**VolumeTable** (`volume.c`, `vm.c`, `mbr.c`). `mbr` and `savedMbr` are the
table in the memory of the vm process and on sector (0,0). `New`, `Del`, `Save`,
`Quit` and `Exit` are the commands, `Boot` is `main` up to its loop, `MakeTable` the mbr
tool, which puts a table without volumes on the disk. `Quit` saves, `Exit`
is every other end of the process, a crash included, so the next `Boot` sees the
table of the last `Save`. `CytToSect` is `cytToSect`, `Appended` and `Removed`
are what `new` and `del` do to the array, `del` of an index that names no volume
included. Left out: the type of a volume (always BASE), answers below zero (`scanf` takes them,
and `del` of one writes in front of `volumes`), the 32 bits of an int. That only `save_mbr`
changes sector (0,0) is true of this module's commands; `Shell` has the writes that spill
on it.

**Superbloc** (`superbloc.c`). `heap` holds the live `list_bloc_t` by address,
`disk` what `load_super` can tell of a sector: whether it begins with MAGIC, and
the pointer at the offset of `first`. `InitVolume` writes block 0 and the nodes
with `first` still unset, as the code does, and then sets it in memory only. No write stops
at its sector: `write_sector` passes the number of the sector as the count of the transfer
(drive.c:58), so what it writes also lands on up to that many sectors, less one, as they turn
under the head, the first one of the cylinder after the last. How many depends on when
the next request comes: `Counts` leaves it open, which is what `SectorStore` allows and `Drive`
does. `InitVolume`, `SaveSuper`, and `Write` and `ShellQuit` of `Shell` all spill; `save_mbr`
writes sector 0, whose count is 0, and `format_vol` formats one sector at a time. `Malloc` adds
nodes at addresses that are free (external: the heap of the C library).
`NewBloc` and `FreeBloc` are `new_bloc` and `free_bloc`; `NewBlocFaults` and
`FreeBlocFaults` are the cases where the code follows an address with no live
node. That is undefined in C: the model ends the process there and claims
nothing more. A walk over the list is the function `Step`, long enough to tell a
list that ends from one that does not.

**Shell** (`vm.c`) composes both: an action for every command that changes
state, all refusals of `del_vol` and `new_vol`, and `reply`, what the user was
told. `ShellSpec` has the operator name any slot to the volume commands, since
they do not look at `nb_volume`; `NamedSpec` only volumes of the table. The
volume commands that only print are not steps. `FitsDisk` and the guard of `Write`
bound the model to the sectors it has. `ShellBoot` waits for a disk with a table: a write may have
spilled on it, and a shell that starts from such a sector works on a table of random numbers.
The mbr tool (`ShellMakeTable`) makes a new one, and leaves all superblocks where they are.

**BlocAllocator** is what a user of superbloc.c wants: spaces of blocks,
`Grant` of an unused one, `Release` of a used one. **ShellSession** is `Shell` with
the operator of one session. He deletes no volume, loads one only when none is
loaded, quits with one loaded, never touches block 0. Since writes spill, that is not enough:
superblocks are kept on the volumes of the slots `Used` only, with other volumes between them,
and a sector is written only if what its transfer may go on to is neither the table nor another
superblock in use (`Clear`). Without `Clear` the session runs into a superblock that another
command has overwritten, and the promise is broken: TLC finds it with two adjacent volumes in
`Used`. The mapping reads the used
blocks off the linked lists, in the heap or behind the superblocks on the disk.

**Drive** (`drive.c`, `frmt.c`). One request at a time: `Call` is `do_seek` up to its sleep,
`Arm` the entry of `_sleep` (it forgets earlier interrupts), `Wake` its return,
`Command` the copy to MASTERBUFFER and the transfer command, `ReadDone`,
`WriteDone` and `FormatStep` the return, or the next round of `format_sector`. The
requests are those of drive.c and the command sequences of `frmt`: its format is that of
`format_sector`, of one sector or of all, its read ("show") asks for one sector. The
controller is external: `Tick` turns the disk by one tick, moves the head by one
cylinder, and one tick before the end of a sector transfers it and interrupts, once
per sector of the transfer. The head stops at the last cylinder: a seek behind it
never ends. `SectorCount` is the number of the sector, because that is what `read_sector` and
`write_sector` pass.

**Scheduler** (`TP3.c`). What runs between `irq_disable` and `irq_enable` is one step.
`Create` is `create_ctx`, `Launch` the rest of `main`, `FirstTick` the first timer
interrupt, `Tick` each later one: it enters `yield` on the stack of the context it
interrupts. `Choose` is `yield` up to `irq_enable`, with what it unlinks and frees; `Go`
is `switch_to_ctx`, and what returns behind it on the new stack; `End` the end of a
context's function. `SemDown` and `SemUp` are the semaphore; which context calls
them, and when, is open, but a context gives back
only a token it took, takes one at a time, and ends without one. The stacks
hold the calls that matter: a `yield` that was interrupted goes on with the target
it had chosen. In `CalmSpec` the timer interrupts the functions of the contexts and a `yield`
that has not chosen yet (`sem_down` and the end of a context call it with interrupts
enabled); in `SchedSpec` also one that has chosen and not switched. `ApartSpec` is `CalmSpec` as long
as no single `yield` frees a context and its successor in the ring (`FreesApart`). It is no
restriction on who may end or in which order, and two contexts, all that `main` creates, never
come to it: a `yield` frees only contexts other than the current one.

**SectorStore** is what the callers of drive.c may assume: sectors that change one at a
time and in order, reads that answer with what a sector holds, requests that are answered
if they stay on the disk, and the sectors a write reaches without naming them (`Behind`):
as many as its own sector has before it, less one, on its cylinder, until the next request.

**Terminal** is a screen, a place in it and a character that is asked for: `Wipe` and
`Page` clear a screen that is full and begin again at its top, `Act` deals with the character.

**Console** (`main.c`). `con` is the cursor, the video memory and the registers of the CRT
controller, `stack` who prints: each frame has the access it is at (`at`), the rest of its
text and a register. The kernel is compiled without optimisation, so every access of the C text is
one instruction, `cursor_x++` two, and a step of the model is one access: `Wrap` the tests
of the cursor, `ClearScreen` one character at a time, `Special` and `Plain` the cases of the
`switch`, `SetCursor` the four port writes, `NextChar` the loop of `puts`. Here one caller
prints; its place in the terminal is read off the cursor and the access it is at.

**Kernel** (`idt.c`, `idt0.s`, `context.c`, `main.c`) puts handlers on that stack. `Raise` and
`Deliver` are the devices and the two interrupt controllers (external: requests, levels in
service, priorities of the cascade, an unspecific end of interrupt that takes the
highest level in service). `IrqHandler` and `IrqReturn` are `irq_handler` before and after the
call of the handler; `Sti`, `TimerPrints`, `Yield` and `Cli` are `timer_irq`, `KeyboardIrq` is `keyboard_irq`,
`SetupIdt`, `Handle`, `Enable` and `Loops` are `main`. `yield` runs on NULL: nothing ever assigns
`listeContextes`. Low memory is there in this kernel, so the stores of `switch_to_ctx` do no
visible harm, and what it reads as a state decides whether it returns or calls what it reads
as an entry; the model takes both, the second as an invalid opcode that `isr_handler` reports.
`Yield` is one step although interrupts are enabled there: `courant` is NULL at every instruction of
it, and each `yield` may end either way, so it does not matter where the handler comes.

The MC modules give the constants their values.

## Runs

| Run | Module, configuration | Properties | States |
|---|---|---|---|
| volume_table | MCVolumeTable, VolumeTable.cfg | TypeOK, VolumesOrdered, BlocsHaveOwnSector, VolumesStayPut | 283 034 |
| named_volumes | MCShell, NamedVolumes.cfg | ShellTypeOK, WalksTerminate, TableLostToSpillsOnly | about 211 800 |
| session | MCShellSession, ShellSession.cfg | NodesHaveOneList, SessionNeverFaults, KeepsPromise | 3 322 |
| drive_any_tick | MCDrive, DriveAnyTick.cfg | DriveTypeOK, CylinderOfRequest, ReadsItsCylinder | 2.8 million |
| drive | MCDrive, Drive.cfg | ReadsItsSector, WritesLand, EveryRequestReturns, ImplementsStore | 829 812 |
| scheduler | MCScheduler, Scheduler.cfg | SchedTypeOK, TokensBounded, WaitersLinked, RingSound, ExitsWhenNoneCanRun, YieldNeverFaults, EveryRunnableRuns | 115 524 |
| console | MCConsole, Console.cfg | ConsoleTypeOK, CursorShown, ImplementsTerminal | 57 049 |
| kernel | MCKernel, Kernel.cfg | KernelTypeOK, StoresInVideoMemory, EchoOnScreen, OnlyTimersNest, ServesItsOwn, NestingCostsTimers, ComesToRest, KeysRead | 449 785 |

What they show:

- *volume_table*: whatever the order of `new`, `del`, `save` and restarts, the slots
  stay in the order of the disk, so that looking at the last volume is enough for
  `new`; no two blocks share a sector; nothing but `new` adds an extent.
- *named_volumes*: two volumes come and go behind a loaded superblock, `save_vol` and
  `quit` write to a slot that may hold another volume or none. As long as the operator names
  volumes of the table, no command ever takes sector (0,0) for a block of its own.
  The table is lost all the same, but only in one way: a write to a sector of the upper half
  of its cylinder (sector 3 of 4 here) turns past the end of the track.
  Nodes are freed, lost and allocated again at addresses that saved superblocks still hold,
  superblocks of deleted volumes are found on block 0 of new ones, and writes spill over
  superblocks and nodes; no list ever closes on itself, so `list_vol` and `del_vol` return
  (or fault).
- *session*: in a session that keeps its superblocks out of reach of the writes, the lists
  implement the allocator. It says what the discipline must be; that the shell does not
  enforce it is what the findings say.
- *drive_any_tick*: what survives a driver that is delayed at any instruction.
- *drive*: with a prompt driver, reads and writes are right though a transfer goes on
  behind the sector that was asked for, and no wakeup is lost. Driver and disk refine the
  store, its liveness included, for every sector and every request: what a write does
  beyond its sector is exactly what `SectorsBehind` says, and what comes to an address
  behind the last cylinder changes nothing there.
- *scheduler*: while contexts block, wake, end and are freed in every order, `yield`
  always finds a context or ends the program, the ring keeps every context that lives
  and no freed one, the list of waiters loses nobody, no token is made, and a context
  that may run gets the processor. The program ends by `exit` only when no context may run,
  and `yield` itself never faults. This holds for ticks outside the gap between choice and
  switch, and as long as no `yield` frees a context and its successor; `finding_target_alive` and
  `finding_ring_sound` are the runs without each of these provisos. (With two contexts, as in TP3.c,
  the second one is not needed, though `ping` and `pong` both end: `TwoContextsSound`.)
- *console*: `putc` tests the cursor before it moves it, so the cursor stands outside the screen
  between two calls, yet each character goes to its place, a full screen is cleared
  before anything is printed on it, and the controller gets the new place in two bytes.
- *kernel*: interrupts come between any two accesses. Timer handlers nest in timer handlers,
  nothing else is interrupted but `main` in its loop, and the stack is no deeper than the
  interrupts the timer has raised account for; the second acknowledgement of a timer
  interrupt, by `irq_handler`, never ends the service of another line; a `putc` that
  was interrupted between its tests and its store may store behind the screen but not behind
  the video memory; what the keyboard prints is on the screen in any case; at the
  end no request waits and no level is left in service.

The runs `finding_*` each refute one sentence of the code's own texts; see
"Known defects".

### Bounds

- `VolumeTable.cfg`: 3 slots (the eighth behaves as the third: first, middle and
  last are told apart), cylinders of 3 sectors, volumes of 0 or 5 blocks: empty
  volumes, and carries of one and of two cylinders. The constraint ends behaviours
  behind cylinder 3, since `new` itself knows no end of the disk.
- `NamedVolumes.cfg`: two volumes of two blocks on two cylinders of 4 sectors. The second lies on
  sectors 3 and 4: the last one of the cylinder of the table, whose transfer turns past it, and
  the first of the next. Two nodes make a list in each volume, or one of both of its blocks (block 0 is
  one that `del_vol` takes), while an older superblock still points to them. The view keeps
  of the sectors what `load_super` can tell of those a volume may start on, whether
  there is a table, and which command ended the process by a fault (which of the equal states
  TLC meets first moves the count by some dozen); a list that closes does so at the loaded superblock, so that sectors which
  no volume starts on need not be told apart. Three nodes, or volumes of three blocks, exceed a
  million states.
- `ShellSession.cfg`: three volumes of three blocks, of which the first and the third are used; they lie
  in the lower halves of two cylinders of 6 sectors, and a node is there for each of their blocks but the
  superblocks, so both lists can be full at once. The view leaves out what sectors without
  a superblock hold, except whether the next volume would come to a MAGIC and
  whether there is one at all: nothing else of them is read by a step of the session, and the
  properties are action properties or do not look at them.
- The drive: 2 cylinders of 3 sectors, 2 ticks per sector as in hwconfig.ini, a power
  delay of 2 instead of 30 (the driver sleeps through it). Sector 2 is the smallest
  whose number, taken as a count, moves more than one sector; a format of 3 sectors
  crosses a cylinder. Requests name every sector and one address behind the last
  cylinder; formats of three sectors that begin near the end run off it.
- `Scheduler.cfg`: three contexts (a target, a waiter behind it, a third between them),
  all of which may end; zero to two tokens; `MinVal` -2, so that two wait at once.
  `MaxFrames` 3 bounds the frames of one stack, that is how often a `yield` that has not
  chosen yet is interrupted by the next tick. `FindingRingSound.cfg` needs three
  contexts, `FindingTargetAlive.cfg` two.
- `Console.cfg`: two lines of four columns, a tabulation every two, so that a tabulation
  falls inside and at the end of a line; `Base` 4 in place of 256, so that places take both
  bytes; the four control characters and two that are shown.
- `Kernel.cfg`: two lines of two columns; two interrupts of the timer, one of the keyboard,
  one of a line of the slave, which is enough for a handler to be interrupted within each
  of its accesses, by each other line, and for the timer to be requested again while it is in
  service. These budgets keep timer handlers from nesting without end, which in
  the machine only their speed does (a tick lasts 55 ms). `VideoSize` 5 is one
  place more than the screen, all that two nested handlers need here; the real window has 16384
  places for a screen of 2000. Texts are one or two characters, chosen to fill lines and screens;
  one printable character and `Base` 1, since no property of this run is about what is shown.

Symmetry is used for heap addresses only. `reply` is left out of the states by a
VIEW: no action reads it, and only action properties speak of it.

### Fairness

The tick of libhardware is an interval timer: weak fairness. The driver is the
only thread of the process: weak fairness. `PromptSpec` further assumes that the
driver runs from one `_sleep` to the next in less than one tick (1 ms for a
few dozen instructions). Without it both the sector under the head and the wakeup
can be missed; `drive_any_tick` says what is left then.

In `CalmSpec` the timer comes back (weak fairness): its handler sets the alarm again. The
processor executes the `yield` it is in (weak fairness). The contexts owe nothing: a function
may loop for ever, call the semaphore or not. `EveryRunnableRuns` rests on the
preemption alone. (Under `ApartSpec` it says nothing of a run that comes to a `yield` which would
free neighbours: such runs are what the proviso leaves out.)

In `Console` a caller that prints goes on printing. In `Kernel` the processor goes on
(weak fairness of `Cpu`) and takes an interrupt that it may take (weak fairness of `Interrupt`);
devices owe nothing. `ComesToRest` rests on the finite budgets: with a timer faster
than its handler the kernel would never come back to its loop.

## Proofs

Every safety property of a passing run is proved, for every value of the constants that the
assumptions of the modules allow. Each component has a module of proofs; `Arithmetic` holds what
they need of numbers, in particular `LeastOf` (a set of numbers that is not empty has a least
one) and `IntervalInduction`, which stand in for induction theorems with an operator as a
parameter, and `Iteration`, what a walk along a link passes.

### VolumeTableProofs

From `TableAssumption` (natural numbers as answers, at least one slot, two sectors per cylinder):
`TypeCorrect`, `OrderCorrect`, `SectorCorrect`, `StayPutCorrect`.

The inductive invariant is `TableInv == TypeOK /\ VolumesOrdered`. Sectors of their own
are not inductive: that two volumes share none now says nothing of where `new` will put
the next one, or of an empty volume between them. The order of the slots does, and
`OrderedOwnSector` derives the former from it: `CytToSectLinear` shows that `cytToSect`
is division with remainder by MaxSector, so blocks have the same sector only if they have
the same linear number. `AppendedOrdered` and `RemovedOrdered` are the two commands,
`AppendedExtents` and `RemovedExtents` what they do to the extents.

### ShellProofs

`ShellTyped`, `ListsEnd` (under `ShellSpec`) and `TableLostBySpill` (under `NamedSpec`), for a
finite set of addresses and a NULL that is no record (`SuperblocAssumption`).

- That walks end is not inductive as it stands, for a walk starts anywhere: from the
  superblock, and from whatever address the disk holds. `Acyclic` says it of the heap alone: in
  every set of live nodes one has its successor outside the set. `AcyclicTerminates` is the
  step from there to walks: one that passes live nodes only for as many steps as there are
  addresses repeats itself, and what lies between is a set closed under `next`.
- `free_bloc` is where the invariant could break. An older list may still hold the address that
  malloc gives out now; pushed in front of such a list, the new node would close it. It does not,
  because `free_bloc` has walked the whole list before it allocates: a walk
  that met a freed address has ended in a fault. This is the guard `~WalkFaults`, and
  the mutant `FreeBlocUnchecked` shows that it is needed.
- Spills do not disturb `Acyclic`, for it does not look at the disk: whichever sectors a write changes,
  they hold addresses.
- `TableLostToSpillsOnly` needs that `current_vol` names a slot that starts behind the table
  (`TableSafeInv`), even if `del` has emptied it; `RemovedOrdered` gives that. Then the
  sectors a command names are behind the first one, and a transfer that reaches it began
  less than its own count before the end of the track.

### ShellSessionProofs

`NodesKeepOneList`, `SessionsNeverFault` and `SessionsKeepPromise`:
within a session superbloc.c implements `BlocAllocator`, with every write free to go on to as many
sectors as its count allows. The refinement is proved whole: `BlocAllocator` states no fairness.
Assumed is that volumes have two blocks or more (`SessionAssumption`): with one block the code
does grant one of the neighbour.

- `IsList(h, p, R)` says that R is the list from p without counting steps: R is closed under
  `next`, no node has two predecessors, and no smaller set that holds p is closed. `Sound`
  says of all slots at once that their lists are lists, disjoint, cover the heap, and hold
  blocks of their volume, each once. `SessionInv` adds what keeps the lists behind the
  superblocks on the disk reachable: block 0 of a volume in use never holds a list node that
  `load_super` would take for a superblock, and the loaded volume is one whose superblock is on the
  disk (`NoNodeFirst`, `LoadedManaged`). Other sectors may hold anything, and a spill on block 0
  of a volume in use is what `Clear` excludes.
- A step does one of five things to the lists: nothing (`Quiet`), a new list (`Formats`), the
  first block leaves one (`Grants`) or a block comes back (`Releases`), all are lost
  with the process (`Forgets`). Each list changes alone: `OneChanges` carries `Sound` and the blocks
  of the others over, and reads off the step of the allocator.

### DriveProofs

From `DriveAssumption` (a disk with a sector, two ticks a sector or more):

- `DriveTyped`, `CylinderKept`, `ReadsCylinder` under `DriveSpec`, where the driver may be late
  at any instruction. `DriveInv` ties the place of the driver to the state of the controller:
  `SeekInv` until the seek is over, `ThereInv` (the head is on the cylinder of the request)
  from then until the next `Call`, through transfers that go on after the return.
- `ReadsSector`, `WritesReachTheDisk` under `PromptSpec`. `PromptInv` adds where the sector is
  while the driver runs: just under the head when the seek wakes it (`ArrivedInv`), still under it
  when the transfer begins (`UnderHeadInv`), transferred when it is woken again (`LandedInv`).
- `DriveActsAsStore`: driver and disk start as `SectorStore` does, and each of their steps is one
  of its steps or leaves its state alone. `StoreInv` adds the progress of a format (`WalkInv`) and
  of a transfer that goes on behind its sector (`SpillInv`: it is a write, and the head stands
  before the sector that comes next). The fairness of `SectorStore` stays with TLC.

### SchedulerProofs

For any finite number of contexts and any tokens:

- `NoTokenIsMade`, `WaitersStayLinked` and `CalmTargetAlive` under `CalmSpec`, whatever contexts end and
  whatever the ring looks like. `SchedInv` relates the stacks to the contexts: a stack is that of a
  function, or of yields of which all but the innermost were interrupted before they had chosen
  (`ShapeInv`); what is at its bottom agrees with `etat` (`EtatInv`); a yield that has chosen goes to a
  context that may run (`GoInv`: this is what fails when the timer may interrupt there,
  so the finding and the theorem meet in this one conjunct); the waiters are in line
  (`WaitersInv`, where a numbering of them takes the place of a recursive walk).
- `RingStaysSound`, `ExitIsLastResort`, `FaultsFromSemUp`, `SchedTyped` under `ApartSpec`: any
  of the contexts end, but no `yield` frees one and its successor. `RingInv` says that the
  contexts created and not freed form one cycle, and that `ctx_ring` and `current_ctx` are on it.
  `MetRound` makes that the walk of `yield`: it passes all of them and comes back, so its loop ends,
  it meets no freed context, and it is back at its start only after it has met all the others.
  `RoundThinned` is the other half: taking out any set of places of which no two are adjacent, each
  by the link of the place before it, leaves a cycle of the others. With two adjacent places
  the second link is written into a context that is out of the cycle, and the lemma is false;
  `FreesApart` says no more than that this does not happen.
- `TwoContextsSound`: for two contexts all of this holds under `CalmSpec` itself. A `yield` that
  frees both would free the current one, and its loop ends there. So the provisos hold of
  the program as it stands, with its `ping` and `pong`.

### ConsoleProofs

From `ConsoleAssumption` (a screen with a place, tab stops that divide its width):
`ConsoleTyped`, `ConsoleShowsCursor` and `ConsoleActsAsTerminal`. The invariant says at each access
where the cursor is (`CursorInv`), what `putc` has of it in a register (`RegisterInv`) and what
the controller has been told (`PortInv`). For the refinement it needs one thing more: a screen that is being
cleared is blank up to where the loop is (`Wiped`). Each access then is one of five moves of
the terminal. Its fairness stays with TLC.

### KernelProofs

For any levels and interrupts, a timer that prints no tabulation and no backspace (`KernelAssumption`;
it prints "Timer!\n"):

- `KernelTyped`, `TimersNest`: `KInv` says of every frame on the stack whose it may be
  and of every one but the top that it is open to interrupts. That `cursor_x` never gets
  negative is a part of it: only the keyboard prints a backspace, and nobody interrupts the keyboard.
- `HandlersServeTheirOwn`: what is in service is at most what the handler on top has not acknowledged
  (`OwnServed`). An acknowledgement takes the highest level in service, and there is no other.
- `EchoStaysOnScreen`: a handler that is not the timer's tests the cursor and stores with nobody in
  between (`Alone`).
- `NestingIsPaidFor`: each handler of the timer on the stack has used up one interrupt
  (`TimersPaid`); the request that is pending counts as well, or the invariant is not inductive.
- `StoresStayInVideoMemory`: with d handlers nested, each of them may have tested the
  cursor and not moved it yet. `Bounded` counts, at each place of the stack, the frames below that still
  owe a column or a line, and bounds the cursor and the registers by them: a store goes
  at most to `Width * (Height - 3 + 2 * d) + Width - 2 + d`. The theorem is about every D
  with `Width * (Height - 2 + 2 * D) + D - 1 <= VideoSize`: as long as at most D handlers are on the stack,
  however many interrupts have come since the boot, no store misses the video memory. On the real machine
  (80, 25, 16384) that is D = 90. Each of them takes 64 bytes of the stack by `idt0.s`
  alone, and the frames of `irq_handler`, `timer_irq` and the function it calls more than half as much again, so 90 exceed the
  8 KB of 0boot.s:38: before `putc` leaves the video memory the stack is used up. In the run the hypothesis
  is met for D = 1; with two handlers the property still holds there, by TLC: the bound is
  sufficient, not necessary.

### What stays with TLC

- Liveness: `EveryRequestReturns`, `EveryRunnableRuns`, `ComesToRest`, `KeysRead`, and the fairness
  that `ImplementsStore` and `ImplementsTerminal` promise. Fairness and ENABLED are beyond the
  prover.
- The findings: a counterexample is an instance.
- The ring once a `yield` has freed neighbours, where `RingSound` is false.

## Known defects

Each of these runs ends in a counterexample:

- `SaveVolGoesHome`: of two volumes load the first, delete it, `save_vol`: the superblock lands
  on block 0 of the second, which has moved to its slot, since `current_vol` is a slot number.
- `OneSectorChanges`: writing sector n overwrites sectors behind it. The shell's own superblocks, list
  nodes and the table of sector (0,0) are among them: see *named_volumes* and *session*.
- `TargetAlive`: a timer interrupt between the `irq_enable` of `yield` and its switch; the
  target already chosen runs and ends; the interrupted `yield` then switches to it.
- `RingSound`: two contexts that are neighbours in the ring end, and one `yield` frees both, but
  unlinks the second from the first only (`precedent = target`, TP3.c:112): the ring still leads
  to it, and the next `yield` that passes frees it again.

Seen in the model, without a run of their own: `quit` and `save_vol` without a loaded volume
read through a null pointer (superbloc.c:88); `del` of an index that names no volume removes
the last one (vm.c:288); `write` and `read` take block numbers behind the volume (vm.c:139);
a volume of one block grants block 1, which is its neighbour's (superbloc.c:45);
`load_vol` of a slot without a volume initialises it over sector (0,0) (superbloc.c:77);
`list_vol` walks from a pointer another process saved, or that was never set (superbloc.c:149);
`new_vol` takes block 0, which `del_vol` accepts, for an empty list (vm.c:189). `sem_up` does
not count the token it hands over (TP3.c:221): `val` stays negative, and when nobody waits
any more `sem_up` writes through a null pointer. `yield` ends the program when every context that is
left waits, with the comment "il n'y a plus de contexte du tout" (TP3.c:100). A
target that was chosen and then blocks in a tick before the switch is switched to all the same,
and returns from `sem_down` without a token (`TokensBounded` fails under `SchedSpec`). A request
for an address behind the last cylinder never returns, and `new` lets a volume reach there
(vm.c:247).

In the kernel: a key between `irq_enable` and the installation of its handler is taken by
`null_handler`, which does not read port 0x60, and the keyboard sends no other (main.c:99). A
`setCursor` interrupted between its port writes goes on with the register the handler selected
last (main.c:145). `codesMap` is read behind its 58 entries (main.c:31). A `putc` interrupted
before its store may store behind the screen (main.c:167). `yield` switches to NULL: no context
of `init_ctx` ever runs; if one did, `switch_to_ctx` would save its stack pointers twice and
restore none (context.c:38). `main` keeps two contexts with stacks of 8 KB each and two arrays of
16 KB on the boot stack (main.c:91-95), which has 8 KB (0boot.s:38): its frame alone, and with it every
handler, lies below the section of the stack. The model's stack has no size, and nothing here says
that the handlers fit.

Seen in code that is not modelled: `do_format` has `&& 0xFF` for `& 0xFF` (drive.c:70);
`dmps` passes a count where `read_sector` takes a buffer; `puthex(0)` prints nothing.

## Not modelled

- TP3.c: masking by the hardware, in particular an alarm that falls into a masked section
  and is dropped; what `free` does to the memory `yield` reads afterwards (its fields are taken to
  stay as they were); a second semaphore.
- drive.c: `do_format`, which has no caller.
- vm: negative answers and indices behind `volumes[8]`, which read and write memory next to the
  table. A shell that starts on a disk whose table was overwritten.
- Kernel: contexts (`init_ctx`, and `switch_to_ctx` with one), since `courant` is never one; `puthex`
  and the software interrupt 87, since nothing raises it; exceptions other than the one a call
  through NULL ends in; colours of the screen; stack overflow by nested handlers. The bytes of GDT
  and IDT entries, boot and port access: straight-line initialisation of tables that no code
  reads or changes again.
- `dmps`, `part`, `mkhd`, `dump0`: one call of `drive.c` or `volume.c` each, and output. `tmr.c`
  and `testascii.c`: no state.
