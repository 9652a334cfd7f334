------------------------------- MODULE Kernel -------------------------------
(***************************************************************************)
(* The kernel from setup_idt on: main enables interrupts and loops, and    *)
(* the handlers of the timer and the keyboard print on the console, each   *)
(* on the stack of whom it interrupts.                                     *)
(*                                                                         *)
(* The interrupt controllers (requests, levels in service, priorities) and *)
(* the devices behind them are the external part of the model.             *)
(***************************************************************************)
EXTENDS Console

CONSTANTS
  Levels,           \* the interrupt lines in use: 0 timer, 1 keyboard, others
  Budget,           \* how often each raises an interrupt
  BootText, TimerText, FaultText

ASSUME KernelAssumption ==
  /\ {0, 1} \subseteq Levels /\ Levels \subseteq (0 .. 15) \ {2}
  /\ Budget \in [Levels -> Nat]
  /\ {BootText, FaultText} \subseteq Seq(Chars) \ {<<>>}
  /\ TimerText \in Seq(Printable \cup {"nl"}) \ {<<>>}    \* "Timer!\n"

VARIABLES
  iflag,            \* interrupts are enabled
  handlers,         \* irq_handlers
  requested,        \* the levels that wait for delivery
  serving,          \* the levels the controllers have in service
  port,             \* port 0x60 holds a scancode
  budget            \* the interrupts each line will still raise

picVars    == <<requested, serving>>
deviceVars == <<port, budget>>
kernelVars == <<con, stack, iflag, handlers, requested, serving, port, budget>>

Fault   == 6                    \* the exception a call through NULL ends in
Irq(i)  == 32 + i               \* the vectors remap_irq gives the lines
Here    == Top.int_no - 32      \* the line being handled
Frame(n, at) == [int_no |-> n, at |-> at, text |-> <<>>, reg |-> 0]

---------------------------------------------------------------------------
(* Devices and controllers. *)

\* The lines 8 to 15 come through line 2 of the master.
Rank(i) == IF i < 8 THEN 16 * i ELSE 32 + i

Highest(S) == {i \in S : \A j \in S : i <= j}

\* The keyboard holds back the next scancode until port 0x60 has been read.
Raise(i) ==
  /\ budget[i] > 0
  /\ i = 1 => ~port
  /\ budget' = [budget EXCEPT ![i] = @ - 1]
  /\ requested' = requested \cup {i}
  /\ port' = (port \/ i = 1)
  /\ UNCHANGED <<con, stack, iflag, handlers, serving>>

\* Mutant: the entry of the handler leaves interrupts enabled.
DeliverOpen(i) ==
  /\ iflag
  /\ i \in requested
  /\ \A j \in requested \ {i} : Rank(i) < Rank(j)
  /\ \A j \in serving : Rank(i) < Rank(j)
  /\ requested' = requested \ {i}
  /\ serving' = serving \cup {i} \cup (IF i < 8 THEN {} ELSE {2})
  /\ stack' = Append(stack, Frame(Irq(i), "irq"))
  /\ UNCHANGED <<con, iflag, handlers, deviceVars>>

\* Between two instructions the processor takes the request of highest priority
\* that no level in service outranks, through an interrupt gate and cli.
Deliver(i) ==
  /\ iflag
  /\ i \in requested
  /\ \A j \in requested \ {i} : Rank(i) < Rank(j)
  /\ \A j \in serving : Rank(i) < Rank(j)
  /\ requested' = requested \ {i}
  /\ serving' = serving \cup {i} \cup (IF i < 8 THEN {} ELSE {2})
  /\ stack' = Append(stack, Frame(Irq(i), "irq"))
  /\ iflag' = FALSE
  /\ UNCHANGED <<con, handlers, deviceVars>>

\* _outb(0x20, 0x20), without the level: the highest one in service.
EoiMaster == serving \ Highest(serving \cap (0 .. 7))

---------------------------------------------------------------------------
(* The handlers. *)

\* Mutant: the table is indexed from vector 33.
IrqHandlerFrom33 ==
  /\ Top.at = "irq"
  /\ Goto(CASE handlers[(Here + 15) % 16] = "timer_irq"    -> "sti"
            [] handlers[(Here + 15) % 16] = "keyboard_irq" -> "in"
            [] OTHER                                       -> "eoi", 0)
  /\ UNCHANGED <<con, iflag, handlers, picVars, deviceVars>>

\* irq_handler calls what the table holds; null_handler returns at once.
IrqHandler ==
  /\ Top.at = "irq"
  /\ Goto(CASE handlers[Here] = "timer_irq"    -> "sti"
            [] handlers[Here] = "keyboard_irq" -> "in"
            [] OTHER                           -> "eoi", 0)
  /\ UNCHANGED <<con, iflag, handlers, picVars, deviceVars>>

\* Mutant: a line of the slave is acknowledged to the slave only.
IrqReturnSlaveOnly ==
  /\ Top.at = "eoi"
  /\ serving' = IF Here < 8 THEN EoiMaster ELSE serving \ Highest(serving \cap (8 .. 15))
  /\ stack' = SubSeq(stack, 1, Len(stack) - 1)
  /\ iflag' = TRUE
  /\ UNCHANGED <<con, handlers, requested, deviceVars>>

\* irq_handler acknowledges, process_irq returns with iret.
IrqReturn ==
  /\ Top.at = "eoi"
  /\ serving' = EoiMaster \ (IF Here < 8 THEN {} ELSE Highest(serving \cap (8 .. 15)))
  /\ stack' = SubSeq(stack, 1, Len(stack) - 1)
  /\ iflag' = TRUE
  /\ UNCHANGED <<con, handlers, requested, deviceVars>>

Sti ==
  /\ Top.at = "sti" /\ Goto("ack", 0)
  /\ iflag' = TRUE
  /\ UNCHANGED <<con, handlers, picVars, deviceVars>>

TimerPrints ==
  /\ Top.at = "ack" /\ Puts(TimerText)
  /\ serving' = EoiMaster
  /\ UNCHANGED <<iflag, handlers, requested, deviceVars>>

\* yield finds courant and listeContextes NULL.  switch_to_ctx(NULL) stores into
\* low memory, which is there, and returns if what it takes for a state is not
\* READY; if it is, it calls what it takes for an entry, which ends in a fault.
Yield ==
  /\ Top.at = "done" /\ Here = 0
  /\ \/ Goto("cli", 0) /\ UNCHANGED <<con, iflag>>
     \/ /\ stack' = Append(stack, [Frame(Fault, "putc") EXCEPT !.text = FaultText])
        /\ iflag' = FALSE
        /\ con' = con
  /\ UNCHANGED <<handlers, picVars, deviceVars>>

Cli ==
  /\ Top.at = "cli" /\ Goto("eoi", 0)
  /\ iflag' = FALSE
  /\ UNCHANGED <<con, handlers, picVars, deviceVars>>

\* A key that is pressed prints what codesMap holds for it, or what is behind
\* codesMap, for scancodes go up to 127: any character.
KeyboardIrq ==
  /\ \/ /\ Top.at = "in" /\ port' = FALSE
        /\ \/ \E c \in Chars : Puts(<<c>>)
           \/ Goto("eoi", 0) /\ con' = con
     \/ /\ Top.at = "done" /\ Here = 1
        /\ Goto("eoi", 0) /\ UNCHANGED <<con, port>>
  /\ UNCHANGED <<iflag, handlers, picVars, budget>>

---------------------------------------------------------------------------
(* main. *)

\* main prints all its messages with interrupts disabled: here in one text, after
\* setup_idt.
KernelInit ==
  /\ Cleared
  /\ stack = <<Frame(Main, "setup_idt")>>
  /\ iflag = FALSE
  /\ handlers = [i \in 0 .. 15 |-> "none"]
  /\ requested = {} /\ serving = {}
  /\ port = FALSE
  /\ budget = Budget

SetupIdt ==
  /\ Top.at = "setup_idt" /\ Puts(BootText)
  /\ handlers' = [i \in 0 .. 15 |-> "null_handler"]
  /\ UNCHANGED <<iflag, picVars, deviceVars>>

Handle(from, to, i, handler) ==
  /\ Top.at = from /\ Top.int_no = Main
  /\ Goto(to, 0)
  /\ handlers' = [handlers EXCEPT ![i] = handler]
  /\ UNCHANGED <<con, iflag, picVars, deviceVars>>

Enable ==
  /\ Top.at = "enable" /\ Goto("keyboard", 0)
  /\ iflag' = TRUE
  /\ UNCHANGED <<con, handlers, picVars, deviceVars>>

MainSteps ==
  \/ SetupIdt
  \/ Handle("done", "enable", 0, "timer_irq")
  \/ Enable
  \/ Handle("keyboard", "loop", 1, "keyboard_irq")

\* The endless loops of main and of isr_handler.
Loops == Top.at = "loop" \/ (Top.at = "done" /\ Top.int_no = Fault)

---------------------------------------------------------------------------

Cpu ==
  \/ Printing /\ UNCHANGED <<iflag, handlers, picVars, deviceVars>>
  \/ IrqHandler
  \/ IrqReturn
  \/ Sti
  \/ TimerPrints
  \/ Yield
  \/ Cli
  \/ KeyboardIrq
  \/ MainSteps

Interrupt == \E i \in Levels : Deliver(i)

KernelNext ==
  \/ Cpu
  \/ Interrupt
  \/ \E i \in Levels : Raise(i)
  \/ Loops /\ UNCHANGED kernelVars

\* The processor goes on, and takes interrupts.
KernelSpec ==
  KernelInit /\ [][KernelNext]_kernelVars /\ WF_kernelVars(Cpu) /\ WF_kernelVars(Interrupt)

---------------------------------------------------------------------------

KernelAccesses ==
  Accesses \cup {"setup_idt", "enable", "keyboard", "loop", "irq", "sti", "ack", "in",
                 "cli", "eoi"}

KernelTypeOK ==
  /\ con \in [x : Nat, y : Nat, screen : [0 .. VideoSize - 1 -> Printable],
              index : {14, 15}, crtc : [{14, 15} -> 0 .. Base - 1]]
  /\ stack \in Seq([int_no : {Main, Fault} \cup {Irq(i) : i \in Levels},
                    at : KernelAccesses, text : Seq(Chars), reg : Nat])
  /\ stack # <<>>
  /\ iflag \in BOOLEAN
  /\ handlers \in [0 .. 15 -> {"none", "null_handler", "timer_irq", "keyboard_irq"}]
  /\ requested \subseteq Levels /\ serving \subseteq 0 .. 15
  /\ port \in BOOLEAN
  /\ budget \in [Levels -> Nat]

\* An interrupt may come between the tests of putc and its store, and move the
\* cursor in between: a store may miss the screen, but not the video memory.
StoresInVideoMemory == Top.at = "write" => Top.reg \in 0 .. VideoSize - 1

\* What keyboard_irq and isr_handler print is on the screen, wherever the timer
\* handlers they interrupted have left the cursor.
EchoOnScreen == Top.at = "write" /\ Top.int_no # Irq(0) => Top.reg \in 0 .. Size - 1

\* Only timer_irq is interrupted, and main once it has printed all it prints: so
\* keyboard_irq and isr_handler have the console for themselves.
OnlyTimersNest ==
  \A k \in 1 .. Len(stack) - 1 :
    IF k = 1 THEN stack[k].at \in {"keyboard", "loop"}
    ELSE stack[k].int_no = Irq(0) /\ stack[k].at \notin {"irq", "sti", "eoi"}

\* What the stack all handlers share can need: main, one handler more, and the
\* handlers of those interrupts the timer has raised so far.
NestingCostsTimers == Len(stack) <= Budget[0] - budget[0] + 2

\* timer_irq acknowledges before it prints, and irq_handler once more when it
\* has returned.  Neither acknowledges the interrupt of somebody else: what the
\* controllers have in service belongs to the handler that runs.
ServesItsOwn ==
  \A i \in serving : Here = i \/ (i = 2 /\ Here >= 8)

\* However interrupts nest, the kernel comes back to the loop of main, with every
\* request delivered and no level left in service, unless yield ended in a fault.
Halted == Top.int_no = Fault

ComesToRest == []<>(Halted \/ (Top.at = "loop" /\ requested = {} /\ serving = {}))

\* Once keyboard_irq is installed, a scancode whose interrupt is still to be
\* served is read.  (One whose interrupt null_handler takes, between irq_enable
\* and the installation, stays, and no other follows it.)
KeysRead ==
  (port /\ 1 \in requested /\ handlers[1] = "keyboard_irq") ~> (~port \/ Halted)
=============================================================================
