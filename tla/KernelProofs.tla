---------------------------- MODULE KernelProofs ----------------------------
(* Proofs about Kernel. *)
EXTENDS Kernel, ConsoleProofs, FiniteSets, FiniteSetTheorems

TimerChars == Printable \cup {"nl"}
IntNos     == {Main, Fault} \cup {Irq(i) : i \in Levels}

\* An interrupt may come here.
Open(f) ==
  IF f.int_no = Main THEN f.at \in {"keyboard", "loop"}
  ELSE f.int_no = Irq(0) /\ f.at \notin {"irq", "sti", "eoi"}

\* Who is where, and with what text.
FrameOK(f) ==
  /\ f.at \in {"setup_idt", "enable", "keyboard", "loop"} => f.int_no = Main
  /\ f.at \in {"sti", "ack", "cli"} => f.int_no = Irq(0)
  /\ f.at = "in" => f.int_no = Irq(1)
  /\ f.at \in {"irq", "eoi"} => f.int_no \notin {Main, Fault}
  /\ f.at \in Accesses => f.int_no \in {Main, Fault, Irq(0), Irq(1)}
  /\ f.at \in Accesses \ {"done"} => f.text # <<>>
  /\ f.at \in {"place", "write", "nextLoad"} => Head(f.text) \in Printable
  /\ f.at = "backLoad" => Head(f.text) = "bs"
  /\ f.int_no = Irq(0) => f.text \in Seq(TimerChars)

Nesting ==
  /\ \A k \in 1 .. Len(stack) : FrameOK(stack[k]) /\ (stack[k].int_no = Main <=> k = 1)
  /\ \A k \in 1 .. Len(stack) - 1 : Open(stack[k])
  /\ iflag <=> Open(Top)

HandlersOK ==
  \A i \in 0 .. 15 : /\ handlers[i] = "timer_irq" => i = 0
                     /\ handlers[i] = "keyboard_irq" => i = 1

KInv == KernelTypeOK /\ Nesting /\ HandlersOK /\ BackInv

\* What an access of putc keeps.
Kept ==
  /\ Typed(IntNos, KernelAccesses)' /\ Replaces(Top')
  /\ Top'.int_no = Top.int_no
  /\ Top.at \in Accesses \ {"done"} /\ Top'.at \in Accesses
  /\ FrameOK(Top') /\ BackInv'

\* A move of the frame that runs keeps what holds of it.
LEMMA MovesKeep ==
  ASSUME Typed(IntNos, KernelAccesses), Typed(IntNos, KernelAccesses)', FrameOK(Top),
         NEW from \in Accesses \ {"done"}, NEW to \in Accesses,
         NEW reg, NEW x, NEW y, Moves(from, to, reg, x, y),
         to \in {"place", "write", "nextLoad"} => Char \in Printable,
         to = "backLoad" => Char = "bs" /\ x > 0
  PROVE  Kept
<1> DEFINE f == [int_no |-> Top.int_no, at |-> to, text |-> Top.text, reg |-> reg]
<1>1. Top.at = from /\ Replaces(f) /\ Top' = f /\ con'.x = x
  BY DEF Moves, Replaces
<1>2. Top'.int_no = Top.int_no /\ Top'.at = to /\ Top'.text = Top.text
  BY <1>1
<1> HIDE DEF f
<1>3. Replaces(Top')
  BY <1>1
<1>4. FrameOK(Top')
  BY <1>1, <1>2 DEF FrameOK, Accesses, Char
<1>5. BackInv'
  BY <1>1, <1>2 DEF BackInv
<1> QED BY <1>1, <1>2, <1>3, <1>4, <1>5 DEF Kept

\* So does every access of putc.
LEMMA PrintingKeeps ==
  ASSUME Typed(IntNos, KernelAccesses), FrameOK(Top), BackInv, Printing
  PROVE  Kept
<1>0. Accesses \subseteq KernelAccesses
  BY DEF KernelAccesses
<1>1. /\ con.x \in Nat /\ con.y \in Nat /\ Top.reg \in Nat /\ Top.text \in Seq(Chars)
      /\ Top.at \in KernelAccesses
  BY TopTypes DEF Regs
<1>2. CASE Wrap
  BY <1>0, <1>2, WrapMoves, MovesKeep DEF Accesses
<1>3. CASE ClearScreen
  BY <1>0, <1>3, ClearMoves, MovesKeep DEF Accesses
<1>4. CASE Special
  BY <1>0, <1>1, <1>4, SpecialMoves, MovesKeep DEF Accesses
<1>5. CASE Plain
  BY <1>0, <1>5, PlainMoves, MovesKeep DEF Accesses, FrameOK, Char, Moves
<1>6. CASE SetCursor
  BY <1>0, <1>6, SetCursorMoves, MovesKeep DEF Accesses, Shows
<1>7. CASE NextChar
  <2> DEFINE f == [int_no |-> Top.int_no,
                   at |-> IF Tail(Top.text) = <<>> THEN "done" ELSE "putc",
                   text |-> Tail(Top.text), reg |-> Top.reg]
  <2>1. Top.at = "puts" /\ Top.text # <<>>
    BY <1>7 DEF NextChar, FrameOK, Accesses
  <2>2. /\ Typed(IntNos, KernelAccesses)' /\ Replaces(f) /\ con' = con
    BY <1>7, <2>1, <1>0, NextCharTop DEF Typed, Accesses
  <2>3. Top' = f
    BY <2>2 DEF Replaces
  <2>4. /\ Top'.int_no = Top.int_no /\ Top'.text = Tail(Top.text)
        /\ Top'.at \in {"done", "putc"} /\ (Top'.at = "putc" => Top'.text # <<>>)
    BY <2>3
  <2>5. Top.int_no = Irq(0) => Top'.text \in Seq(TimerChars)
    BY <2>1, <2>4 DEF FrameOK
  <2> HIDE DEF f
  <2>6. FrameOK(Top') /\ BackInv'
    BY <2>1, <2>4, <2>5 DEF FrameOK, Accesses, BackInv
  <2> QED BY <2>1, <2>2, <2>3, <2>4, <2>6 DEF Kept, Accesses
<1> QED BY <1>2, <1>3, <1>4, <1>5, <1>6, <1>7 DEF Printing

---------------------------------------------------------------------------
(* What the other steps do to the stack. *)

\* An interrupt puts a frame on the stack,
LEMMA PushTop ==
  ASSUME NEW F, stack \in Seq(F), NEW f \in F, stack' = Append(stack, f)
  PROVE  /\ stack' \in Seq(F) /\ stack' # <<>>
         /\ Len(stack') = Len(stack) + 1
         /\ \A k \in 1 .. Len(stack) : stack'[k] = stack[k]
         /\ Top' = f
BY DEF Top

\* and iret takes it off.
LEMMA PopTop ==
  ASSUME NEW F, stack \in Seq(F), Len(stack) > 1, stack' = SubSeq(stack, 1, Len(stack) - 1)
  PROVE  /\ stack' \in Seq(F) /\ stack' # <<>>
         /\ Len(stack') = Len(stack) - 1
         /\ \A k \in 1 .. Len(stack) - 1 : stack'[k] = stack[k]
         /\ Top' = stack[Len(stack) - 1]
<1>1. stack' \in Seq(F) /\ Len(stack') = Len(stack) - 1
  OBVIOUS
<1>2. \A k \in 1 .. Len(stack) - 1 : stack'[k] = stack[k]
  OBVIOUS
<1>3. Len(stack) - 1 \in 1 .. Len(stack) - 1
  OBVIOUS
<1>4. Top' = stack'[Len(stack) - 1]
  BY <1>1 DEF Top
<1>5. \A s : Len(s) > 0 => s # <<>>
  OBVIOUS
<1>6. Len(stack') > 0
  BY <1>1
<1>7. stack' # <<>>
  BY <1>5, <1>6
<1> QED BY <1>1, <1>2, <1>3, <1>4, <1>7

\* The nesting depends on what a frame serves, not on where it is.
LEMMA NestKept ==
  ASSUME NEW F, stack \in Seq(F), stack # <<>>, Nesting,
         Replaces(Top'), Top'.int_no = Top.int_no, FrameOK(Top'), iflag' <=> Open(Top')
  PROVE  Nesting'
<1> DEFINE n == Len(stack)
<1>1. /\ n \in Nat \ {0} /\ Len(stack') = n /\ stack'[n] = Top' /\ stack[n] = Top
      /\ \A k \in 1 .. n - 1 : stack'[k] = stack[k]
  BY DEF Replaces, Top
<1>2. /\ \A k \in 1 .. n : FrameOK(stack[k]) /\ (stack[k].int_no = Main <=> k = 1)
      /\ \A k \in 1 .. n - 1 : Open(stack[k])
  BY DEF Nesting
<1> HIDE DEF n
<1>3. \A k \in 1 .. n : FrameOK(stack'[k]) /\ (stack'[k].int_no = Main <=> k = 1)
  <2> SUFFICES ASSUME NEW k \in 1 .. n
               PROVE  FrameOK(stack'[k]) /\ (stack'[k].int_no = Main <=> k = 1)
    OBVIOUS
  <2>1. CASE k = n
    BY <1>1, <1>2, <2>1
  <2>2. CASE k # n
    <3>1. k \in 1 .. n - 1
      BY <1>1, <2>2
    <3> QED BY <1>1, <1>2, <3>1
  <2> QED BY <2>1, <2>2
<1>4. \A k \in 1 .. n - 1 : Open(stack'[k])
  BY <1>1, <1>2
<1> QED BY <1>1, <1>3, <1>4 DEF Nesting

\* A handler starts with interrupts off above a frame that has them on,
LEMMA NestPush ==
  ASSUME NEW F, stack \in Seq(F), stack # <<>>, Nesting, Open(Top),
         NEW f \in F, stack' = Append(stack, f),
         f.int_no # Main, FrameOK(f), iflag' <=> Open(f)
  PROVE  Nesting'
<1> DEFINE n == Len(stack)
<1>1. /\ n \in Nat \ {0} /\ Len(stack') = n + 1 /\ stack'[n + 1] = f /\ stack[n] = Top
      /\ \A k \in 1 .. n : stack'[k] = stack[k]
      /\ Top' = f
  BY PushTop DEF Top
<1>2. /\ \A k \in 1 .. n : FrameOK(stack[k]) /\ (stack[k].int_no = Main <=> k = 1)
      /\ \A k \in 1 .. n - 1 : Open(stack[k])
  BY DEF Nesting
<1> HIDE DEF n
<1>3. \A k \in 1 .. n + 1 : FrameOK(stack'[k]) /\ (stack'[k].int_no = Main <=> k = 1)
  <2> SUFFICES ASSUME NEW k \in 1 .. n + 1
               PROVE  FrameOK(stack'[k]) /\ (stack'[k].int_no = Main <=> k = 1)
    OBVIOUS
  <2>1. CASE k = n + 1
    BY <1>1, <2>1
  <2>2. CASE k \in 1 .. n
    BY <1>1, <1>2, <2>2
  <2> QED BY <1>1, <2>1, <2>2
<1>4. \A k \in 1 .. n : Open(stack'[k])
  <2> SUFFICES ASSUME NEW k \in 1 .. n PROVE Open(stack[k])
    BY <1>1
  <2>1. CASE k = n
    BY <1>1, <2>1
  <2>2. CASE k \in 1 .. n - 1
    BY <1>2, <2>2
  <2> QED BY <1>1, <2>1, <2>2
<1>5. (n + 1) - 1 = n
  BY <1>1
<1> QED BY <1>1, <1>3, <1>4, <1>5 DEF Nesting

\* and goes back to one that has them on.
LEMMA NestPop ==
  ASSUME NEW F, stack \in Seq(F), Len(stack) > 1, Nesting,
         stack' = SubSeq(stack, 1, Len(stack) - 1), iflag'
  PROVE  Nesting' /\ Open(Top') /\ FrameOK(Top')
<1> DEFINE n == Len(stack) - 1
<1>1. /\ n \in Nat \ {0} /\ Len(stack') = n
      /\ \A k \in 1 .. n : stack'[k] = stack[k]
      /\ Top' = stack[n]
  BY PopTop
<1>2. /\ \A k \in 1 .. n : FrameOK(stack[k]) /\ (stack[k].int_no = Main <=> k = 1)
      /\ \A k \in 1 .. n : Open(stack[k])
  BY <1>1 DEF Nesting
<1> HIDE DEF n
<1>3. Open(Top') /\ FrameOK(Top')
  BY <1>1, <1>2
<1>4. \A k \in 1 .. n - 1 : Open(stack'[k])
  BY <1>1, <1>2
<1> QED BY <1>1, <1>2, <1>3, <1>4 DEF Nesting

---------------------------------------------------------------------------
(* The invariant is inductive. *)

Rest ==
  /\ iflag \in BOOLEAN
  /\ handlers \in [0 .. 15 -> {"none", "null_handler", "timer_irq", "keyboard_irq"}]
  /\ requested \subseteq Levels /\ serving \subseteq 0 .. 15
  /\ port \in BOOLEAN
  /\ budget \in [Levels -> Nat]

\* The type of the state, split into that of the stack and that of the rest.
LEMMA TypeParts ==
  /\ KernelTypeOK <=> Typed(IntNos, KernelAccesses) /\ Rest
  /\ KernelTypeOK' <=> Typed(IntNos, KernelAccesses)' /\ Rest'
BY DEF KernelTypeOK, Typed, Rest, Consoles, Frames, IntNos, Regs

\* A handler serves a line of the two controllers.
LEMMA Lines ==
  ASSUME KernelTypeOK, Top.int_no \notin {Main, Fault}
  PROVE  Here \in Levels /\ Here \in 0 .. 15 /\ Top.int_no = Irq(Here)
<1>1. Top.int_no \in IntNos
  BY TypeParts, TopTypes
<1>2. PICK i \in Levels : Top.int_no = Irq(i)
  BY <1>1 DEF IntNos
<1> QED BY <1>2, KernelAssumption DEF Here, Irq

\* What the nesting says of the frame on top, after a step
LEMMA TopOKNext ==
  ASSUME KernelTypeOK', Nesting'
  PROVE  FrameOK(Top') /\ (iflag' <=> Open(Top'))
<1> DEFINE n == Len(stack')
<1>1. n \in Nat \ {0} /\ stack'[n] = Top'
  BY DEF KernelTypeOK, Top
<1>2. \A k \in 1 .. n : FrameOK(stack'[k])
  BY DEF Nesting
<1> HIDE DEF n
<1>3. FrameOK(Top')
  BY <1>1, <1>2
<1> QED BY <1>3 DEF Nesting

\* and before it.
LEMMA TopOK ==
  ASSUME KernelTypeOK, Nesting
  PROVE  /\ FrameOK(Top) /\ (iflag <=> Open(Top))
         /\ Len(stack) \in Nat \ {0} /\ (Top.int_no = Main <=> Len(stack) = 1)
<1> DEFINE n == Len(stack)
<1>1. n \in Nat \ {0} /\ stack[n] = Top
  BY DEF KernelTypeOK, Top
<1>2. \A k \in 1 .. n : FrameOK(stack[k]) /\ (stack[k].int_no = Main <=> k = 1)
  BY DEF Nesting
<1> HIDE DEF n
<1>3. FrameOK(Top) /\ (Top.int_no = Main <=> n = 1)
  BY <1>1, <1>2
<1> QED BY <1>1, <1>3 DEF n, Nesting

\* A step that replaces the frame on top keeps the invariant if that frame is in order.
LEMMA ReplaceKeeps ==
  ASSUME KInv, NEW f, Replaces(f), Typed(IntNos, KernelAccesses)', f.int_no = Top.int_no,
         FrameOK(f), iflag' <=> Open(f), f.at = "backLoad" => con'.x > 0,
         Rest', HandlersOK'
  PROVE  KInv'
<1>1. Top' = f
  BY DEF Replaces
<1>2. Nesting'
  BY <1>1, NestKept DEF KInv, KernelTypeOK
<1>3. KernelTypeOK'
  BY TypeParts
<1> QED BY <1>1, <1>2, <1>3 DEF KInv, BackInv

\* A frame that goes on to another place keeps the invariant,
LEMMA GotoKeeps ==
  ASSUME KInv, NEW to \in {"enable", "keyboard", "loop", "sti", "ack", "cli", "in", "eoi"},
         Goto(to, 0), con' = con,
         to \in {"enable", "keyboard", "loop"} => Top.int_no = Main,
         to \in {"sti", "ack", "cli"} => Top.int_no = Irq(0),
         to = "in" => Top.int_no = Irq(1),
         to = "eoi" => Top.int_no \notin {Main, Fault},
         iflag' <=> to \in {"keyboard", "loop", "ack", "cli"},
         Rest', HandlersOK'
  PROVE  KInv'
<1> DEFINE f == [int_no |-> Top.int_no, at |-> to, text |-> Top.text, reg |-> 0]
<1>1. Typed(IntNos, KernelAccesses) /\ FrameOK(Top)
  BY TypeParts, TopOK DEF KInv
<1>2. Typed(IntNos, KernelAccesses)' /\ Replaces(f)
  BY <1>1, GotoTop DEF Typed, Regs, KernelAccesses
<1>3. f.int_no = Top.int_no /\ f.at = to /\ f.text = Top.text
  OBVIOUS
<1> HIDE DEF f
<1>4. FrameOK(f)
  BY <1>1, <1>3 DEF FrameOK, Accesses
<1>5. iflag' <=> Open(f)
  BY <1>3 DEF Open, Main, Irq
<1> QED BY <1>2, <1>3, <1>4, <1>5, ReplaceKeeps

\* a frame that starts to print keeps it,
LEMMA PutsKeeps ==
  ASSUME KInv, NEW text \in Seq(Chars) \ {<<>>}, Puts(text),
         Top.int_no \in {Main, Fault, Irq(0), Irq(1)},
         Top.int_no = Irq(0) => text \in Seq(TimerChars),
         iflag' <=> Top.int_no = Irq(0), Rest', HandlersOK'
  PROVE  KInv'
<1> DEFINE f == [int_no |-> Top.int_no, at |-> "putc", text |-> text, reg |-> Top.reg]
<1>1. Typed(IntNos, KernelAccesses)
  BY TypeParts DEF KInv
<1>2. Typed(IntNos, KernelAccesses)' /\ Replaces(f)
  BY <1>1, PutsTop DEF Typed, KernelAccesses, Accesses
<1>3. f.int_no = Top.int_no /\ f.at = "putc" /\ f.text = text
  OBVIOUS
<1> HIDE DEF f
<1>4. FrameOK(f)
  BY <1>3 DEF FrameOK, Accesses
<1>5. iflag' <=> Open(f)
  BY <1>3 DEF Open, Main, Irq
<1> QED BY <1>2, <1>3, <1>4, <1>5, ReplaceKeeps

\* and so does an interrupt.
LEMMA PushKeeps ==
  ASSUME KInv, iflag, NEW f \in Frames(IntNos, KernelAccesses, Seq(Chars), Regs),
         stack' = Append(stack, f), f.int_no # Main, ~Open(f), FrameOK(f), f.at # "backLoad",
         ~iflag', con' = con, Rest', HandlersOK'
  PROVE  KInv'
<1>1. Typed(IntNos, KernelAccesses) /\ Nesting
  BY TypeParts DEF KInv
<1>2. Open(Top)
  BY TopOK DEF KInv
<1>3. Nesting'
  BY <1>1, <1>2, NestPush DEF Typed
<1>4. Typed(IntNos, KernelAccesses)' /\ Top' = f
  BY <1>1, PushTop DEF Typed
<1>5. KernelTypeOK'
  BY <1>4, TypeParts
<1> QED BY <1>3, <1>4, <1>5 DEF KInv, BackInv

\* The timer prints no tab.
LEMMA TimerNoTab ==
  ASSUME FrameOK(Top), Top.at = "char", Head(Top.text) = "tab" PROVE Top.int_no # Irq(0)
<1> SUFFICES ASSUME Top.int_no = Irq(0) PROVE FALSE
  OBVIOUS
<1>1. Top.text \in Seq(TimerChars) /\ Top.text # <<>>
  BY DEF FrameOK, Accesses
<1>2. Head(Top.text) \in TimerChars
  BY <1>1
<1> QED BY <1>2, ConsoleAssumption DEF TimerChars

\* The timer does not print backspaces.
LEMMA TimerNoBack ==
  ASSUME NEW f, FrameOK(f), Open(f) PROVE f.at # "backLoad"
<1> SUFFICES ASSUME f.at = "backLoad" PROVE FALSE
  OBVIOUS
<1>1. f.int_no = Irq(0) /\ f.text \in Seq(TimerChars) /\ f.text # <<>> /\ Head(f.text) = "bs"
  BY DEF FrameOK, Open, Accesses
<1>2. Head(f.text) \in TimerChars
  BY <1>1
<1> QED BY <1>1, <1>2, ConsoleAssumption DEF TimerChars

\* The kernel starts with nothing in service.
LEMMA KInvInit == KernelInit => KInv
<1> SUFFICES ASSUME KernelInit PROVE KInv
  OBVIOUS
<1> DEFINE f == [int_no |-> Main, at |-> "setup_idt", text |-> <<>>, reg |-> 0]
<1>1. stack = <<f>>
  BY DEF KernelInit, Frame
<1>2. f \in Frames(IntNos, KernelAccesses, Seq(Chars), Regs)
  BY DEF Frames, IntNos, KernelAccesses, Regs
<1>3. con \in Consoles
  BY ConsoleAssumption DEF KernelInit, Cleared, Consoles
<1>4. Rest
  BY KernelAssumption DEF KernelInit, Rest
<1>5. f.int_no = Main /\ f.at = "setup_idt" /\ f.text = <<>>
  OBVIOUS
<1> HIDE DEF f
<1>6. /\ stack \in Seq(Frames(IntNos, KernelAccesses, Seq(Chars), Regs)) /\ stack # <<>>
      /\ Len(stack) = 1 /\ stack[1] = f /\ Top = f
  BY <1>1, <1>2 DEF Top
<1>7. FrameOK(f) /\ ~Open(f)
  BY <1>5 DEF FrameOK, Open, Accesses, Main, Irq
<1>8. Nesting
  BY <1>5, <1>6, <1>7 DEF Nesting, KernelInit
<1>9. HandlersOK /\ BackInv
  BY <1>5, <1>6 DEF HandlersOK, BackInv, KernelInit
<1> QED BY <1>3, <1>4, <1>6, <1>8, <1>9, TypeParts DEF KInv, Typed

\* Every step of the kernel keeps the invariant.
LEMMA KInvNext == KInv /\ [KernelNext]_kernelVars => KInv'
<1> SUFFICES ASSUME KInv, [KernelNext]_kernelVars PROVE KInv'
  OBVIOUS
<1>1. /\ KernelTypeOK /\ Nesting /\ HandlersOK /\ BackInv /\ Rest
      /\ Typed(IntNos, KernelAccesses)
  BY TypeParts DEF KInv
<1>2. /\ FrameOK(Top) /\ (iflag <=> Open(Top))
      /\ Len(stack) \in Nat \ {0} /\ (Top.int_no = Main <=> Len(stack) = 1)
  BY <1>1, TopOK
<1>3. /\ Top.int_no \in IntNos /\ Top.at \in KernelAccesses /\ Top.text \in Seq(Chars)
  BY <1>1, TopTypes
<1>4. CASE Printing /\ UNCHANGED <<iflag, handlers, picVars, deviceVars>>
  <2>1. Kept
    BY <1>1, <1>2, <1>4, PrintingKeeps
  <2>2. iflag' <=> Open(Top')
    BY <1>2, <1>4, <2>1 DEF Kept, Open, Accesses
  <2>3. Rest' /\ HandlersOK'
    BY <1>1, <1>4 DEF Rest, HandlersOK, picVars, deviceVars
  <2> QED BY <2>1, <2>2, <2>3, ReplaceKeeps DEF Kept, BackInv
<1>5. CASE IrqHandler
  <2>1. Top.at = "irq" /\ Top.int_no \notin {Main, Fault}
    BY <1>2, <1>5 DEF IrqHandler, FrameOK
  <2>2. Here \in 0 .. 15 /\ Top.int_no = Irq(Here)
    BY <1>1, <2>1, Lines
  <2>3. PICK to \in {"sti", "in", "eoi"} :
          /\ Goto(to, 0)
          /\ to = "sti" => handlers[Here] = "timer_irq"
          /\ to = "in" => handlers[Here] = "keyboard_irq"
    BY <1>5 DEF IrqHandler
  <2>4. (to = "sti" => Top.int_no = Irq(0)) /\ (to = "in" => Top.int_no = Irq(1))
    BY <1>1, <2>2, <2>3 DEF HandlersOK
  <2>5. ~iflag
    BY <1>2, <2>1, <2>2 DEF Open, Irq, Main
  <2>6. Rest' /\ HandlersOK' /\ iflag' = iflag /\ con' = con
    BY <1>1, <1>5 DEF Rest, HandlersOK, IrqHandler, picVars, deviceVars
  <2> QED BY <2>1, <2>3, <2>4, <2>5, <2>6, GotoKeeps
<1>6. CASE IrqReturn
  <2>1. Top.int_no # Main
    BY <1>2, <1>6 DEF IrqReturn, FrameOK
  <2>2. Len(stack) > 1
    <3>1. Len(stack) \in Nat \ {0} /\ Len(stack) # 1
      BY <1>2, <2>1
    <3> QED BY <3>1
  <2>3. Typed(IntNos, KernelAccesses)'
    BY <1>1, <1>6, <2>2, PopTop DEF IrqReturn, Typed
  <2>4. Nesting' /\ Open(Top') /\ FrameOK(Top')
    BY <1>1, <1>6, <2>2, NestPop DEF IrqReturn, Typed
  <2>5. Rest' /\ HandlersOK'
    BY <1>1, <1>6 DEF Rest, HandlersOK, IrqReturn, EoiMaster, deviceVars
  <2>6. BackInv'
    BY <2>4, TimerNoBack DEF BackInv
  <2> QED BY <2>3, <2>4, <2>5, <2>6, TypeParts DEF KInv
<1>7. CASE Sti
  <2>1. Top.int_no = Irq(0)
    BY <1>2, <1>7 DEF Sti, FrameOK
  <2>2. Rest' /\ HandlersOK'
    BY <1>1, <1>7 DEF Rest, HandlersOK, Sti, picVars, deviceVars
  <2> QED BY <1>7, <2>1, <2>2, GotoKeeps DEF Sti
<1>8. CASE TimerPrints
  <2>1. Top.at = "ack" /\ Top.int_no = Irq(0)
    BY <1>2, <1>8 DEF TimerPrints, FrameOK
  <2>2. TimerText \in Seq(Chars) \ {<<>>} /\ TimerText \in Seq(TimerChars)
    BY KernelAssumption DEF TimerChars, Chars
  <2>3. Rest' /\ HandlersOK' /\ iflag' = iflag
    BY <1>1, <1>8 DEF Rest, HandlersOK, TimerPrints, EoiMaster, deviceVars
  <2>4. iflag
    BY <1>2, <2>1 DEF Open, Irq, Main
  <2> QED BY <1>8, <2>1, <2>2, <2>3, <2>4, PutsKeeps DEF TimerPrints
<1>9. CASE Yield
  <2>1. Top.at = "done" /\ Top.int_no = Irq(0)
    BY <1>2, <1>9 DEF Yield, FrameOK, Accesses, Here, Irq, Main, Fault
  <2>2. CASE Goto("cli", 0) /\ UNCHANGED <<con, iflag>>
    <3>1. Rest' /\ HandlersOK'
      BY <1>1, <1>9, <2>2 DEF Rest, HandlersOK, Yield, picVars, deviceVars
    <3>2. iflag
      BY <1>2, <2>1 DEF Open, Irq, Main
    <3> QED BY <2>1, <2>2, <3>1, <3>2, GotoKeeps
  <2>3. CASE /\ stack' = Append(stack, [Frame(Fault, "putc") EXCEPT !.text = FaultText])
             /\ iflag' = FALSE
             /\ con' = con
    <3> DEFINE f == [int_no |-> Fault, at |-> "putc", text |-> FaultText, reg |-> 0]
    <3>1. stack' = Append(stack, f)
      BY <2>3 DEF Frame
    <3>2. f \in Frames(IntNos, KernelAccesses, Seq(Chars), Regs)
      BY KernelAssumption DEF Frames, IntNos, KernelAccesses, Accesses, Regs
    <3>3. f.int_no = Fault /\ f.at = "putc" /\ f.text = FaultText
      OBVIOUS
    <3> HIDE DEF f
    <3>4. FrameOK(f) /\ ~Open(f) /\ f.int_no # Main
      BY <3>3, KernelAssumption DEF FrameOK, Open, Accesses, Main, Fault, Irq
    <3>5. iflag
      BY <1>2, <2>1 DEF Open, Irq, Main
    <3>6. Rest' /\ HandlersOK'
      BY <1>1, <1>9, <2>3 DEF Rest, HandlersOK, Yield, picVars, deviceVars
    <3> QED BY <2>3, <3>1, <3>2, <3>3, <3>4, <3>5, <3>6, PushKeeps
  <2> QED BY <1>9, <2>2, <2>3 DEF Yield
<1>10. CASE Cli
  <2>1. Top.int_no = Irq(0)
    BY <1>2, <1>10 DEF Cli, FrameOK
  <2>2. Rest' /\ HandlersOK'
    BY <1>1, <1>10 DEF Rest, HandlersOK, Cli, picVars, deviceVars
  <2>3. Irq(0) \notin {Main, Fault}
    BY DEF Irq, Main, Fault
  <2> QED BY <1>10, <2>1, <2>2, <2>3, GotoKeeps DEF Cli
<1>11. CASE KeyboardIrq
  <2>1. Rest' /\ HandlersOK' /\ iflag' = iflag
    BY <1>1, <1>11 DEF Rest, HandlersOK, KeyboardIrq, picVars
  <2>2. Top.int_no = Irq(1)
    BY <1>2, <1>11 DEF KeyboardIrq, FrameOK, Accesses, Here, Irq, Main, Fault
  <2>3. ~iflag
    BY <1>2, <2>2 DEF Open, Irq, Main
  <2>4. ASSUME NEW c \in Chars, Puts(<<c>>) PROVE KInv'
    <3>1. <<c>> \in Seq(Chars) \ {<<>>}
      OBVIOUS
    <3>2. Irq(0) # Irq(1)
      BY DEF Irq
    <3> QED BY <2>1, <2>2, <2>3, <2>4, <3>1, <3>2, PutsKeeps
  <2>5. CASE Goto("eoi", 0) /\ con' = con
    <3>1. Irq(1) \notin {Main, Fault}
      BY DEF Irq, Main, Fault
    <3> QED BY <2>1, <2>2, <2>3, <2>5, <3>1, GotoKeeps
  <2> QED BY <1>11, <2>4, <2>5 DEF KeyboardIrq
<1>12. CASE SetupIdt
  <2>1. Top.at = "setup_idt" /\ Top.int_no = Main
    BY <1>2, <1>12 DEF SetupIdt, FrameOK
  <2>2. Rest' /\ HandlersOK' /\ iflag' = iflag
    BY <1>1, <1>12 DEF Rest, HandlersOK, SetupIdt, picVars, deviceVars
  <2>3. ~iflag
    BY <1>2, <2>1 DEF Open
  <2>4. BootText \in Seq(Chars) \ {<<>>} /\ Main # Irq(0)
    BY KernelAssumption DEF Main, Irq
  <2> QED BY <1>12, <2>1, <2>2, <2>3, <2>4, PutsKeeps DEF SetupIdt
<1>13. CASE Handle("done", "enable", 0, "timer_irq")
  <2>1. Rest' /\ HandlersOK'
    BY <1>1, <1>13 DEF Rest, HandlersOK, Handle, picVars, deviceVars
  <2>2. ~iflag
    BY <1>2, <1>13 DEF Handle, Open
  <2> QED BY <1>13, <2>1, <2>2, GotoKeeps DEF Handle
<1>14. CASE Enable
  <2>1. Top.int_no = Main
    BY <1>2, <1>14 DEF Enable, FrameOK
  <2>2. Rest' /\ HandlersOK'
    BY <1>1, <1>14 DEF Rest, HandlersOK, Enable, picVars, deviceVars
  <2> QED BY <1>14, <2>1, <2>2, GotoKeeps DEF Enable
<1>15. CASE Handle("keyboard", "loop", 1, "keyboard_irq")
  <2>1. Rest' /\ HandlersOK'
    BY <1>1, <1>15 DEF Rest, HandlersOK, Handle, picVars, deviceVars
  <2>2. iflag
    BY <1>2, <1>15 DEF Handle, Open
  <2> QED BY <1>15, <2>1, <2>2, GotoKeeps DEF Handle
<1>16. ASSUME NEW i \in Levels, Deliver(i) PROVE KInv'
  <2> DEFINE f == [int_no |-> Irq(i), at |-> "irq", text |-> <<>>, reg |-> 0]
  <2>1. stack' = Append(stack, f)
    BY <1>16 DEF Deliver, Frame
  <2>2. f \in Frames(IntNos, KernelAccesses, Seq(Chars), Regs)
    BY DEF Frames, IntNos, KernelAccesses, Regs
  <2>3. f.int_no = Irq(i) /\ f.at = "irq" /\ f.text = <<>>
    OBVIOUS
  <2> HIDE DEF f
  <2>4. i \in 0 .. 15
    BY KernelAssumption
  <2>5. f.int_no \notin {Main, Fault}
    BY <2>3, <2>4 DEF Irq, Main, Fault
  <2>6. FrameOK(f) /\ ~Open(f)
    BY <2>3, <2>5 DEF FrameOK, Open, Accesses
  <2>7. requested' \subseteq Levels /\ serving' \subseteq 0 .. 15
    BY <1>1, <1>16, <2>4 DEF Rest, Deliver
  <2>8. Rest' /\ HandlersOK'
    BY <1>1, <1>16, <2>7 DEF Rest, HandlersOK, Deliver, deviceVars
  <2> QED BY <1>16, <2>1, <2>2, <2>3, <2>5, <2>6, <2>8, PushKeeps DEF Deliver
<1>17. ASSUME NEW i \in Levels, Raise(i) PROVE KInv'
  <2>1. UNCHANGED <<con, stack, iflag, handlers, serving>>
    BY <1>17 DEF Raise
  <2>2. Rest'
    BY <1>1, <1>17 DEF Rest, Raise
  <2>3. Nesting' /\ HandlersOK' /\ BackInv' /\ Typed(IntNos, KernelAccesses)'
    BY <1>1, <2>1 DEF Nesting, HandlersOK, BackInv, Typed, Top
  <2> QED BY <2>2, <2>3, TypeParts DEF KInv
<1>18. CASE UNCHANGED kernelVars
  BY <1>1, <1>18 DEF KInv, KernelTypeOK, Nesting, HandlersOK, BackInv, Top, kernelVars
<1> QED BY <1>4, <1>5, <1>6, <1>7, <1>8, <1>9, <1>10, <1>11, <1>12, <1>13, <1>14, <1>15,
           <1>16, <1>17, <1>18 DEF KernelNext, Cpu, MainSteps, Interrupt

\* The types and the nesting hold in every state.
THEOREM KernelInvariant == KernelSpec => []KInv
<1>1. KernelSpec => KernelInit /\ [][KernelNext]_kernelVars
  BY PTL DEF KernelSpec
<1> QED BY <1>1, KInvInit, KInvNext, PTL

\* The variables of the kernel have their types: cursor_x never gets negative,
\* the bytes for the CRT controller are bytes.
THEOREM KernelTyped == KernelSpec => []KernelTypeOK
<1>1. KInv => KernelTypeOK
  BY DEF KInv
<1> QED BY <1>1, KernelInvariant, PTL

\* Only timer_irq is interrupted, and main once it has printed all it prints.
THEOREM TimersNest == KernelSpec => []OnlyTimersNest
<1>1. KInv => OnlyTimersNest
  <2> SUFFICES ASSUME KInv, NEW k \in 1 .. Len(stack) - 1
               PROVE  IF k = 1 THEN stack[k].at \in {"keyboard", "loop"}
                      ELSE stack[k].int_no = Irq(0) /\ stack[k].at \notin {"irq", "sti", "eoi"}
    BY DEF OnlyTimersNest
  <2>1. Len(stack) \in Nat
    BY DEF KInv, KernelTypeOK
  <2>2. Open(stack[k]) /\ (stack[k].int_no = Main <=> k = 1)
    BY <2>1 DEF KInv, Nesting
  <2> QED BY <2>2 DEF Open
<1> QED BY <1>1, KernelInvariant, PTL

---------------------------------------------------------------------------
(* What the controllers have in service. *)

\* What the handler of a frame has not acknowledged.
Own(f) ==
  IF f.int_no \in {Main, Fault} \/ (f.int_no = Irq(0) /\ f.at \in Accesses \cup {"cli"}) THEN {}
  ELSE {f.int_no - 32} \cup (IF f.int_no < 40 THEN {} ELSE {2})

OwnServed == serving \subseteq Own(Top)

\* One line in service is the highest.
LEMMA HighestOne ==
  ASSUME NEW S, NEW h \in Int, S \subseteq {h} PROVE Highest(S) = S
<1>1. ASSUME NEW i \in S, NEW j \in S PROVE i <= j
  BY <1>1
<1> QED BY <1>1 DEF Highest

\* What a set cuts out of a larger one is the set.
LEMMA CapOfPart == ASSUME NEW S, NEW T, S \subseteq T PROVE S \cap T = S
OBVIOUS

\* A handler serves its own line from its entry to its end of interrupt.
LEMMA OwnNext == KInv /\ OwnServed /\ [KernelNext]_kernelVars => OwnServed'
<1> SUFFICES ASSUME KInv, OwnServed, [KernelNext]_kernelVars PROVE OwnServed'
  OBVIOUS
<1>1. /\ KernelTypeOK /\ Nesting /\ HandlersOK /\ BackInv
      /\ Typed(IntNos, KernelAccesses)
  BY TypeParts DEF KInv
<1>2. FrameOK(Top) /\ (iflag <=> Open(Top)) /\ Top.int_no \in IntNos
  BY <1>1, TopOK, TopTypes
<1>3. ASSUME Top'.int_no = Top.int_no, serving' = serving,
             Top'.at \in Accesses \cup {"cli"} =>
               Top.at \in Accesses \cup {"cli"} \/ Top.int_no # Irq(0)
      PROVE  OwnServed'
  BY <1>3 DEF OwnServed, Own
<1>4. ASSUME NEW to \in KernelAccesses, Goto(to, 0)
      PROVE  Top'.int_no = Top.int_no /\ Top'.at = to
  BY <1>1, <1>4, GotoTop DEF Typed, Replaces, Regs
<1>5. CASE Printing /\ UNCHANGED <<iflag, handlers, picVars, deviceVars>>
  <2>1. Kept
    BY <1>1, <1>2, <1>5, PrintingKeeps
  <2> QED BY <1>3, <1>5, <2>1 DEF Kept, picVars
<1>6. CASE IrqHandler
  <2>1. PICK to \in {"sti", "in", "eoi"} : Goto(to, 0)
    BY <1>6 DEF IrqHandler
  <2>2. Top'.int_no = Top.int_no /\ Top'.at = to
    BY <1>4, <2>1 DEF KernelAccesses
  <2> QED BY <1>3, <1>6, <2>2 DEF IrqHandler, Accesses, picVars
<1>7. CASE IrqReturn
  <2>1. Top.at = "eoi" /\ Top.int_no \notin {Main, Fault}
    BY <1>2, <1>7 DEF IrqReturn, FrameOK
  <2>2. Here \in 0 .. 15 /\ Top.int_no = 32 + Here
    BY <1>1, <2>1, Lines DEF Irq
  <2>3. serving \subseteq {Here} \cup (IF Here < 8 THEN {} ELSE {2})
    BY <2>1, <2>2 DEF OwnServed, Own, Accesses, Here
  <2>4. serving' = {}
    <3>1. CASE Here < 8
      <4>1. serving \subseteq {Here} /\ serving \subseteq 0 .. 7 /\ Here \in Int
        BY <2>2, <2>3, <3>1
      <4>2. serving \cap (0 .. 7) = serving
        BY <4>1, CapOfPart, Zenon
      <4>3. Highest(serving) = serving
        BY <4>1, HighestOne, Zenon
      <4> QED BY <1>7, <3>1, <4>2, <4>3 DEF IrqReturn, EoiMaster
    <3>2. CASE ~(Here < 8)
      <4> DEFINE M == serving \cap (0 .. 7)
                 S == serving \cap (8 .. 15)
      <4>1. M \subseteq {2} /\ S \subseteq {Here}
        BY <2>2, <2>3, <3>2
      <4>2. serving \subseteq M \cup S
        BY <2>2, <2>3, <3>2
      <4>3. serving' = (serving \ Highest(M)) \ Highest(S)
        BY <1>7, <3>2 DEF IrqReturn, EoiMaster
      <4> HIDE DEF M, S
      <4>4. 2 \in Int /\ Here \in Int
        BY <2>2
      <4>5. Highest(M) = M /\ Highest(S) = S
        BY <4>1, <4>4, HighestOne, Zenon
      <4> QED BY <4>2, <4>3, <4>5
    <3> QED BY <3>1, <3>2
  <2> QED BY <2>4 DEF OwnServed
<1>8. CASE Sti
  <2>1. Top'.int_no = Top.int_no /\ Top'.at = "ack"
    BY <1>4, <1>8 DEF Sti, KernelAccesses
  <2> QED BY <1>3, <1>8, <2>1 DEF Sti, Accesses, picVars
<1>9. CASE TimerPrints
  <2>1. Top.at = "ack" /\ Top.int_no = Irq(0)
    BY <1>2, <1>9 DEF TimerPrints, FrameOK
  <2>2. serving \subseteq {0}
    BY <2>1 DEF OwnServed, Own, Irq
  <2>3. serving' = {}
    <3>1. serving \subseteq 0 .. 7 /\ 0 \in Int
      BY <2>2
    <3>2. serving \cap (0 .. 7) = serving
      BY <3>1, CapOfPart, Zenon
    <3>3. Highest(serving) = serving
      BY <2>2, <3>1, HighestOne, Zenon
    <3> QED BY <1>9, <3>2, <3>3 DEF TimerPrints, EoiMaster
  <2> QED BY <2>3 DEF OwnServed
<1>10. CASE Yield
  <2>1. Top.at = "done" /\ Top.int_no = Irq(0) /\ serving' = serving
    BY <1>2, <1>10 DEF Yield, FrameOK, Accesses, Here, Irq, Main, Fault, picVars
  <2>2. serving = {}
    BY <2>1 DEF OwnServed, Own, Accesses
  <2> QED BY <2>1, <2>2 DEF OwnServed
<1>11. CASE Cli
  <2>1. Top'.int_no = Top.int_no /\ Top'.at = "eoi"
    BY <1>4, <1>11 DEF Cli, KernelAccesses
  <2> QED BY <1>3, <1>11, <2>1 DEF Cli, Accesses, picVars
<1>12. CASE KeyboardIrq
  <2>1. Top.int_no = Irq(1)
    BY <1>2, <1>12 DEF KeyboardIrq, FrameOK, Accesses, Here, Irq, Main, Fault
  <2>2. ASSUME NEW c \in Chars, Puts(<<c>>) PROVE Top'.int_no = Top.int_no
    <3> DEFINE text == <<c>>
    <3>1. text \in Seq(Chars) /\ Puts(text)
      BY <2>2
    <3> HIDE DEF text
    <3>2. Replaces([int_no |-> Top.int_no, at |-> "putc", text |-> text, reg |-> Top.reg])
      BY <1>1, <3>1, PutsTop DEF Typed, KernelAccesses, Accesses
    <3> QED BY <3>2 DEF Replaces
  <2>3. Top'.int_no = Top.int_no
    BY <1>4, <1>12, <2>2 DEF KeyboardIrq, KernelAccesses
  <2>4. Irq(1) # Irq(0)
    BY DEF Irq
  <2> QED BY <1>3, <1>12, <2>1, <2>3, <2>4 DEF KeyboardIrq, picVars
<1>13. CASE MainSteps
  <2>1. Top.int_no = Main
    BY <1>2, <1>13 DEF MainSteps, SetupIdt, Handle, Enable, FrameOK
  <2>2. serving = {} /\ serving' = serving
    BY <1>13, <2>1 DEF OwnServed, Own, MainSteps, SetupIdt, Handle, Enable, picVars
  <2> QED BY <2>2 DEF OwnServed
<1>14. ASSUME NEW i \in Levels, Deliver(i) PROVE OwnServed'
  <2>1. Open(Top) /\ i \in 0 .. 15
    BY <1>2, <1>14, KernelAssumption DEF Deliver
  <2>2. serving \subseteq {0}
    BY <1>2, <2>1 DEF OwnServed, Own, Open, Irq
  <2>3. serving = {}
    BY <1>14, <2>1, <2>2 DEF Deliver, Rank
  <2>4. serving' = {i} \cup (IF i < 8 THEN {} ELSE {2})
    BY <1>14, <2>3 DEF Deliver
  <2>5. Top' = [int_no |-> Irq(i), at |-> "irq", text |-> <<>>, reg |-> 0]
    <3> DEFINE f == [int_no |-> Irq(i), at |-> "irq", text |-> <<>>, reg |-> 0]
    <3>1. f \in Frames(IntNos, KernelAccesses, Seq(Chars), Regs)
      BY DEF Frames, IntNos, KernelAccesses, Regs
    <3>2. stack' = Append(stack, f)
      BY <1>14 DEF Deliver, Frame
    <3> HIDE DEF f
    <3>3. Top' = f
      BY <1>1, <3>1, <3>2, PushTop DEF Typed
    <3> QED BY <3>3 DEF f
  <2>6. Top'.int_no = 32 + i /\ Top'.at = "irq"
    BY <2>5 DEF Irq
  <2> QED BY <2>1, <2>4, <2>6 DEF OwnServed, Own, Accesses, Main, Fault
<1>15. ASSUME NEW i \in Levels, Raise(i) PROVE OwnServed'
  BY <1>15 DEF Raise, OwnServed, Top
<1>16. CASE UNCHANGED kernelVars
  BY <1>16 DEF OwnServed, Top, kernelVars
<1> QED BY <1>5, <1>6, <1>7, <1>8, <1>9, <1>10, <1>11, <1>12, <1>13, <1>14, <1>15, <1>16
        DEF KernelNext, Cpu, Interrupt

\* What the controllers have in service belongs to the handler that runs.
THEOREM HandlersServeTheirOwn == KernelSpec => []ServesItsOwn
<1>1. KernelInit => OwnServed
  BY DEF KernelInit, OwnServed
<1>2. KInv /\ OwnServed => ServesItsOwn
  <2> SUFFICES ASSUME KInv, OwnServed, NEW i \in serving
               PROVE  Here = i \/ (i = 2 /\ Here >= 8)
    BY DEF ServesItsOwn
  <2>1. Top.int_no \notin {Main, Fault} /\ i \in {Top.int_no - 32} \cup (IF Top.int_no < 40 THEN {} ELSE {2})
    BY DEF OwnServed, Own
  <2>2. Here \in 0 .. 15 /\ Top.int_no = 32 + Here
    BY <2>1, Lines DEF KInv, Irq
  <2> QED BY <2>1, <2>2 DEF Here
<1>3. KernelSpec => KernelInit /\ [][KernelNext]_kernelVars
  BY PTL DEF KernelSpec
<1> QED BY <1>1, <1>2, <1>3, OwnNext, KernelInvariant, PTL

---------------------------------------------------------------------------
(* Where the cursor is. *)

\* At these accesses a frame holds nothing of the cursor.
Quiet == KernelAccesses \ (Accesses \ {"putc", "puts", "done"})

\* Whatever the kernel does, it is an access of putc, or leaves the cursor alone.
StaysDeep == UNCHANGED <<requested, budget>>
Prints    == (Wrap \/ ClearScreen \/ Special \/ Plain \/ SetCursor) /\ StaysDeep
GoesOn    == /\ Replaces(Top') /\ Top.at \in Quiet /\ Top'.at \in Quiet /\ con' = con
             /\ Top'.int_no = Top.int_no /\ StaysDeep
Enters    == /\ Len(stack') = Len(stack) + 1
             /\ \A k \in 1 .. Len(stack) : stack'[k] = stack[k]
             /\ Top'.at \in Quiet /\ con' = con
             /\ \/ Top'.int_no = Fault /\ StaysDeep
                \/ \E i \in Levels : Top'.int_no = Irq(i) /\ Deliver(i)
Leaves    == /\ Len(stack) > 1 /\ Len(stack') = Len(stack) - 1
             /\ \A k \in 1 .. Len(stack) - 1 : stack'[k] = stack[k]
             /\ Top.at \in Quiet /\ con' = con /\ iflag' /\ StaysDeep
Waits     == UNCHANGED <<con, stack>> /\ (StaysDeep \/ \E i \in Levels : Raise(i))

\* What a step does to the stack, in five ways.
LEMMA StackSteps ==
  ASSUME KInv, [KernelNext]_kernelVars
  PROVE  Prints \/ GoesOn \/ Enters \/ Leaves \/ Waits
<1>1. Typed(IntNos, KernelAccesses) /\ FrameOK(Top) /\ Top.int_no \in IntNos
  BY TypeParts, TopOK, TopTypes DEF KInv
<1>2. Len(stack) \in Nat \ {0} /\ (Top.int_no = Main <=> Len(stack) = 1)
  BY TopOK DEF KInv
<1>3. ASSUME NEW to \in Quiet, Goto(to, 0), con' = con, Top.at \in Quiet, StaysDeep
      PROVE  GoesOn
  <2> DEFINE f == [int_no |-> Top.int_no, at |-> to, text |-> Top.text, reg |-> 0]
  <2>1. Replaces(f)
    BY <1>1, <1>3, GotoTop DEF Typed, Regs, Quiet
  <2> QED BY <1>3, <2>1 DEF Replaces, GoesOn
<1>4. ASSUME NEW text \in Seq(Chars), Puts(text), Top.at \in Quiet, StaysDeep
      PROVE  GoesOn
  <2> DEFINE f == [int_no |-> Top.int_no, at |-> "putc", text |-> text, reg |-> Top.reg]
  <2>1. Replaces(f) /\ con' = con
    BY <1>1, <1>4, PutsTop DEF Typed, KernelAccesses, Accesses
  <2>2. "putc" \in Quiet
    BY DEF Quiet, KernelAccesses, Accesses
  <2> QED BY <1>4, <2>1, <2>2 DEF Replaces, GoesOn
<1>5. ASSUME NEW f \in Frames(IntNos, KernelAccesses, Seq(Chars), Regs),
             stack' = Append(stack, f), f.at \in Quiet, con' = con,
             \/ f.int_no = Fault /\ StaysDeep
             \/ \E i \in Levels : f.int_no = Irq(i) /\ Deliver(i)
      PROVE  Enters
  <2>1. /\ Len(stack') = Len(stack) + 1 /\ Top' = f
        /\ \A k \in 1 .. Len(stack) : stack'[k] = stack[k]
    BY <1>1, <1>5, PushTop DEF Typed
  <2> HIDE DEF StaysDeep
  <2> QED BY <1>5, <2>1 DEF Enters
<1>6. CASE NextChar /\ StaysDeep
  <2> DEFINE at == IF Tail(Top.text) = <<>> THEN "done" ELSE "putc"
             f == [int_no |-> Top.int_no, at |-> at, text |-> Tail(Top.text), reg |-> Top.reg]
  <2>1. Top.at = "puts" /\ Top.text # <<>>
    BY <1>1, <1>6 DEF NextChar, FrameOK, Accesses
  <2>2. Replaces(f) /\ con' = con
    <3>1. {"putc", "done"} \subseteq KernelAccesses
      BY DEF KernelAccesses, Accesses
    <3> QED BY <1>1, <1>6, <2>1, <3>1, NextCharTop DEF Typed
  <2>3. at \in Quiet /\ "puts" \in Quiet
    BY DEF Quiet, KernelAccesses, Accesses
  <2>4. Top' = f /\ f.at = at
    BY <2>2 DEF Replaces
  <2>5. Top'.int_no = Top.int_no
    BY <2>4
  <2> HIDE DEF f, at
  <2> QED BY <1>6, <2>1, <2>2, <2>3, <2>4, <2>5 DEF GoesOn
<1>7. CASE IrqReturn
  <2>1. Top.at = "eoi" /\ Top.int_no # Main
    BY <1>1, <1>7 DEF IrqReturn, FrameOK
  <2>2. Len(stack) > 1
    <3>1. Len(stack) \in Nat \ {0} /\ Len(stack) # 1
      BY <1>2, <2>1
    <3> QED BY <3>1
  <2>3. "eoi" \in Quiet /\ StaysDeep /\ con' = con /\ iflag'
    BY <1>7 DEF IrqReturn, Quiet, KernelAccesses, Accesses, StaysDeep, deviceVars
  <2>4. /\ Len(stack') = Len(stack) - 1
        /\ \A k \in 1 .. Len(stack) - 1 : stack'[k] = stack[k]
    BY <1>1, <1>7, <2>2, PopTop DEF IrqReturn, Typed
  <2> QED BY <2>1, <2>2, <2>3, <2>4 DEF Leaves
<1>8. CASE IrqHandler \/ Sti \/ Cli
  <2>1. Top.at \in Quiet /\ con' = con /\ StaysDeep
    BY <1>8
       DEF IrqHandler, Sti, Cli, Quiet, KernelAccesses, Accesses, StaysDeep, picVars, deviceVars
  <2>2. PICK to \in {"sti", "in", "eoi", "ack"} : Goto(to, 0)
    BY <1>8 DEF IrqHandler, Sti, Cli
  <2>3. to \in Quiet
    BY DEF Quiet, KernelAccesses, Accesses
  <2> QED BY <1>3, <2>1, <2>2, <2>3
<1>9. CASE TimerPrints
  <2>1. Top.at \in Quiet /\ TimerText \in Seq(Chars) /\ StaysDeep
    BY <1>9, KernelAssumption
       DEF TimerPrints, Quiet, KernelAccesses, Accesses, Chars, StaysDeep, deviceVars
  <2> QED BY <1>4, <1>9, <2>1 DEF TimerPrints
<1>10. CASE Yield
  <2>1. Top.at \in Quiet /\ "cli" \in Quiet /\ StaysDeep
    BY <1>10 DEF Yield, Quiet, KernelAccesses, Accesses, StaysDeep, picVars, deviceVars
  <2>2. CASE Goto("cli", 0) /\ con' = con
    BY <1>3, <2>1, <2>2
  <2>3. CASE /\ stack' = Append(stack, [Frame(Fault, "putc") EXCEPT !.text = FaultText])
             /\ con' = con
    <3> DEFINE f == [int_no |-> Fault, at |-> "putc", text |-> FaultText, reg |-> 0]
    <3>1. stack' = Append(stack, f)
      BY <2>3 DEF Frame
    <3>2. /\ f \in Frames(IntNos, KernelAccesses, Seq(Chars), Regs) /\ f.at \in Quiet
          /\ f.int_no = Fault
      BY KernelAssumption DEF Frames, IntNos, KernelAccesses, Accesses, Regs, Quiet
    <3> HIDE DEF f
    <3> QED BY <1>5, <2>1, <2>3, <3>1, <3>2
  <2> QED BY <1>10, <2>2, <2>3 DEF Yield
<1>11. CASE KeyboardIrq
  <2>1. Top.at \in Quiet /\ "eoi" \in Quiet /\ StaysDeep
    BY <1>11 DEF KeyboardIrq, Quiet, KernelAccesses, Accesses, StaysDeep, picVars
  <2>2. ASSUME NEW c \in Chars, Puts(<<c>>) PROVE GoesOn
    <3> DEFINE text == <<c>>
    <3>1. text \in Seq(Chars) /\ Puts(text)
      BY <2>2
    <3> HIDE DEF text
    <3> QED BY <1>4, <2>1, <3>1
  <2>3. Goto("eoi", 0) /\ con' = con => GoesOn
    BY <1>3, <2>1
  <2> QED BY <1>11, <2>2, <2>3 DEF KeyboardIrq
<1>12. CASE MainSteps
  <2>1. Top.at \in Quiet /\ {"enable", "keyboard", "loop"} \subseteq Quiet /\ StaysDeep
    BY <1>12 DEF MainSteps, SetupIdt, Handle, Enable, Quiet, KernelAccesses, Accesses,
                 StaysDeep, picVars, deviceVars
  <2>2. BootText \in Seq(Chars)
    BY KernelAssumption
  <2>3. SetupIdt => GoesOn
    BY <1>4, <2>1, <2>2 DEF SetupIdt
  <2>4. \A to \in {"enable", "keyboard", "loop"} : Goto(to, 0) /\ con' = con => GoesOn
    BY <1>3, <2>1
  <2> QED BY <1>12, <2>3, <2>4 DEF MainSteps, Handle, Enable
<1>13. ASSUME NEW i \in Levels, Deliver(i) PROVE Enters
  <2> DEFINE f == [int_no |-> Irq(i), at |-> "irq", text |-> <<>>, reg |-> 0]
  <2>1. /\ f \in Frames(IntNos, KernelAccesses, Seq(Chars), Regs) /\ f.at \in Quiet
        /\ f.int_no = Irq(i)
    BY DEF Frames, IntNos, KernelAccesses, Regs, Quiet, Accesses
  <2>2. stack' = Append(stack, f) /\ con' = con
    BY <1>13 DEF Deliver, Frame
  <2> HIDE DEF f
  <2> QED BY <1>5, <1>13, <2>1, <2>2
<1>14. CASE Printing /\ StaysDeep
  BY <1>6, <1>14 DEF Printing, Prints
<1>15. (\E i \in Levels : Raise(i)) \/ UNCHANGED kernelVars => Waits
  BY DEF Raise, kernelVars, Waits, StaysDeep
<1>16. CASE Printing /\ UNCHANGED <<iflag, handlers, picVars, deviceVars>>
  BY <1>14, <1>16 DEF StaysDeep, picVars, deviceVars
<1> QED BY <1>7, <1>8, <1>9, <1>10, <1>11, <1>12, <1>13, <1>15, <1>16
        DEF KernelNext, Cpu, Interrupt

\* keyboard_irq and isr_handler, and main when it prints, have the cursor for
\* themselves.
Alone ==
  Top.int_no # Irq(0) =>
    /\ Top.at \in {"rowLoad", "rowStore"} => con.x = 0
    /\ Top.at \in {"line", "top", "clear", "char", "place", "write", "nextLoad", "downLoad",
                   "downStore", "backLoad"} => con.x <= Width - 1
    /\ Top.at \in {"char", "place", "write", "nextLoad", "backLoad", "downLoad"} =>
         con.y <= Height - 1
    /\ Top.at = "clear" => con.y = 0
    /\ Top.at = "place" => Top.reg = Width * con.y
    /\ Top.at = "write" => Top.reg = Width * con.y + con.x

\* The keyboard handler and a fault have nothing above them.
LEMMA AloneNext == KInv /\ Alone /\ [KernelNext]_kernelVars => Alone'
<1> SUFFICES ASSUME KInv, Alone, [KernelNext]_kernelVars, Top'.int_no # Irq(0)
             PROVE  Alone'
  BY DEF Alone
<1>1. Accesses \subseteq KernelAccesses
  BY DEF KernelAccesses
<1>2. Typed(IntNos, KernelAccesses) /\ BackInv /\ FrameOK(Top)
  BY TypeParts, TopOK DEF KInv
<1>3. con.x \in Nat /\ con.y \in Nat /\ Top.reg \in Nat
  BY <1>2, TopTypes
<1>4. Width \in Nat \ {0} /\ Height \in Nat \ {0}
  BY ConsoleAssumption
<1>5. ASSUME NEW from, NEW to, NEW reg, NEW x, NEW y, Moves(from, to, reg, x, y)
      PROVE  /\ Top.at = from /\ Top.int_no # Irq(0)
             /\ Top'.at = to /\ Top'.reg = reg /\ con'.x = x /\ con'.y = y
  BY <1>5 DEF Moves, Replaces
<1>6. CASE Top'.at \in Quiet
  BY <1>6 DEF Alone, Quiet, Accesses
<1>7. CASE Wrap
  <2>1. \/ Moves("putc", IF con.x > Width - 1 THEN "left" ELSE "line", 0, con.x, con.y)
        \/ Moves("left", "rowLoad", 0, 0, con.y)
        \/ Moves("rowLoad", "rowStore", con.y, con.x, con.y)
        \/ Moves("rowStore", "line", 0, con.x, Top.reg + 1)
        \/ Moves("line", IF con.y > Height - 1 THEN "top" ELSE "char", 0, con.x, con.y)
        \/ Moves("top", "clear", 0, con.x, 0)
    BY <1>1, <1>2, <1>7, WrapMoves
  <2> QED BY <2>1, <1>3, <1>4, <1>5 DEF Alone
<1>8. CASE ClearScreen
  BY <1>1, <1>2, <1>3, <1>4, <1>5, <1>8, ClearMoves DEF Alone
<1>9. CASE Special
  BY <1>1, <1>2, <1>3, <1>4, <1>5, <1>9, SpecialMoves DEF Alone
<1>10. CASE Plain
  BY <1>1, <1>2, <1>3, <1>4, <1>5, <1>10, PlainMoves DEF Alone, FrameOK, Char
<1>11. CASE SetCursor
  <2>1. Top'.at \in Shows \cup {"puts"}
    BY <1>1, <1>2, <1>5, <1>11, SetCursorMoves
  <2> QED BY <2>1 DEF Alone, Shows
<1>12. CASE Len(stack) > 1 /\ iflag' /\ con' = con
  <2>1. Open(Top') /\ FrameOK(Top') /\ Top'.int_no # Irq(0)
    BY <1>12, KInvNext, TopOKNext DEF KInv
  <2> QED BY <2>1 DEF Alone, Open
<1>13. CASE UNCHANGED <<con, stack>>
  BY <1>13 DEF Alone, Top
<1> QED BY <1>6, <1>7, <1>8, <1>9, <1>10, <1>11, <1>12, <1>13, StackSteps
        DEF Prints, GoesOn, Enters, Leaves, Waits

\* A column and a row on the screen make a cell of the video memory.
LEMMA OnScreen ==
  ASSUME NEW w \in Nat, NEW h \in Nat, NEW x \in Nat, NEW y \in Nat, x < w, y < h
  PROVE  w * y + x < w * h
<1>1. w * (y + 1) <= w * h
  OBVIOUS
<1> QED BY <1>1

\* What is printed by anyone but the timer is on the screen.
THEOREM EchoStaysOnScreen == KernelSpec => []EchoOnScreen
<1>1. KernelInit => Alone
  BY DEF KernelInit, Alone, Top, Frame
<1>2. KInv /\ Alone => EchoOnScreen
  <2> SUFFICES ASSUME KInv, Alone, Top.at = "write", Top.int_no # Irq(0)
               PROVE  Top.reg \in 0 .. Size - 1
    BY DEF EchoOnScreen
  <2>1. con.x \in Nat /\ con.y \in Nat /\ Top.reg \in Nat
    BY TypeParts, TopTypes DEF KInv
  <2>2. Width \in Nat /\ Height \in Nat /\ con.x < Width /\ con.y < Height
    BY <2>1, ConsoleAssumption DEF Alone
  <2>3. Top.reg < Size /\ Size \in Nat
    BY <2>1, <2>2, OnScreen, TimesNat DEF Alone, Size
  <2> QED BY <2>1, <2>3
<1>3. KernelSpec => KernelInit /\ [][KernelNext]_kernelVars
  BY PTL DEF KernelSpec
<1> QED BY <1>1, <1>2, <1>3, AloneNext, KernelInvariant, PTL

---------------------------------------------------------------------------
(* How far the handlers that are interrupted between a test of putc and    *)
(* the store behind it move the cursor.                                    *)

\* A frame that has tested the cursor and is still to move it owes a column or a
\* line.
OwesColumn == {"rowLoad", "rowStore", "line", "top", "clear", "char", "place", "write",
               "nextLoad"}
OwesLine   == {"clear", "char", "downLoad", "downStore"}
Untested   == {"line", "top"}

\* The first n frames of s at accesses in A.
Count(s, A, n) == Cardinality({k \in 1 .. n : s[k].at \in A})
One(p)         == IF p THEN 1 ELSE 0

\* What a frame holds of the cursor, above frames that owe c columns and l lines
\* with u that are to test the line; at most d handlers are nested.
Held(d, f, c, l, u) ==
  /\ f.at = "xStore"    => f.reg + c <= Width - 1 + d
  /\ f.at = "rowStore"  => f.reg + l <= Height - 1 + d + u
  /\ f.at = "downStore" => f.reg + 1 + l <= Height - 1 + d + u
  /\ f.at = "place"     => f.reg <= Width * (Height - 3 + 2 * d)
  /\ f.at = "write"     => f.reg <= Width * (Height - 3 + 2 * d) + Width - 2 + d

HeldAt(d, s, k) ==
  Held(d, s[k], Count(s, OwesColumn, k - 1), Count(s, OwesLine, k - 1),
       Count(s, Untested, k - 1))

Bounded(d, s, x, y) ==
  /\ x + Count(s, OwesColumn, Len(s)) <= Width - 1 + d
  /\ y + Count(s, OwesLine, Len(s)) <= Height - 1 + d + Count(s, Untested, Len(s))
  /\ \A k \in 1 .. Len(s) : HeldAt(d, s, k)

\* The frames that wait at some places are a number,
LEMMA CountType ==
  ASSUME NEW s, NEW A, NEW n \in Nat
  PROVE  /\ IsFiniteSet({k \in 1 .. n : s[k].at \in A})
         /\ Count(s, A, n) \in Nat
<1>1. IsFiniteSet(1 .. n)
  BY FS_Interval
<1>2. {k \in 1 .. n : s[k].at \in A} \in SUBSET (1 .. n)
  OBVIOUS
<1>3. IsFiniteSet({k \in 1 .. n : s[k].at \in A})
  BY <1>1, <1>2, FS_Subset
<1> QED BY <1>3, FS_CardinalityType DEF Count

\* which the last frame adds to,
LEMMA CountLast ==
  ASSUME NEW s, NEW A, NEW n \in Nat \ {0}
  PROVE  Count(s, A, n) = Count(s, A, n - 1) + One(s[n].at \in A)
<1> DEFINE S == {k \in 1 .. n - 1 : s[k].at \in A}
           T == {k \in 1 .. n : s[k].at \in A}
<1>0. n - 1 \in Nat /\ n \notin S
  OBVIOUS
<1>1. IsFiniteSet(S) /\ Cardinality(S) \in Nat /\ n \notin S
  BY <1>0, CountType DEF Count
<1>2. CASE s[n].at \in A
  <2>1. T = S \cup {n}
    BY <1>2
  <2> HIDE DEF S, T
  <2>2. Cardinality(T) = Cardinality(S) + 1
    BY <1>1, <2>1, FS_AddElement
  <2> QED BY <1>2, <2>2 DEF S, T, Count, One
<1>3. CASE s[n].at \notin A
  <2>1. T = S
    BY <1>3
  <2>2. Count(s, A, n) = Cardinality(T) /\ Count(s, A, n - 1) = Cardinality(S)
    BY DEF Count
  <2> HIDE DEF S, T
  <2> QED BY <1>1, <1>3, <2>1, <2>2 DEF One
<1> QED BY <1>2, <1>3

\* which depends on these frames alone,
LEMMA CountSame ==
  ASSUME NEW s, NEW t, NEW A, NEW n \in Nat, \A k \in 1 .. n : t[k] = s[k]
  PROVE  Count(t, A, n) = Count(s, A, n)
<1>1. {k \in 1 .. n : t[k].at \in A} = {k \in 1 .. n : s[k].at \in A}
  OBVIOUS
<1> QED BY <1>1 DEF Count

\* main owes nothing once it is interrupted.
LEMMA CountBelow ==
  ASSUME NEW s, NEW A, NEW n \in Nat \ {0}, s[1].at \notin A
  PROVE  Count(s, A, n) <= n - 1
<1> DEFINE S == {k \in 1 .. n : s[k].at \in A}
<1>1. S \in SUBSET (2 .. n)
  OBVIOUS
<1> HIDE DEF S
<1>2. IsFiniteSet(2 .. n) /\ Cardinality(2 .. n) = n - 1
  BY FS_Interval
<1>3. Cardinality(S) <= n - 1
  BY <1>1, <1>2, FS_Subset
<1> QED BY <1>3 DEF S, Count

\* and which is 0 of no frames.
LEMMA CountNone ==
  ASSUME NEW s, NEW A PROVE Count(s, A, 0) = 0
<1>1. {k \in 1 .. 0 : s[k].at \in A} = {}
  OBVIOUS
<1> QED BY <1>1, FS_EmptySet DEF Count

\* The part of Bounded that the frame on top, f, has to do with.
Local(d, f, x, y, c, l, u) ==
  /\ x + c + One(f.at \in OwesColumn) <= Width - 1 + d
  /\ y + l + One(f.at \in OwesLine) <= Height - 1 + d + u + One(f.at \in Untested)
  /\ Held(d, f, c, l, u)

\* The bounds, split into those of the frame on top and of those below it.
LEMMA BoundedTop ==
  ASSUME NEW d \in Nat, NEW F, NEW s \in Seq(F), s # <<>>, NEW x \in Nat, NEW y \in Nat
  PROVE  Bounded(d, s, x, y) <=>
           /\ Local(d, s[Len(s)], x, y, Count(s, OwesColumn, Len(s) - 1),
                    Count(s, OwesLine, Len(s) - 1), Count(s, Untested, Len(s) - 1))
           /\ \A k \in 1 .. Len(s) - 1 : HeldAt(d, s, k)
<1> DEFINE n == Len(s)
<1>1. n \in Nat \ {0} /\ n - 1 \in Nat
  OBVIOUS
<1> HIDE DEF n
<1>2. \A A : /\ Count(s, A, n) = Count(s, A, n - 1) + One(s[n].at \in A)
             /\ Count(s, A, n - 1) \in Nat
  BY <1>1, CountLast, CountType
<1>3. \A p : One(p) \in {0, 1}
  BY DEF One
<1>4. (\A k \in 1 .. n : HeldAt(d, s, k)) <=>
        HeldAt(d, s, n) /\ \A k \in 1 .. n - 1 : HeldAt(d, s, k)
  <2>1. \A k : k \in 1 .. n <=> k = n \/ k \in 1 .. n - 1
    BY <1>1
  <2> QED BY <2>1, <1>1
<1> DEFINE cx == Count(s, OwesColumn, n - 1)
           cl == Count(s, OwesLine, n - 1)
           cu == Count(s, Untested, n - 1)
           ox == One(s[n].at \in OwesColumn)
           ol == One(s[n].at \in OwesLine)
           ou == One(s[n].at \in Untested)
<1>5. /\ Count(s, OwesColumn, n) = cx + ox /\ Count(s, OwesLine, n) = cl + ol
      /\ Count(s, Untested, n) = cu + ou
      /\ {cx, cl, cu, ox, ol, ou} \subseteq Nat
  BY <1>2, <1>3
<1>6. /\ Bounded(d, s, x, y) <=>
           /\ x + Count(s, OwesColumn, n) <= Width - 1 + d
           /\ y + Count(s, OwesLine, n) <= Height - 1 + d + Count(s, Untested, n)
           /\ \A k \in 1 .. n : HeldAt(d, s, k)
  BY DEF Bounded, n
<1>7. /\ Local(d, s[n], x, y, cx, cl, cu) <=>
           /\ x + cx + ox <= Width - 1 + d
           /\ y + cl + ol <= Height - 1 + d + cu + ou
           /\ HeldAt(d, s, n)
  BY DEF Local, HeldAt
<1>8. Width \in Nat /\ Height \in Nat
  BY ConsoleAssumption
<1> HIDE DEF cx, cl, cu, ox, ol, ou
<1>9. /\ x + (cx + ox) = x + cx + ox
      /\ y + (cl + ol) <= Height - 1 + d + (cu + ou) <=> y + cl + ol <= Height - 1 + d + cu + ou
  <2>1. cx \in Nat /\ cl \in Nat /\ cu \in Nat /\ ox \in Nat /\ ol \in Nat /\ ou \in Nat
    BY <1>5
  <2>2. x + (cx + ox) = x + cx + ox
    BY <2>1
  <2>3. y + (cl + ol) = y + cl + ol /\ Height - 1 + d + (cu + ou) = Height - 1 + d + cu + ou
    BY <1>8, <2>1
  <2> QED BY <2>2, <2>3
<1>10. Bounded(d, s, x, y) <=>
         Local(d, s[n], x, y, cx, cl, cu) /\ \A k \in 1 .. n - 1 : HeldAt(d, s, k)
  BY <1>4, <1>5, <1>6, <1>7, <1>9
<1> QED BY <1>10 DEF n, cx, cl, cu

\* Frames that have not changed hold what they held.
LEMMA HeldSame ==
  ASSUME NEW d, NEW s, NEW t, NEW n \in Nat, \A k \in 1 .. n : t[k] = s[k],
         \A k \in 1 .. n : HeldAt(d, s, k)
  PROVE  \A k \in 1 .. n : HeldAt(d, t, k)
<1> SUFFICES ASSUME NEW k \in 1 .. n PROVE HeldAt(d, t, k)
  OBVIOUS
<1>1. k - 1 \in Nat /\ \A j \in 1 .. k - 1 : t[j] = s[j]
  OBVIOUS
<1>2. \A A : Count(t, A, k - 1) = Count(s, A, k - 1)
  BY <1>1, CountSame
<1>3. t[k] = s[k] /\ HeldAt(d, s, k)
  OBVIOUS
<1> QED BY <1>2, <1>3 DEF HeldAt

\* A step of the frame on top leaves the bounds of the others,
LEMMA BoundedReplace ==
  ASSUME NEW d \in Nat, NEW F, NEW s \in Seq(F), s # <<>>, NEW t \in Seq(F), t # <<>>,
         NEW x \in Nat, NEW y \in Nat, NEW v \in Nat, NEW w \in Nat,
         Len(t) = Len(s), \A k \in 1 .. Len(s) - 1 : t[k] = s[k],
         Bounded(d, s, x, y),
         Local(d, t[Len(t)], v, w, Count(s, OwesColumn, Len(s) - 1),
               Count(s, OwesLine, Len(s) - 1), Count(s, Untested, Len(s) - 1))
  PROVE  Bounded(d, t, v, w)
<1> DEFINE n == Len(s)
<1>1. n \in Nat \ {0} /\ n - 1 \in Nat
  OBVIOUS
<1>2. \A k \in 1 .. n - 1 : HeldAt(d, s, k)
  BY BoundedTop
<1> HIDE DEF n
<1>3. \A k \in 1 .. n - 1 : t[k] = s[k]
  BY DEF n
<1>4. \A k \in 1 .. n - 1 : HeldAt(d, t, k)
  BY <1>1, <1>2, <1>3, HeldSame
<1>5. \A A : Count(t, A, n - 1) = Count(s, A, n - 1)
  BY <1>1, <1>3, CountSame
<1>6. Local(d, t[n], v, w, Count(t, OwesColumn, n - 1), Count(t, OwesLine, n - 1),
            Count(t, Untested, n - 1))
  BY <1>5 DEF n
<1> QED BY <1>4, <1>6, BoundedTop DEF n

\* an interrupt leaves them all,
LEMMA BoundedPush ==
  ASSUME NEW d \in Nat, NEW F, NEW s \in Seq(F), s # <<>>, NEW t \in Seq(F), t # <<>>,
         NEW x \in Nat, NEW y \in Nat,
         Len(t) = Len(s) + 1, \A k \in 1 .. Len(s) : t[k] = s[k],
         Bounded(d, s, x, y), t[Len(t)].at \in Quiet
  PROVE  Bounded(d, t, x, y)
<1> DEFINE n == Len(s)
           f == t[Len(t)]
<1>1. n \in Nat \ {0} /\ Len(t) = n + 1 /\ Len(t) - 1 = n
  OBVIOUS
<1>2. /\ x + Count(s, OwesColumn, n) <= Width - 1 + d
      /\ y + Count(s, OwesLine, n) <= Height - 1 + d + Count(s, Untested, n)
      /\ \A k \in 1 .. n : HeldAt(d, s, k)
  BY DEF Bounded
<1> HIDE DEF n
<1>3. \A k \in 1 .. n : t[k] = s[k]
  BY DEF n
<1>4. \A k \in 1 .. n : HeldAt(d, t, k)
  BY <1>1, <1>2, <1>3, HeldSame
<1>5. \A A : Count(t, A, n) = Count(s, A, n)
  BY <1>1, <1>3, CountSame
<1>6. \A A : Count(t, A, n) \in Nat
  BY <1>1, CountType
<1>7. f.at \in Quiet
  OBVIOUS
<1> HIDE DEF f
<1>8. /\ One(f.at \in OwesColumn) = 0 /\ One(f.at \in OwesLine) = 0
      /\ One(f.at \in Untested) = 0
  BY <1>7 DEF One, Quiet, OwesColumn, OwesLine, Untested, Accesses
<1>9. \A c, l, u : Held(d, f, c, l, u)
  BY <1>7 DEF Held, Quiet, Accesses
<1> DEFINE c == Count(t, OwesColumn, n)
           l == Count(t, OwesLine, n)
           u == Count(t, Untested, n)
<1>10. /\ {c, l, u} \subseteq Nat /\ x + c <= Width - 1 + d /\ y + l <= Height - 1 + d + u
  BY <1>2, <1>5, <1>6
<1> HIDE DEF c, l, u
<1>11. Local(d, f, x, y, c, l, u)
  BY <1>8, <1>9, <1>10, ConsoleAssumption DEF Local
<1> QED BY <1>1, <1>4, <1>11, BoundedTop DEF f, c, l, u

\* and so does iret.
LEMMA BoundedPop ==
  ASSUME NEW d \in Nat, NEW F, NEW s \in Seq(F), s # <<>>, NEW t \in Seq(F), t # <<>>,
         NEW x \in Nat, NEW y \in Nat,
         Len(t) = Len(s) - 1, \A k \in 1 .. Len(s) - 1 : t[k] = s[k],
         Bounded(d, s, x, y), s[Len(s)].at \in Quiet
  PROVE  Bounded(d, t, x, y)
<1> DEFINE n == Len(s)
           f == s[n]
<1>1. n \in Nat \ {0} /\ n - 1 \in Nat /\ Len(t) = n - 1
  OBVIOUS
<1>2. /\ Local(d, f, x, y, Count(s, OwesColumn, n - 1), Count(s, OwesLine, n - 1),
               Count(s, Untested, n - 1))
      /\ \A k \in 1 .. n - 1 : HeldAt(d, s, k)
  BY BoundedTop
<1> HIDE DEF n
<1>3. \A k \in 1 .. n - 1 : t[k] = s[k]
  BY DEF n
<1>4. \A k \in 1 .. n - 1 : HeldAt(d, t, k)
  BY <1>1, <1>2, <1>3, HeldSame
<1>5. \A A : Count(t, A, n - 1) = Count(s, A, n - 1)
  BY <1>1, <1>3, CountSame
<1>6. \A A : Count(s, A, n - 1) \in Nat
  BY <1>1, CountType
<1>7. f.at \in Quiet
  BY DEF n
<1> HIDE DEF f
<1>8. /\ One(f.at \in OwesColumn) = 0 /\ One(f.at \in OwesLine) = 0
      /\ One(f.at \in Untested) = 0
  BY <1>7 DEF One, Quiet, OwesColumn, OwesLine, Untested, Accesses
<1> DEFINE c == Count(s, OwesColumn, n - 1)
           l == Count(s, OwesLine, n - 1)
           u == Count(s, Untested, n - 1)
<1>9. {c, l, u} \subseteq Nat /\ Local(d, f, x, y, c, l, u)
  BY <1>2, <1>6
<1> HIDE DEF c, l, u
<1>10. x + c <= Width - 1 + d /\ y + l <= Height - 1 + d + u
  BY <1>8, <1>9, ConsoleAssumption DEF Local
<1> QED BY <1>1, <1>4, <1>5, <1>10 DEF Bounded, c, l, u

\* An access of putc, above c, l, u.
LEMMA LocalNext ==
  ASSUME KInv, Alone, NEW d \in Nat \ {0}, NEW c \in 0 .. d - 1, NEW l \in 0 .. d - 1,
         NEW u \in 0 .. d - 1, Local(d, Top, con.x, con.y, c, l, u),
         Wrap \/ ClearScreen \/ Special \/ Plain \/ SetCursor
  PROVE  Local(d, Top', con'.x, con'.y, c, l, u)
<1> DEFINE Good == Local(d, Top', con'.x, con'.y, c, l, u)
<1>1. Accesses \subseteq KernelAccesses
  BY DEF KernelAccesses
<1>2. Typed(IntNos, KernelAccesses) /\ BackInv /\ FrameOK(Top)
  BY TypeParts, TopOK DEF KInv
<1>3. con.x \in Nat /\ con.y \in Nat /\ Top.reg \in Nat
  BY <1>2, TopTypes
<1>4. Width \in Nat \ {0} /\ Height \in Nat \ {0}
  BY ConsoleAssumption
<1>5. ASSUME NEW from, NEW to, NEW reg, NEW x, NEW y, Moves(from, to, reg, x, y)
      PROVE  /\ Top.at = from /\ Top'.at = to /\ Top'.reg = reg /\ con'.x = x /\ con'.y = y
  BY <1>5 DEF Moves, Replaces
<1>6. One(TRUE) = 1 /\ One(FALSE) = 0
  BY DEF One
<1>7. CASE Wrap
  <2>1. \/ Moves("putc", IF con.x > Width - 1 THEN "left" ELSE "line", 0, con.x, con.y)
        \/ Moves("left", "rowLoad", 0, 0, con.y)
        \/ Moves("rowLoad", "rowStore", con.y, con.x, con.y)
        \/ Moves("rowStore", "line", 0, con.x, Top.reg + 1)
        \/ Moves("line", IF con.y > Height - 1 THEN "top" ELSE "char", 0, con.x, con.y)
        \/ Moves("top", "clear", 0, con.x, 0)
    BY <1>1, <1>2, <1>7, WrapMoves
  <2> QED BY <2>1, <1>3, <1>4, <1>5 DEF Local, Held, One, OwesColumn, OwesLine, Untested
<1>8. CASE ClearScreen
  BY <1>1, <1>2, <1>3, <1>4, <1>5, <1>8, ClearMoves
     DEF Local, Held, One, OwesColumn, OwesLine, Untested
<1>9. CASE Special
  <2>1. \/ Char = "cr" /\ Moves("char", "cursor", 0, 0, con.y)
        \/ Char = "nl" /\ Moves("char", "downLoad", 0, 0, con.y)
        \/ /\ Char = "bs"
           /\ Moves("char", IF con.x > 0 THEN "backLoad" ELSE "cursor", 0, con.x, con.y)
        \/ Char = "tab" /\ Moves("char", "xStore", NextStop(con.x), con.x, con.y)
        \/ Moves("downLoad", "downStore", con.y, con.x, con.y)
        \/ Moves("downStore", "cursor", 0, con.x, Top.reg + 1)
        \/ Moves("backLoad", "xStore", con.x - 1, con.x, con.y)
        \/ Moves("xStore", "cursor", 0, Top.reg, con.y)
    BY <1>1, <1>2, <1>9, SpecialMoves
  <2>2. CASE Char = "tab" /\ Moves("char", "xStore", NextStop(con.x), con.x, con.y)
    <3>1. Top.at = "char" /\ Char = "tab"
      BY <1>5, <2>2
    <3>2. Top.int_no # Irq(0)
      BY <1>2, <3>1, TimerNoTab DEF Char
    <3>3. con.x <= Width - 1
      BY <3>1, <3>2 DEF Alone
    <3>4. NextStop(con.x) <= Width /\ NextStop(con.x) \in Nat
      BY <1>3, <1>4, <3>3, NextStopBound, NextStopNat
    <3> QED BY <1>3, <1>4, <1>5, <2>2, <3>4
            DEF Local, Held, One, OwesColumn, OwesLine, Untested
  <2>3. CASE ~(Char = "tab" /\ Moves("char", "xStore", NextStop(con.x), con.x, con.y))
    BY <2>1, <2>3, <1>3, <1>4, <1>5 DEF Local, Held, One, OwesColumn, OwesLine, Untested
  <2> QED BY <2>2, <2>3
<1>10. CASE Plain
  <2>1. \/ Moves("char", "place", Width * con.y, con.x, con.y)
        \/ Moves("place", "write", Top.reg + con.x, con.x, con.y)
        \/ Moves("write", "nextLoad", 0, con.x, con.y)
        \/ Moves("nextLoad", "xStore", con.x + 1, con.x, con.y)
    BY <1>1, <1>2, <1>10, PlainMoves DEF FrameOK, Char
  <2>2. CASE Moves("char", "place", Width * con.y, con.x, con.y)
    <3>1. Top.at = "char" /\ con.y <= Height - 3 + 2 * d
      BY <1>3, <1>4, <1>5, <2>2 DEF Local, One, OwesColumn, OwesLine, Untested
    <3>2. Width * con.y <= Width * (Height - 3 + 2 * d)
      BY <1>3, <1>4, <3>1
    <3> QED BY <1>3, <1>4, <1>5, <2>2, <3>2
            DEF Local, Held, One, OwesColumn, OwesLine, Untested
  <2>3. CASE ~Moves("char", "place", Width * con.y, con.x, con.y)
    BY <2>1, <2>3, <1>3, <1>4, <1>5 DEF Local, Held, One, OwesColumn, OwesLine, Untested
  <2> QED BY <2>2, <2>3
<1>11. CASE SetCursor
  <2>1. /\ Top.at \in Shows /\ Top'.at \in Shows \cup {"puts"}
        /\ con'.x = con.x /\ con'.y = con.y
    BY <1>1, <1>2, <1>5, <1>11, SetCursorMoves
  <2> QED BY <2>1, <1>3, <1>4 DEF Local, Held, One, OwesColumn, OwesLine, Untested, Shows
<1> QED BY <1>7, <1>8, <1>9, <1>10, <1>11

\* Below the frame on top, at most d - 1 handlers owe.
LEMMA FewOwe ==
  ASSUME KInv, NEW d \in Nat \ {0}, Len(stack) <= d + 1,
         NEW A, A \cap {"keyboard", "loop"} = {}
  PROVE  Count(stack, A, Len(stack) - 1) \in 0 .. d - 1
<1> DEFINE n == Len(stack)
<1>1. n \in Nat \ {0} /\ n - 1 \in Nat /\ n <= d + 1
  <2>1. Len(stack) \in Nat \ {0}
    BY TopOK DEF KInv
  <2> QED BY <2>1
<1>2. ASSUME n > 1 PROVE stack[1].at \notin A
  <2>1. 1 \in 1 .. n /\ 1 \in 1 .. n - 1
    BY <1>1, <1>2
  <2>2. Open(stack[1]) /\ stack[1].int_no = Main
    BY <2>1 DEF KInv, Nesting
  <2> QED BY <2>2 DEF Open
<1> HIDE DEF n
<1>3. CASE n = 1
  <2>1. Count(stack, A, n - 1) = 0
    BY <1>3, CountNone
  <2> QED BY <2>1 DEF n
<1>4. CASE n > 1
  <2> DEFINE m == n - 1
  <2>1. m \in Nat \ {0} /\ m <= d
    BY <1>1, <1>4
  <2> HIDE DEF m
  <2>2. Count(stack, A, m) <= m - 1
    BY <1>2, <1>4, <2>1, CountBelow
  <2>3. Count(stack, A, m) \in Nat
    BY <2>1, CountType
  <2>4. Count(stack, A, m) \in 0 .. d - 1
    BY <2>1, <2>2, <2>3
  <2> QED BY <2>4 DEF m, n
<1> QED BY <1>1, <1>3, <1>4

\* Every step of the kernel keeps the bounds.
LEMMA BoundedNext ==
  ASSUME NEW d \in Nat \ {0}, KInv, Alone, Len(stack) <= d + 1,
         Bounded(d, stack, con.x, con.y), [KernelNext]_kernelVars
  PROVE  Bounded(d, stack', con'.x, con'.y)
<1> DEFINE n == Len(stack)
           F == Frames(IntNos, KernelAccesses, Seq(Chars), Regs)
           c == Count(stack, OwesColumn, n - 1)
           l == Count(stack, OwesLine, n - 1)
           u == Count(stack, Untested, n - 1)
<1>1. KInv'
  BY KInvNext
<1>2. Typed(IntNos, KernelAccesses) /\ Typed(IntNos, KernelAccesses)'
  BY <1>1, TypeParts DEF KInv
<1>3. /\ stack \in Seq(F) /\ stack # <<>> /\ stack' \in Seq(F) /\ stack' # <<>>
      /\ con.x \in Nat /\ con.y \in Nat /\ con'.x \in Nat /\ con'.y \in Nat
  BY <1>2 DEF Typed, Consoles
<1>4. stack[Len(stack)] = Top /\ stack'[Len(stack')] = Top'
  BY DEF Top
<1>5. c \in 0 .. d - 1 /\ l \in 0 .. d - 1 /\ u \in 0 .. d - 1
  BY FewOwe DEF OwesColumn, OwesLine, Untested
<1>6. Local(d, Top, con.x, con.y, c, l, u)
  BY <1>3, <1>4, BoundedTop
<1> HIDE DEF F, c, l, u
<1>7. ASSUME Replaces(Top'), Local(d, Top', con'.x, con'.y, c, l, u)
      PROVE  Bounded(d, stack', con'.x, con'.y)
  BY <1>3, <1>4, <1>7, BoundedReplace DEF Replaces, c, l, u
<1>8. CASE Wrap \/ ClearScreen \/ Special \/ Plain \/ SetCursor
  <2>1. Local(d, Top', con'.x, con'.y, c, l, u)
    BY <1>5, <1>6, <1>8, LocalNext
  <2>2. Kept
    BY <1>2, <1>8, PrintingKeeps, TopOK DEF KInv, Printing
  <2> QED BY <1>7, <2>1, <2>2 DEF Kept
<1>9. CASE GoesOn
  <2>1. Local(d, Top', con.x, con.y, c, l, u)
    BY <1>6, <1>9
       DEF GoesOn, Local, Held, One, Quiet, OwesColumn, OwesLine, Untested, Accesses
  <2> QED BY <1>7, <1>9, <2>1 DEF GoesOn
<1>10. CASE Enters
  BY <1>3, <1>4, <1>10, BoundedPush DEF Enters
<1>11. CASE Leaves
  BY <1>3, <1>4, <1>11, BoundedPop DEF Leaves
<1>12. CASE Waits
  BY <1>12 DEF Waits
<1> QED BY <1>8, <1>9, <1>10, <1>11, <1>12, StackSteps DEF Prints

\* What holds while at most d handlers are on top of main.
StoresInv(d) == KInv /\ Alone /\ Bounded(d, stack, con.x, con.y)

\* It holds before the first interrupt.
LEMMA StoresInit ==
  ASSUME NEW D \in Nat \ {0}, KernelInit PROVE StoresInv(D)
<1>1. KInv /\ Alone
  BY KInvInit DEF KernelInit, Alone, Top, Frame
<1>2. /\ stack = <<Frame(Main, "setup_idt")>> /\ con.x = 0 /\ con.y = 0
  BY DEF KernelInit, Cleared
<1>3. /\ Len(stack) = 1 /\ stack[1].at = "setup_idt" /\ \A k \in 1 .. Len(stack) : k = 1
  BY <1>2 DEF Frame
<1>4. \A A : "setup_idt" \notin A => Count(stack, A, 1) = 0
  <2> SUFFICES ASSUME NEW A, "setup_idt" \notin A PROVE Count(stack, A, 1) = 0
    OBVIOUS
  <2>1. stack[1].at \notin A /\ 1 \in Nat \ {0}
    BY <1>3
  <2>2. Count(stack, A, 1) <= 1 - 1
    BY <2>1, CountBelow
  <2>3. Count(stack, A, 1) \in Nat
    BY <2>1, CountType
  <2> QED BY <2>2, <2>3
<1>5. /\ Count(stack, OwesColumn, 1) = 0 /\ Count(stack, OwesLine, 1) = 0
      /\ Count(stack, Untested, 1) = 0
  BY <1>4 DEF OwesColumn, OwesLine, Untested
<1>6. \A k \in 1 .. Len(stack) : HeldAt(D, stack, k)
  BY <1>3 DEF HeldAt, Held
<1> QED BY <1>1, <1>2, <1>3, <1>5, <1>6, ConsoleAssumption DEF Bounded, StoresInv

\* And the store of putc finds its place in the video memory.
LEMMA StoresFit ==
  ASSUME NEW D \in Nat \ {0}, Width * (Height - 2 + 2 * D) + D - 1 <= VideoSize,
         StoresInv(D)
  PROVE  StoresInVideoMemory
<1> SUFFICES ASSUME Top.at = "write" PROVE Top.reg \in 0 .. VideoSize - 1
  BY DEF StoresInVideoMemory
<1>1. Top.reg \in Nat /\ Len(stack) \in Nat \ {0}
  BY TypeParts, TopTypes, TopOK DEF KInv, StoresInv
<1>2. HeldAt(D, stack, Len(stack))
  BY <1>1 DEF Bounded, StoresInv
<1>3. Top.reg <= Width * (Height - 3 + 2 * D) + Width - 2 + D
  BY <1>2 DEF HeldAt, Held, Top
<1>4. Width \in Nat /\ Height \in Nat /\ VideoSize \in Nat
  BY ConsoleAssumption
<1>5. Width * (Height - 2 + 2 * D) = Width * (Height - 3 + 2 * D) + Width
  BY <1>4
<1> QED BY <1>1, <1>3, <1>4, <1>5

\* With at most D handlers on top of main, no store of putc misses the video memory,
\* if that goes as far behind the screen as D handlers can move the cursor.  For the
\* 16384 characters of the real one that is 90 handlers, more than the 8 KB of the
\* boot stack (0boot.s:38) hold: a bound on the depth, and on nothing that happened
\* since the boot.
THEOREM StoresStayInVideoMemory ==
  ASSUME NEW D \in Nat \ {0}, Width * (Height - 2 + 2 * D) + D - 1 <= VideoSize
  PROVE  KernelSpec /\ [](Len(stack) <= D + 1) => []StoresInVideoMemory
<1> DEFINE Shallow == Len(stack) <= D + 1
<1>1. KernelInit => StoresInv(D)
  BY StoresInit
<1>2. StoresInv(D) /\ Shallow /\ [KernelNext]_kernelVars => StoresInv(D)'
  BY KInvNext, AloneNext, BoundedNext DEF StoresInv
<1>3. StoresInv(D) => StoresInVideoMemory
  BY StoresFit
<1>4. KernelSpec => KernelInit /\ [][KernelNext]_kernelVars
  BY PTL DEF KernelSpec
<1> HIDE DEF Shallow
<1>5. KernelSpec /\ []Shallow => []StoresInVideoMemory
  BY <1>1, <1>2, <1>3, <1>4, PTL
<1> QED BY <1>5 DEF Shallow

---------------------------------------------------------------------------
(* How deep the handlers nest: all but the one on top are timers. *)

\* The timers on a stack of n frames, with that of handler h on top.
Timers(n, h) == n - (IF h \in {Main, Irq(0)} THEN 1 ELSE 2)

\* Each timer handler on the stack has used up one interrupt of the timer.
TimersPaid ==
  Timers(Len(stack), Top.int_no) + budget[0] + One(0 \in requested) <= Budget[0]

\* A handler of the timer is paid for when its interrupt is raised and delivered;
\* the others leave room for the next one only when they return.
LEMMA PaidNext == KInv /\ TimersPaid /\ [KernelNext]_kernelVars => TimersPaid'
<1> SUFFICES ASSUME KInv, TimersPaid, [KernelNext]_kernelVars PROVE TimersPaid'
  OBVIOUS
<1> DEFINE n == Len(stack)
<1>1. KInv' /\ n \in Nat \ {0}
  BY KInvNext, TopOK DEF KInv
<1>2. /\ budget \in [Levels -> Nat] /\ 0 \in Levels /\ Budget[0] \in Nat
      /\ \A p : One(p) \in {0, 1}
  BY KernelAssumption DEF KInv, KernelTypeOK, One
<1>3. budget[0] \in Nat
  BY <1>2
<1>4. Timers(n, Top.int_no) \in {n - 1, n - 2}
  BY DEF Timers
<1>5. ASSUME Len(stack') = n, Top'.int_no = Top.int_no, StaysDeep PROVE TimersPaid'
  BY <1>5 DEF TimersPaid, StaysDeep
<1>6. CASE Prints
  <2>1. Kept
    BY <1>6, PrintingKeeps, TypeParts, TopOK DEF KInv, Prints, Printing
  <2> QED BY <1>5, <1>6, <2>1 DEF Kept, Replaces, Prints
<1>7. CASE GoesOn
  BY <1>5, <1>7 DEF GoesOn, Replaces
<1>8. CASE Enters
  <2>1. Len(stack') = n + 1 /\ stack'[n] = Top
    BY <1>1, <1>8 DEF Enters, Top
  <2>2. Open(Top)
    BY <1>1, <2>1 DEF KInv, Nesting
  <2>3. Timers(n, Top.int_no) = n - 1
    BY <2>2 DEF Timers, Open
  <2> HIDE DEF n
  <2>4. CASE Top'.int_no = Fault /\ StaysDeep
    <3>1. Timers(n + 1, Top'.int_no) = n - 1
      BY <1>1, <2>4 DEF Timers, Main, Irq, Fault
    <3> QED BY <2>1, <2>3, <2>4, <3>1 DEF TimersPaid, StaysDeep, n
  <2>5. ASSUME NEW i \in Levels, Top'.int_no = Irq(i), Deliver(i) PROVE TimersPaid'
    <3>1. i \in requested /\ requested' = requested \ {i} /\ budget' = budget
      BY <2>5 DEF Deliver, deviceVars
    <3>2. i \in 0 .. 15
      BY KernelAssumption
    <3>3. CASE i = 0
      <4>1. Timers(n + 1, Top'.int_no) = n
        BY <1>1, <2>5, <3>3 DEF Timers
      <4>2. One(0 \in requested) = 1 /\ One(0 \in requested') = 0
        BY <3>1, <3>3 DEF One
      <4>3. n - 1 + budget[0] + 1 <= Budget[0]
        BY <2>3, <4>2 DEF TimersPaid, n
      <4>4. n + budget[0] + 0 <= Budget[0]
        BY <1>1, <1>2, <1>3, <4>3
      <4> QED BY <2>1, <3>1, <4>1, <4>2, <4>4 DEF TimersPaid, n
    <3>4. CASE i # 0
      <4>1. Timers(n + 1, Top'.int_no) = n - 1
        BY <1>1, <2>5, <3>2, <3>4 DEF Timers, Main, Irq
      <4>2. 0 \in requested' <=> 0 \in requested
        BY <3>1, <3>4
      <4> QED BY <2>1, <2>3, <3>1, <4>1, <4>2 DEF TimersPaid, n, One
    <3> QED BY <3>3, <3>4
  <2> QED BY <1>8, <2>4, <2>5 DEF Enters
<1>9. CASE Leaves
  <2>1. Open(Top')
    BY <1>1, <1>9, TopOKNext DEF KInv, Leaves
  <2>2. Timers(n - 1, Top'.int_no) = n - 1 - 1
    BY <2>1 DEF Timers, Open
  <2>3. Len(stack') = n - 1 /\ StaysDeep
    BY <1>9 DEF Leaves
  <2> HIDE DEF n
  <2>4. Timers(n, Top.int_no) + budget[0] + One(0 \in requested) <= Budget[0]
    BY DEF TimersPaid, n
  <2>5. One(0 \in requested) \in Nat
    BY <1>2
  <2>6. n - 1 - 1 + budget[0] + One(0 \in requested) <= Budget[0]
    BY <1>1, <1>2, <1>3, <1>4, <2>4, <2>5
  <2> QED BY <2>2, <2>3, <2>6 DEF TimersPaid, StaysDeep
<1>10. CASE Waits /\ StaysDeep
  BY <1>5, <1>10 DEF Waits, Top
<1>11. ASSUME NEW i \in Levels, Raise(i), UNCHANGED <<con, stack>> PROVE TimersPaid'
  <2>1. /\ budget[i] > 0 /\ budget' = [budget EXCEPT ![i] = @ - 1]
        /\ requested' = requested \cup {i}
    BY <1>11 DEF Raise
  <2>2. Len(stack') = n /\ Top'.int_no = Top.int_no
    BY <1>11 DEF Top
  <2> HIDE DEF n
  <2>3. CASE i = 0
    <3>1. budget'[0] = budget[0] - 1
      BY <1>2, <2>1, <2>3
    <3>2. One(0 \in requested') = 1 /\ One(0 \in requested) >= 0
      BY <2>1, <2>3, <1>2 DEF One
    <3>3. Timers(n, Top.int_no) + budget[0] + One(0 \in requested) <= Budget[0]
      BY DEF TimersPaid, n
    <3>4. One(0 \in requested) \in Nat
      BY <1>2
    <3>5. Timers(n, Top.int_no) + (budget[0] - 1) + 1 <= Budget[0]
      BY <1>1, <1>2, <1>3, <1>4, <3>2, <3>3, <3>4
    <3> QED BY <2>2, <3>1, <3>2, <3>5 DEF TimersPaid
  <2>4. CASE i # 0
    <3>1. budget'[0] = budget[0] /\ (0 \in requested' <=> 0 \in requested)
      BY <1>2, <2>1, <2>4
    <3> QED BY <2>2, <3>1 DEF TimersPaid, One, n
  <2> QED BY <2>3, <2>4
<1> QED BY <1>6, <1>7, <1>8, <1>9, <1>10, <1>11, StackSteps DEF Waits

\* It holds before the first interrupt.
LEMMA PaidInit == KernelInit => TimersPaid
<1> SUFFICES ASSUME KernelInit PROVE TimersPaid
  OBVIOUS
<1>1. Budget[0] \in Nat
  BY KernelAssumption
<1>2. Len(stack) = 1 /\ Top.int_no = Main /\ budget = Budget /\ requested = {}
  BY DEF KernelInit, Frame, Top
<1>3. Timers(1, Main) = 0 /\ One(0 \in {}) = 0
  BY DEF Timers, One
<1> QED BY <1>1, <1>2, <1>3 DEF TimersPaid

\* And bounds the stack by those raised so far,
LEMMA PaidNesting == KInv /\ TimersPaid => NestingCostsTimers
<1> SUFFICES ASSUME KInv, TimersPaid PROVE NestingCostsTimers
  OBVIOUS
<1>1. /\ Len(stack) \in Nat /\ Budget[0] \in Nat /\ budget[0] \in Nat
      /\ One(0 \in requested) \in Nat
  BY KernelAssumption DEF KInv, KernelTypeOK, One
<1>2. Timers(Len(stack), Top.int_no) \in {Len(stack) - 1, Len(stack) - 2}
  BY DEF Timers
<1> DEFINE n == Len(stack)
<1>3. Timers(n, Top.int_no) + budget[0] + One(0 \in requested) <= Budget[0]
  BY DEF TimersPaid
<1> HIDE DEF n
<1>4. n <= Budget[0] - budget[0] + 2
  BY <1>1, <1>2, <1>3 DEF n
<1> QED BY <1>4 DEF NestingCostsTimers, n

\* However interrupts come, the stack is no higher than those the timer has raised,
\* main, and one handler more.
THEOREM NestingIsPaidFor == KernelSpec => []NestingCostsTimers
<1>1. KernelSpec => KernelInit /\ [][KernelNext]_kernelVars
  BY PTL DEF KernelSpec
<1> QED BY <1>1, PaidInit, PaidNesting, PaidNext, KernelInvariant, PTL
=============================================================================
