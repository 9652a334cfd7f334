---------------------------- MODULE ConsoleProofs ----------------------------
(* Proofs about Console, for every screen and every text. *)
EXTENDS Console, Arithmetic, TLAPS

Frames(I, A, T, R) == [int_no : I, at : A, text : T, reg : R]

Moved(g, to, r)     == [g EXCEPT !.at = to, !.reg = r]
Retexted(g, to, t) == [g EXCEPT !.at = to, !.text = t]

\* The stack with frame f in place of the one on top.
Replaces(f) ==
  /\ Len(stack') = Len(stack)
  /\ \A k \in 1 .. Len(stack) - 1 : stack'[k] = stack[k]
  /\ Top' = f

\* A frame after one access, and after the text has moved as well.
LEMMA FrameMoves ==
  ASSUME NEW I, NEW A, NEW T, NEW R, NEW g \in Frames(I, A, T, R),
         NEW to \in A, NEW r \in R
  PROVE  Moved(g, to, r) =
           [int_no |-> g.int_no, at |-> to, text |-> g.text, reg |-> r]
<1> DEFINE h == [g EXCEPT !.at = to]
<1>1. h = [int_no |-> g.int_no, at |-> to, text |-> g.text, reg |-> g.reg]
  BY DEF Frames
<1>2. [g EXCEPT !.at = to, !.reg = r] = [h EXCEPT !.reg = r]
  BY DEF Frames
<1> HIDE DEF h
<1>3. [h EXCEPT !.reg = r] = [int_no |-> g.int_no, at |-> to, text |-> g.text, reg |-> r]
  BY <1>1
<1> QED BY <1>2, <1>3 DEF Moved

\* A frame with another place and text keeps its interrupt and register.
LEMMA FrameText ==
  ASSUME NEW I, NEW A, NEW T, NEW R, NEW g \in Frames(I, A, T, R),
         NEW to \in A, NEW t \in T
  PROVE  Retexted(g, to, t) =
           [int_no |-> g.int_no, at |-> to, text |-> t, reg |-> g.reg]
<1> DEFINE h == [g EXCEPT !.at = to]
<1>1. h = [int_no |-> g.int_no, at |-> to, text |-> g.text, reg |-> g.reg]
  BY DEF Frames
<1>2. [g EXCEPT !.at = to, !.text = t] = [h EXCEPT !.text = t]
  BY DEF Frames
<1> HIDE DEF h
<1>3. [h EXCEPT !.text = t] = [int_no |-> g.int_no, at |-> to, text |-> t, reg |-> g.reg]
  BY <1>1
<1> QED BY <1>2, <1>3 DEF Retexted

\* The frame on top is replaced, the others stay.
LEMMA ReplaceTop ==
  ASSUME NEW F, stack \in Seq(F), stack # <<>>, NEW f \in F,
         stack' = [stack EXCEPT ![Len(stack)] = f]
  PROVE  stack' \in Seq(F) /\ stack' # <<>> /\ Replaces(f)
<1>1. /\ [stack EXCEPT ![Len(stack)] = f] \in Seq(F)
      /\ Len([stack EXCEPT ![Len(stack)] = f]) = Len(stack)
      /\ [stack EXCEPT ![Len(stack)] = f][Len(stack)] = f
      /\ \A k \in 1 .. Len(stack) - 1 : [stack EXCEPT ![Len(stack)] = f][k] = stack[k]
  OBVIOUS
<1>2. [stack EXCEPT ![Len(stack)] = f] # <<>>
  OBVIOUS
<1>3. Len(stack') = Len(stack) /\ Top' = f
  BY <1>1 DEF Top
<1>4. \A k \in 1 .. Len(stack) - 1 : stack'[k] = stack[k]
  BY <1>1
<1> QED BY <1>1, <1>2, <1>3, <1>4 DEF Replaces

\* The frame that runs is one of the stack.
LEMMA TopFrame ==
  ASSUME NEW F, stack \in Seq(F), stack # <<>>
  PROVE  Len(stack) \in Nat \ {0} /\ Top \in F
BY DEF Top

\* Goto moves the frame on top and leaves the others alone.
LEMMA GotoTop ==
  ASSUME NEW I, NEW A, NEW T, NEW R,
         stack \in Seq(Frames(I, A, T, R)), stack # <<>>,
         NEW to \in A, NEW r \in R, Goto(to, r)
  PROVE  /\ stack' \in Seq(Frames(I, A, T, R)) /\ stack' # <<>>
         /\ Replaces([int_no |-> Top.int_no, at |-> to, text |-> Top.text, reg |-> r])
<1> DEFINE f == [int_no |-> Top.int_no, at |-> to, text |-> Top.text, reg |-> r]
<1>1. Top \in Frames(I, A, T, R)
  BY TopFrame
<1>2. f \in Frames(I, A, T, R)
  BY <1>1 DEF Frames
<1>3. stack' = [stack EXCEPT ![Len(stack)] = Moved(Top, to, r)]
  BY DEF Goto, Top, Moved
<1>4. Moved(Top, to, r) = f
  BY <1>1, FrameMoves
<1> QED BY <1>2, <1>3, <1>4, ReplaceTop

\* So does puts when it begins with a text.
LEMMA PutsTop ==
  ASSUME NEW I, NEW A, NEW T, NEW R,
         stack \in Seq(Frames(I, A, T, R)), stack # <<>>,
         "putc" \in A, NEW text \in T, Puts(text)
  PROVE  /\ stack' \in Seq(Frames(I, A, T, R)) /\ stack' # <<>>
         /\ Replaces([int_no |-> Top.int_no, at |-> "putc", text |-> text, reg |-> Top.reg])
         /\ con' = con
<1> DEFINE f == [int_no |-> Top.int_no, at |-> "putc", text |-> text, reg |-> Top.reg]
<1>1. Top \in Frames(I, A, T, R)
  BY TopFrame
<1>2. f \in Frames(I, A, T, R)
  BY <1>1 DEF Frames
<1>3. stack' = [stack EXCEPT ![Len(stack)] = Retexted(Top, "putc", text)]
  BY DEF Puts, Top, Retexted
<1>4. Retexted(Top, "putc", text) = f
  BY <1>1, FrameText
<1> QED BY <1>2, <1>3, <1>4, ReplaceTop DEF Puts

\* And when it goes on to the next character.
LEMMA NextCharTop ==
  ASSUME NEW I, NEW A, NEW C, NEW R,
         stack \in Seq(Frames(I, A, Seq(C), R)), stack # <<>>, Top.text # <<>>,
         {"putc", "done"} \subseteq A, NextChar
  PROVE  /\ stack' \in Seq(Frames(I, A, Seq(C), R)) /\ stack' # <<>>
         /\ Replaces([int_no |-> Top.int_no,
                      at |-> IF Tail(Top.text) = <<>> THEN "done" ELSE "putc",
                      text |-> Tail(Top.text), reg |-> Top.reg])
         /\ con' = con
<1> DEFINE rest == Tail(Top.text)
           at == IF rest = <<>> THEN "done" ELSE "putc"
           f == [int_no |-> Top.int_no, at |-> at, text |-> rest, reg |-> Top.reg]
<1>1. Top \in Frames(I, A, Seq(C), R)
  BY TopFrame
<1>2. Top.text \in Seq(C)
  BY <1>1 DEF Frames
<1>3. rest \in Seq(C) /\ at \in A
  BY <1>2
<1>4. stack' = [stack EXCEPT ![Len(stack)] = Retexted(Top, at, rest)]
  BY DEF NextChar, Top, Retexted
<1> HIDE DEF rest, at
<1>5. f \in Frames(I, A, Seq(C), R)
  BY <1>1, <1>3 DEF Frames
<1>6. Retexted(Top, at, rest) = f
  BY <1>1, <1>3, FrameText
<1>7. stack' \in Seq(Frames(I, A, Seq(C), R)) /\ stack' # <<>> /\ Replaces(f)
  BY <1>4, <1>5, <1>6, ReplaceTop
<1> QED BY <1>7 DEF NextChar, rest, at

---------------------------------------------------------------------------
(* Arithmetic of columns and of ports. *)

\* The stop behind a column of the screen is not behind the screen by more than one.
LEMMA NextStopBound ==
  ASSUME NEW x \in Nat, x < Width PROVE NextStop(x) <= Width
<1> DEFINE k == x \div TabStop
           q == Width \div TabStop
<1>1. Width \in Nat /\ TabStop \in Nat \ {0} /\ Width % TabStop = 0
  BY ConsoleAssumption
<1>2. Width = TabStop * q /\ q \in Nat
  <2>1. Width = TabStop * q + (Width % TabStop) /\ q \in Nat
    BY <1>1, DivMod
  <2> QED BY <1>1, <2>1
<1>3. x = TabStop * k + (x % TabStop) /\ k \in Nat /\ x % TabStop \in Nat
  BY <1>1, DivMod
<1> HIDE DEF k, q
<1>4. TabStop * k < TabStop * q
  BY <1>1, <1>2, <1>3
<1>5. k < q
  BY <1>1, <1>2, <1>3, <1>4, TimesLess
<1>6. TabStop * (k + 1) <= TabStop * q
  BY <1>1, <1>2, <1>3, <1>5
<1> QED BY <1>1, <1>2, <1>3, <1>6 DEF NextStop, k

\* Two bytes hold a number modulo Base^2.
LEMMA TwoBytes ==
  ASSUME NEW a \in Nat, NEW b \in Nat \ {0}
  PROVE  ((a \div b) % b) * b + (a % b) = a % (b * b)
<1> DEFINE p == a \div b
           r == a % b
           u == p \div b
           v == p % b
<1>1. a = b * p + r /\ p \in Nat /\ r \in 0 .. b - 1
  BY DivMod
<1>2. p = b * u + v /\ u \in Nat /\ v \in 0 .. b - 1
  BY <1>1, DivMod
<1> HIDE DEF p, r, u, v
<1>3. b * v + r \in 0 .. (b * b) - 1 /\ b * b \in Nat \ {0}
  <2>1. b * (v + 1) <= b * b
    BY <1>2
  <2>2. b * v + r <= b * b - 1 /\ b * v \in Nat
    BY <1>1, <1>2, <2>1
  <2> QED BY <1>1, <1>2, <2>2
<1>4. a = (b * b) * u + (b * v + r)
  BY <1>1, <1>2
<1> DEFINE m == b * b
           w == b * v + r
<1>5. m \in Nat \ {0} /\ w \in 0 .. m - 1 /\ a = m * u + w
  BY <1>3, <1>4
<1> HIDE DEF m, w
<1>6. a % m = w
  BY <1>2, <1>5, DivModOnly
<1>7. a % (b * b) = b * v + r
  BY <1>6 DEF m, w
<1> QED BY <1>2, <1>7 DEF p, r, v

---------------------------------------------------------------------------
(* What each access of putc does to the cursor and to the frame of its caller. *)

Regs == Nat
Consoles ==
  [x : Nat, y : Nat, screen : [0 .. VideoSize - 1 -> Printable],
   index : {14, 15}, crtc : [{14, 15} -> 0 .. Base - 1]]

\* The callers are I, their accesses A.
Typed(I, A) ==
  con \in Consoles /\ stack \in Seq(Frames(I, A, Seq(Chars), Regs)) /\ stack # <<>>

\* The access leads from, to; it leaves a register and the cursor.
Moves(from, to, reg, x, y) ==
  /\ Top.at = from
  /\ Replaces([int_no |-> Top.int_no, at |-> to, text |-> Top.text, reg |-> reg])
  /\ con'.x = x /\ con'.y = y

BackInv == Top.at = "backLoad" => con.x > 0

\* A step of the frame that runs is a move of it.
LEMMA StepMoves ==
  ASSUME NEW I, NEW A, Accesses \subseteq A, Typed(I, A),
         NEW from, NEW to \in Accesses, NEW reg \in Regs, NEW c \in Consoles,
         Step(from, to, reg, c)
  PROVE  Typed(I, A)' /\ Moves(from, to, reg, c.x, c.y)
<1>1. Top.at = from /\ Goto(to, reg) /\ con' = c /\ to \in A
  BY DEF Step
<1>2. /\ stack' \in Seq(Frames(I, A, Seq(Chars), Regs)) /\ stack' # <<>>
      /\ Replaces([int_no |-> Top.int_no, at |-> to, text |-> Top.text, reg |-> reg])
  BY <1>1, GotoTop DEF Typed
<1> QED BY <1>1, <1>2 DEF Typed, Moves

\* A tab stop is a column.
LEMMA NextStopNat == ASSUME NEW x \in Nat PROVE NextStop(x) \in Nat
BY ConsoleAssumption DEF NextStop

\* Both halves of a cursor position fit the registers of the CRT controller.
LEMMA Bytes ==
  ASSUME NEW r \in Nat
  PROVE  r % Base \in 0 .. Base - 1 /\ (r \div Base) % Base \in 0 .. Base - 1
BY ConsoleAssumption

\* What the accesses read.
LEMMA TopTypes ==
  ASSUME NEW I, NEW A, Typed(I, A)
  PROVE  /\ Top.int_no \in I /\ Top.at \in A /\ Top.text \in Seq(Chars) /\ Top.reg \in Regs
         /\ con.x \in Nat /\ con.y \in Nat /\ Top.reg \in Nat
<1>1. Top \in Frames(I, A, Seq(Chars), Regs)
  BY TopFrame DEF Typed
<1> QED BY <1>1 DEF Typed, Frames, Consoles, Regs

\* What they store.
PutX(v)    == [con EXCEPT !.x = v]
PutY(v)    == [con EXCEPT !.y = v]
Draw(p, c) == [con EXCEPT !.screen[p] = c]
Select(r)  == [con EXCEPT !.index = r]
Port(v)    == [con EXCEPT !.crtc[con.index] = v]

\* What a store to the column, the row, the screen or a register leaves.
LEMMA Stores ==
  ASSUME con \in Consoles
  PROVE  /\ \A v \in Nat : PutX(v) \in Consoles /\ PutX(v).x = v /\ PutX(v).y = con.y
         /\ \A v \in Nat : PutY(v) \in Consoles /\ PutY(v).x = con.x /\ PutY(v).y = v
         /\ \A p \in Nat, c \in Printable :
              Draw(p, c) \in Consoles /\ Draw(p, c).x = con.x /\ Draw(p, c).y = con.y
         /\ \A r \in {14, 15} :
              Select(r) \in Consoles /\ Select(r).x = con.x /\ Select(r).y = con.y
         /\ \A v \in 0 .. Base - 1 :
              Port(v) \in Consoles /\ Port(v).x = con.x /\ Port(v).y = con.y
<1>1. \A v \in Nat : PutX(v) \in Consoles /\ PutX(v).x = v /\ PutX(v).y = con.y
  BY DEF Consoles, PutX
<1>2. \A v \in Nat : PutY(v) \in Consoles /\ PutY(v).x = con.x /\ PutY(v).y = v
  BY DEF Consoles, PutY
<1>3. \A p \in Nat, c \in Printable :
        Draw(p, c) \in Consoles /\ Draw(p, c).x = con.x /\ Draw(p, c).y = con.y
  BY DEF Consoles, Draw
<1>4. \A r \in {14, 15} :
        Select(r) \in Consoles /\ Select(r).x = con.x /\ Select(r).y = con.y
  BY DEF Consoles, Select
<1>5. \A v \in 0 .. Base - 1 :
        Port(v) \in Consoles /\ Port(v).x = con.x /\ Port(v).y = con.y
  BY DEF Consoles, Port
<1> QED BY <1>1, <1>2, <1>3, <1>4, <1>5

\* The tests for the end of a line and of the screen, access by access.
LEMMA WrapMoves ==
  ASSUME NEW I, NEW A, Accesses \subseteq A, Typed(I, A), Wrap
  PROVE  /\ Typed(I, A)'
         /\ \/ Moves("putc", IF con.x > Width - 1 THEN "left" ELSE "line", 0, con.x, con.y)
            \/ Moves("left", "rowLoad", 0, 0, con.y)
            \/ Moves("rowLoad", "rowStore", con.y, con.x, con.y)
            \/ Moves("rowStore", "line", 0, con.x, Top.reg + 1)
            \/ Moves("line", IF con.y > Height - 1 THEN "top" ELSE "char", 0, con.x, con.y)
            \/ Moves("top", "clear", 0, con.x, 0)
<1>a. {"left", "rowLoad", "rowStore", "line", "top", "clear", "char"} \subseteq Accesses
  BY DEF Accesses
<1>1. /\ con.x \in Nat /\ con.y \in Nat /\ Top.reg \in Nat /\ con \in Consoles
      /\ con.y \in Regs /\ 0 \in Regs /\ Top.reg + 1 \in Nat
  BY TopTypes DEF Typed, Regs
<1>s. /\ PutX(0) \in Consoles /\ PutX(0).x = 0 /\ PutX(0).y = con.y
      /\ PutY(Top.reg + 1) \in Consoles /\ PutY(Top.reg + 1).x = con.x /\ PutY(Top.reg + 1).y = Top.reg + 1
      /\ PutY(0) \in Consoles /\ PutY(0).x = con.x /\ PutY(0).y = 0
  BY <1>1, Stores
<1>2. CASE Step("putc", IF con.x > Width - 1 THEN "left" ELSE "line", 0, con)
  BY <1>1, <1>2, <1>a, StepMoves
<1>3. CASE Step("left", "rowLoad", 0, PutX(0))
  BY <1>1, <1>3, <1>s, <1>a, StepMoves
<1>4. CASE Step("rowLoad", "rowStore", con.y, con)
  BY <1>1, <1>4, <1>a, StepMoves
<1>5. CASE Step("rowStore", "line", 0, PutY(Top.reg + 1))
  BY <1>1, <1>5, <1>s, <1>a, StepMoves
<1>6. CASE Step("line", IF con.y > Height - 1 THEN "top" ELSE "char", 0, con)
  BY <1>1, <1>6, <1>a, StepMoves
<1>7. CASE Step("top", "clear", 0, PutY(0))
  BY <1>1, <1>7, <1>s, <1>a, StepMoves
<1> QED BY <1>2, <1>3, <1>4, <1>5, <1>6, <1>7 DEF Wrap, PutX, PutY

\* The loop that clears the screen, cell by cell.
LEMMA ClearMoves ==
  ASSUME NEW I, NEW A, Accesses \subseteq A, Typed(I, A), ClearScreen
  PROVE  /\ Typed(I, A)'
         /\ \/ Top.reg < Size /\ Moves("clear", "clear", Top.reg + 1, con.x, con.y)
            \/ Top.reg = Size /\ Moves("clear", "char", 0, con.x, con.y)
<1>a. {"clear", "char"} \subseteq Accesses
  BY DEF Accesses
<1>1. /\ con.x \in Nat /\ con.y \in Nat /\ Top.reg \in Nat /\ con \in Consoles
      /\ 0 \in Regs /\ Top.reg + 1 \in Regs
  BY TopTypes DEF Typed, Regs
<1>s. /\ Draw(Top.reg, Blank) \in Consoles /\ Draw(Top.reg, Blank).x = con.x /\ Draw(Top.reg, Blank).y = con.y
  BY <1>1, ConsoleAssumption, Stores
<1>2. CASE Top.reg < Size /\ Step("clear", "clear", Top.reg + 1, Draw(Top.reg, Blank))
  BY <1>1, <1>2, <1>s, <1>a, StepMoves, ConsoleAssumption
<1>3. CASE Top.reg = Size /\ Step("clear", "char", 0, con)
  BY <1>1, <1>3, <1>a, StepMoves
<1> QED BY <1>2, <1>3 DEF ClearScreen, Draw

\* Carriage return, newline, backspace and tab, access by access.
LEMMA SpecialMoves ==
  ASSUME NEW I, NEW A, Accesses \subseteq A, Typed(I, A), BackInv, Special
  PROVE  /\ Typed(I, A)'
         /\ \/ Char = "cr" /\ Moves("char", "cursor", 0, 0, con.y)
            \/ Char = "nl" /\ Moves("char", "downLoad", 0, 0, con.y)
            \/ /\ Char = "bs"
               /\ Moves("char", IF con.x > 0 THEN "backLoad" ELSE "cursor", 0, con.x, con.y)
            \/ Char = "tab" /\ Moves("char", "xStore", NextStop(con.x), con.x, con.y)
            \/ Moves("downLoad", "downStore", con.y, con.x, con.y)
            \/ Moves("downStore", "cursor", 0, con.x, Top.reg + 1)
            \/ Moves("backLoad", "xStore", con.x - 1, con.x, con.y)
            \/ Moves("xStore", "cursor", 0, Top.reg, con.y)
<1>a. {"cursor", "downLoad", "backLoad", "xStore", "downStore"} \subseteq Accesses
  BY DEF Accesses
<1>1. /\ con.x \in Nat /\ con.y \in Nat /\ Top.reg \in Nat /\ con \in Consoles
      /\ con.y \in Regs /\ 0 \in Regs /\ Top.reg + 1 \in Nat
  BY TopTypes DEF Typed, Regs
<1>2. NextStop(con.x) \in Regs /\ (con.x > 0 => con.x - 1 \in Regs)
  BY <1>1, NextStopNat DEF Regs
<1>s. /\ PutX(0) \in Consoles /\ PutX(0).x = 0 /\ PutX(0).y = con.y
      /\ PutY(Top.reg + 1) \in Consoles /\ PutY(Top.reg + 1).x = con.x /\ PutY(Top.reg + 1).y = Top.reg + 1
      /\ PutX(Top.reg) \in Consoles /\ PutX(Top.reg).x = Top.reg /\ PutX(Top.reg).y = con.y
  BY <1>1, Stores
<1>3. CASE Char = "cr" /\ Step("char", "cursor", 0, PutX(0))
  BY <1>1, <1>3, <1>s, <1>a, StepMoves
<1>4. CASE Char = "nl" /\ Step("char", "downLoad", 0, PutX(0))
  BY <1>1, <1>4, <1>s, <1>a, StepMoves
<1>5. CASE Char = "bs" /\ Step("char", IF con.x > 0 THEN "backLoad" ELSE "cursor", 0, con)
  BY <1>1, <1>5, <1>a, StepMoves
<1>6. CASE Char = "tab" /\ Step("char", "xStore", NextStop(con.x), con)
  BY <1>1, <1>2, <1>6, <1>a, StepMoves
<1>7. CASE Step("downLoad", "downStore", con.y, con)
  BY <1>1, <1>7, <1>a, StepMoves
<1>8. CASE Step("downStore", "cursor", 0, PutY(Top.reg + 1))
  BY <1>1, <1>8, <1>s, <1>a, StepMoves
<1>9. CASE Step("backLoad", "xStore", con.x - 1, con)
  <2>1. con.x - 1 \in Regs
    BY <1>2, <1>9 DEF Step, BackInv
  <2> QED BY <1>1, <1>9, <2>1, <1>a, StepMoves
<1>10. CASE Step("xStore", "cursor", 0, PutX(Top.reg))
  BY <1>1, <1>10, <1>s, <1>a, StepMoves
<1> QED BY <1>3, <1>4, <1>5, <1>6, <1>7, <1>8, <1>9, <1>10 DEF Special, Deals, PutX, PutY

\* A character that is drawn, access by access.
LEMMA PlainMoves ==
  ASSUME NEW I, NEW A, Accesses \subseteq A, Typed(I, A),
         Top.at = "write" => Char \in Printable, Plain
  PROVE  /\ Typed(I, A)'
         /\ \/ Char \in Printable /\ Moves("char", "place", Width * con.y, con.x, con.y)
            \/ Moves("place", "write", Top.reg + con.x, con.x, con.y)
            \/ Moves("write", "nextLoad", 0, con.x, con.y)
            \/ Moves("nextLoad", "xStore", con.x + 1, con.x, con.y)
<1>1. /\ con.x \in Nat /\ con.y \in Nat /\ Top.reg \in Nat /\ con \in Consoles
      /\ 0 \in Regs /\ Top.reg + con.x \in Regs /\ con.x + 1 \in Regs
  BY TopTypes DEF Typed, Regs
<1>2. Width * con.y \in Regs
  BY <1>1, TimesNat, ConsoleAssumption DEF Regs
<1>s. /\ Char \in Printable =>
           Draw(Top.reg, Char) \in Consoles /\ Draw(Top.reg, Char).x = con.x /\ Draw(Top.reg, Char).y = con.y
  BY <1>1, Stores
<1>3. CASE \E c \in Printable : Deals(c, "place", Width * con.y, con)
  BY <1>1, <1>2, <1>3, StepMoves DEF Deals, Accesses
<1>4. CASE Step("place", "write", Top.reg + con.x, con)
  BY <1>1, <1>4, StepMoves DEF Accesses
<1>5. CASE Step("write", "nextLoad", 0, Draw(Top.reg, Char))
  <2>1. Char \in Printable
    BY <1>5 DEF Step
  <2> QED BY <1>1, <1>5, <2>1, <1>s, StepMoves DEF Accesses
<1>6. CASE Step("nextLoad", "xStore", con.x + 1, con)
  BY <1>1, <1>6, StepMoves DEF Accesses
<1> QED BY <1>3, <1>4, <1>5, <1>6 DEF Plain, Draw

\* setCursor: the registers and the ports of the controller.
Ports == UNCHANGED <<con.index, con.crtc>>

\* set_cursor, access by access, with what each leaves in the CRT controller.
LEMMA SetCursorTable ==
  ASSUME NEW I, NEW A, Accesses \subseteq A, Typed(I, A), SetCursor
  PROVE  /\ Typed(I, A)'
         /\ \/ Moves("cursor", "offset", Width * con.y, con.x, con.y) /\ Ports
            \/ Moves("offset", "index14", Top.reg + con.x, con.x, con.y) /\ Ports
            \/ /\ Moves("index14", "high", Top.reg, con.x, con.y)
               /\ con'.index = 14 /\ con'.crtc = con.crtc
            \/ /\ Moves("high", "index15", Top.reg, con.x, con.y)
               /\ con'.crtc[con.index] = (Top.reg \div Base) % Base
            \/ /\ Moves("index15", "low", Top.reg, con.x, con.y)
               /\ con'.index = 15 /\ con'.crtc = con.crtc
            \/ /\ Moves("low", "puts", 0, con.x, con.y)
               /\ con'.crtc[con.index] = Top.reg % Base
               /\ \A r \in {14, 15} \ {con.index} : con'.crtc[r] = con.crtc[r]
<1>1. /\ con.x \in Nat /\ con.y \in Nat /\ Top.reg \in Nat /\ con \in Consoles
      /\ 0 \in Regs /\ Top.reg + con.x \in Regs /\ Top.reg \in Regs
  BY TopTypes DEF Typed, Regs
<1>2. Width * con.y \in Regs
  BY <1>1, TimesNat, ConsoleAssumption DEF Regs
<1>3. Top.reg % Base \in 0 .. Base - 1 /\ (Top.reg \div Base) % Base \in 0 .. Base - 1
  BY <1>1, Bytes
<1>s. /\ Select(14) \in Consoles /\ Select(14).x = con.x /\ Select(14).y = con.y
      /\ Select(15) \in Consoles /\ Select(15).x = con.x /\ Select(15).y = con.y
      /\ \A v \in 0 .. Base - 1 :
           Port(v) \in Consoles /\ Port(v).x = con.x /\ Port(v).y = con.y
  BY <1>1, Stores
<1>p. /\ \A r \in {14, 15} : Select(r).index = r /\ Select(r).crtc = con.crtc
      /\ \A v \in 0 .. Base - 1 :
           /\ Port(v).crtc[con.index] = v
           /\ \A r \in {14, 15} \ {con.index} : Port(v).crtc[r] = con.crtc[r]
  BY <1>1 DEF Consoles, Select, Port
<1>q. ASSUME NEW from, NEW to \in Accesses, NEW reg \in Regs, NEW c \in Consoles,
             c.x = con.x, c.y = con.y, Step(from, to, reg, c)
      PROVE  Typed(I, A)' /\ Moves(from, to, reg, con.x, con.y) /\ con' = c
  BY <1>q, StepMoves DEF Step
<1>4. CASE Step("cursor", "offset", Width * con.y, con)
  BY <1>1, <1>2, <1>4, <1>q DEF Accesses, Ports
<1>5. CASE Step("offset", "index14", Top.reg + con.x, con)
  BY <1>1, <1>5, <1>q DEF Accesses, Ports
<1>6. CASE Step("index14", "high", Top.reg, Select(14))
  <2> DEFINE v == 14
             c == Select(v)
  <2>1. /\ c \in Consoles /\ c.x = con.x /\ c.y = con.y
        /\ c.index = v /\ c.crtc = con.crtc
    BY <1>1, <1>3, <1>s, <1>p
  <2>2. Step("index14", "high", Top.reg, c)
    BY <1>6
  <2> HIDE DEF c
  <2>3. Typed(I, A)' /\ Moves("index14", "high", Top.reg, con.x, con.y) /\ con' = c
    BY <1>1, <2>1, <2>2, <1>q DEF Accesses
  <2> QED BY <2>1, <2>3
<1>7. CASE Step("high", "index15", Top.reg, Port((Top.reg \div Base) % Base))
  <2> DEFINE v == (Top.reg \div Base) % Base
             c == Port(v)
  <2>1. /\ c \in Consoles /\ c.x = con.x /\ c.y = con.y
        /\ c.crtc[con.index] = v
    BY <1>1, <1>3, <1>s, <1>p
  <2>2. Step("high", "index15", Top.reg, c)
    BY <1>7
  <2> HIDE DEF c
  <2>3. Typed(I, A)' /\ Moves("high", "index15", Top.reg, con.x, con.y) /\ con' = c
    BY <1>1, <2>1, <2>2, <1>q DEF Accesses
  <2> QED BY <2>1, <2>3
<1>8. CASE Step("index15", "low", Top.reg, Select(15))
  <2> DEFINE v == 15
             c == Select(v)
  <2>1. /\ c \in Consoles /\ c.x = con.x /\ c.y = con.y
        /\ c.index = v /\ c.crtc = con.crtc
    BY <1>1, <1>3, <1>s, <1>p
  <2>2. Step("index15", "low", Top.reg, c)
    BY <1>8
  <2> HIDE DEF c
  <2>3. Typed(I, A)' /\ Moves("index15", "low", Top.reg, con.x, con.y) /\ con' = c
    BY <1>1, <2>1, <2>2, <1>q DEF Accesses
  <2> QED BY <2>1, <2>3
<1>9. CASE Step("low", "puts", 0, Port(Top.reg % Base))
  <2> DEFINE v == Top.reg % Base
             c == Port(v)
  <2>1. /\ c \in Consoles /\ c.x = con.x /\ c.y = con.y
        /\ c.crtc[con.index] = v
        /\ \A r \in {14, 15} \ {con.index} : c.crtc[r] = con.crtc[r]
    BY <1>1, <1>3, <1>s, <1>p
  <2>2. Step("low", "puts", 0, c)
    BY <1>9
  <2> HIDE DEF c
  <2>3. Typed(I, A)' /\ Moves("low", "puts", 0, con.x, con.y) /\ con' = c
    BY <1>1, <2>1, <2>2, <1>q DEF Accesses
  <2> QED BY <2>1, <2>3
<1> QED BY <1>4, <1>5, <1>6, <1>7, <1>8, <1>9 DEF SetCursor, Select, Port

\* setCursor leaves the cursor where it is.
Shows == {"cursor", "offset", "index14", "high", "index15", "low"}

\* set_cursor changes no column and no row.
LEMMA SetCursorMoves ==
  ASSUME NEW I, NEW A, Accesses \subseteq A, Typed(I, A), SetCursor
  PROVE  /\ Typed(I, A)'
         /\ \E from \in Shows, to \in Shows \cup {"puts"}, reg \in Nat :
              Moves(from, to, reg, con.x, con.y)
<1>1. Width * con.y \in Nat /\ Top.reg + con.x \in Nat /\ Top.reg \in Nat
  BY TopTypes, TimesNat, ConsoleAssumption
<1> QED BY <1>1, SetCursorTable DEF Shows

---------------------------------------------------------------------------
(* One caller that prints one text after the other (ConsoleSpec).           *)

\* The accesses at which putc has tested the column, and the line as well.
InColumns == {"line", "top", "clear", "char", "place", "write", "nextLoad", "downLoad",
              "downStore", "backLoad", "xStore"}
InLines   == {"char", "place", "write", "nextLoad", "backLoad", "downLoad", "downStore",
              "xStore"}

\* Where the cursor is.
CursorInv ==
  /\ con.x <= Width /\ con.y <= Height /\ (con.y = Height => con.x = 0)
  /\ Top.at \in InColumns => con.x < Width
  /\ Top.at \in InLines \cup {"left", "rowLoad", "rowStore"} => con.y < Height
  /\ Top.at \in {"rowLoad", "rowStore", "top", "clear", "downLoad", "downStore"} => con.x = 0
  /\ Top.at = "left" => con.x = Width
  /\ Top.at = "top" => con.y = Height
  /\ Top.at = "clear" => con.y = 0

\* What putc has of it in a register, and which characters bring it where it is.
RegisterInv ==
  /\ Top.reg <= Size
  /\ Top.at \in {"rowStore", "downStore"} => Top.reg = con.y
  /\ Top.at = "xStore" => /\ Char = "bs" => con.x > 0 /\ Top.reg = con.x - 1
                          /\ Char = "tab" => Top.reg = NextStop(con.x)
                          /\ Char \in Printable => Top.reg = con.x + 1
                          /\ Char \in Printable \cup {"bs", "tab"}
  /\ Top.at \in {"place", "offset"} => Top.reg = Width * con.y
  /\ Top.at \in {"write", "index14", "high", "index15", "low"} => Top.reg = Offset
  /\ Top.at \in {"place", "write", "nextLoad"} => Char \in Printable
  /\ Top.at = "backLoad" => Char = "bs" /\ con.x > 0

\* What the controller has been told.
PortInv ==
  /\ Top.at = "high" => con.index = 14
  /\ Top.at \in {"index15", "low"} => con.crtc[14] = (Top.reg \div Base) % Base
  /\ Top.at = "low" => con.index = 15

ConsoleInv ==
  /\ Typed({Main}, Accesses) /\ Len(stack) = 1
  /\ Top.at # "done" => Top.text # <<>>
  /\ CursorInv /\ RegisterInv /\ PortInv

\* The cursor, behind the last column or line as it may be, is on a place of the
\* screen or just behind it.
LEMMA OffsetBound ==
  ASSUME NEW x \in Nat, NEW y \in Nat, x <= Width, y <= Height, y = Height => x = 0
  PROVE  /\ Width * y \in Nat /\ Width * y + x \in Nat
         /\ Width * y <= Size /\ Width * y + x <= Size /\ Width <= Size
         /\ x < Width /\ y < Height => Width * y + x < Size
<1>1. Width \in Nat \ {0} /\ Height \in Nat \ {0}
  BY ConsoleAssumption
<1>2. Width * y \in Nat /\ Width * Height \in Nat
  BY <1>1, TimesNat
<1>3. Width * y <= Width * Height /\ Width <= Width * Height
  BY <1>1
<1>4. CASE y < Height
  <2>1. Width * y + Width <= Width * Height
    BY <1>1, <1>4
  <2> QED BY <1>1, <1>2, <1>3, <2>1 DEF Size
<1>5. CASE y = Height
  BY <1>1, <1>2, <1>3, <1>5 DEF Size
<1> QED BY <1>4, <1>5, <1>1

\* A place of the screen.
LEMMA PlaceBound ==
  ASSUME NEW x \in Nat, NEW y \in Nat, x < Width, y < Height
  PROVE  Width * y + x \in 0 .. Size - 1 /\ Width * y + x \in Nat
<1>1. Width \in Nat /\ Height \in Nat /\ Size \in Nat
  BY ConsoleAssumption, TimesNat DEF Size
<1>2. x <= Width /\ y <= Height /\ y # Height
  BY <1>1
<1>3. Width * y + x \in Nat /\ Width * y + x < Size
  BY <1>2, OffsetBound
<1> QED BY <1>1, <1>3

\* An access keeps who prints, and the text.
LEMMA MovesAlone ==
  ASSUME NEW from, NEW to, NEW reg, NEW x, NEW y, Moves(from, to, reg, x, y)
  PROVE  /\ Len(stack') = Len(stack) /\ Top'.text = Top.text /\ Char' = Char
         /\ Top.at = from /\ Top'.at = to /\ Top'.reg = reg /\ con'.x = x /\ con'.y = y
BY DEF Moves, Replaces, Char

\* The console starts before its first putc.
LEMMA ConsoleInvInit == ConsoleInit => ConsoleInv
<1> SUFFICES ASSUME ConsoleInit PROVE ConsoleInv
  OBVIOUS
<1> DEFINE f == [int_no |-> Main, at |-> "done", text |-> <<>>, reg |-> 0]
<1>1. stack = <<f>>
  BY DEF ConsoleInit
<1>2. f \in Frames({Main}, Accesses, Seq(Chars), Regs)
  BY DEF Frames, Accesses, Regs
<1>3. con \in Consoles /\ con.x = 0 /\ con.y = 0
  BY ConsoleAssumption DEF ConsoleInit, Cleared, Consoles
<1>4. f.at = "done" /\ f.reg = 0
  OBVIOUS
<1> HIDE DEF f
<1>5. /\ stack \in Seq(Frames({Main}, Accesses, Seq(Chars), Regs)) /\ stack # <<>>
      /\ Len(stack) = 1 /\ Top = f
  BY <1>1, <1>2 DEF Top
<1>6. Width \in Nat \ {0} /\ Height \in Nat \ {0} /\ Size \in Nat
  BY ConsoleAssumption, TimesNat DEF Size
<1> QED BY <1>3, <1>4, <1>5, <1>6
        DEF ConsoleInv, Typed, CursorInv, RegisterInv, PortInv, InColumns, InLines

\* Every access keeps the invariant.
LEMMA ConsoleInvNext == ConsoleInv /\ [ConsoleNext]_consoleVars => ConsoleInv'
<1> SUFFICES ASSUME ConsoleInv, [ConsoleNext]_consoleVars PROVE ConsoleInv'
  OBVIOUS
<1>1. /\ Typed({Main}, Accesses) /\ Len(stack) = 1 /\ (Top.at # "done" => Top.text # <<>>)
      /\ CursorInv /\ RegisterInv /\ PortInv
  BY DEF ConsoleInv
<1>2. con.x \in Nat /\ con.y \in Nat /\ Top.reg \in Nat
  BY <1>1, TopTypes
<1>3. Width \in Nat \ {0} /\ Height \in Nat \ {0} /\ Size \in Nat
  BY ConsoleAssumption, TimesNat DEF Size
<1>4. /\ Width * con.y \in Nat /\ Offset \in Nat
      /\ Width * con.y <= Size /\ Offset <= Size /\ Width <= Size
  <2>1. Offset = Width * con.y + con.x
    BY <1>2, <1>3, TimesNat DEF Offset
  <2> QED BY <1>1, <1>2, <2>1, OffsetBound DEF CursorInv
<1>5. ASSUME NEW from, NEW to, NEW reg, NEW x, NEW y, Moves(from, to, reg, x, y)
      PROVE  /\ Len(stack') = Len(stack) /\ Top'.text = Top.text /\ Char' = Char
             /\ Top.at = from /\ Top'.at = to /\ Top'.reg = reg /\ con'.x = x /\ con'.y = y
  BY <1>5, MovesAlone
<1>6. CASE Wrap
  <2>1. /\ Typed({Main}, Accesses)'
        /\ \/ Moves("putc", IF con.x > Width - 1 THEN "left" ELSE "line", 0, con.x, con.y)
           \/ Moves("left", "rowLoad", 0, 0, con.y)
           \/ Moves("rowLoad", "rowStore", con.y, con.x, con.y)
           \/ Moves("rowStore", "line", 0, con.x, Top.reg + 1)
           \/ Moves("line", IF con.y > Height - 1 THEN "top" ELSE "char", 0, con.x, con.y)
           \/ Moves("top", "clear", 0, con.x, 0)
    BY <1>1, <1>6, WrapMoves
  <2>2. Len(stack') = 1 /\ Top'.text # <<>>
    BY <1>1, <1>5, <2>1
  <2>3. ASSUME Moves("putc", IF con.x > Width - 1 THEN "left" ELSE "line", 0, con.x, con.y)
       PROVE  CursorInv' /\ RegisterInv' /\ PortInv'
    <3>1. /\ Top.at = "putc" /\ Top'.at = IF con.x > Width - 1 THEN "left" ELSE "line"
          /\ Top'.reg = 0 /\ con'.x = con.x /\ con'.y = con.y /\ Char' = Char
      BY <1>5, <2>3
    <3>2. CursorInv'
      BY <1>1, <1>2, <1>3, <3>1 DEF CursorInv, RegisterInv, InColumns, InLines
    <3> QED BY <1>1, <1>2, <1>3, <1>4, <3>1, <3>2
            DEF CursorInv, RegisterInv, PortInv, InColumns
  <2>4. ASSUME Moves("left", "rowLoad", 0, 0, con.y)
       PROVE  CursorInv' /\ RegisterInv' /\ PortInv'
    <3>1. /\ Top.at = "left" /\ Top'.at = "rowLoad"
          /\ Top'.reg = 0 /\ con'.x = 0 /\ con'.y = con.y /\ Char' = Char
      BY <1>5, <2>4
    <3>2. CursorInv'
      BY <1>1, <1>2, <1>3, <3>1 DEF CursorInv, RegisterInv, InColumns, InLines
    <3> QED BY <1>1, <1>2, <1>3, <1>4, <3>1, <3>2
            DEF CursorInv, RegisterInv, PortInv, InColumns
  <2>5. ASSUME Moves("rowLoad", "rowStore", con.y, con.x, con.y)
       PROVE  CursorInv' /\ RegisterInv' /\ PortInv'
    <3>1. /\ Top.at = "rowLoad" /\ Top'.at = "rowStore"
          /\ Top'.reg = con.y /\ con'.x = con.x /\ con'.y = con.y /\ Char' = Char
      BY <1>5, <2>5
    <3>2. CursorInv'
      BY <1>1, <1>2, <1>3, <3>1 DEF CursorInv, RegisterInv, InColumns, InLines
    <3> QED BY <1>1, <1>2, <1>3, <1>4, <3>1, <3>2
            DEF CursorInv, RegisterInv, PortInv, InColumns
  <2>6. ASSUME Moves("rowStore", "line", 0, con.x, Top.reg + 1)
       PROVE  CursorInv' /\ RegisterInv' /\ PortInv'
    <3>1. /\ Top.at = "rowStore" /\ Top'.at = "line"
          /\ Top'.reg = 0 /\ con'.x = con.x /\ con'.y = Top.reg + 1 /\ Char' = Char
      BY <1>5, <2>6
    <3>2. CursorInv'
      BY <1>1, <1>2, <1>3, <3>1 DEF CursorInv, RegisterInv, InColumns, InLines
    <3> QED BY <1>1, <1>2, <1>3, <1>4, <3>1, <3>2
            DEF CursorInv, RegisterInv, PortInv, InColumns
  <2>7. ASSUME Moves("line", IF con.y > Height - 1 THEN "top" ELSE "char", 0, con.x, con.y)
       PROVE  CursorInv' /\ RegisterInv' /\ PortInv'
    <3>1. /\ Top.at = "line" /\ Top'.at = IF con.y > Height - 1 THEN "top" ELSE "char"
          /\ Top'.reg = 0 /\ con'.x = con.x /\ con'.y = con.y /\ Char' = Char
      BY <1>5, <2>7
    <3>2. CursorInv'
      BY <1>1, <1>2, <1>3, <3>1 DEF CursorInv, RegisterInv, InColumns, InLines
    <3> QED BY <1>1, <1>2, <1>3, <1>4, <3>1, <3>2
            DEF CursorInv, RegisterInv, PortInv, InColumns
  <2>8. ASSUME Moves("top", "clear", 0, con.x, 0)
       PROVE  CursorInv' /\ RegisterInv' /\ PortInv'
    <3>1. /\ Top.at = "top" /\ Top'.at = "clear"
          /\ Top'.reg = 0 /\ con'.x = con.x /\ con'.y = 0 /\ Char' = Char
      BY <1>5, <2>8
    <3>2. CursorInv'
      BY <1>1, <1>2, <1>3, <3>1 DEF CursorInv, RegisterInv, InColumns, InLines
    <3> QED BY <1>1, <1>2, <1>3, <1>4, <3>1, <3>2
            DEF CursorInv, RegisterInv, PortInv, InColumns
  <2>9. CursorInv' /\ RegisterInv' /\ PortInv'
    BY <2>1, <2>3, <2>4, <2>5, <2>6, <2>7, <2>8
  <2> QED BY <2>1, <2>2, <2>9 DEF ConsoleInv
<1>7. CASE ClearScreen
  <2>1. /\ Typed({Main}, Accesses)'
        /\ \/ Top.reg < Size /\ Moves("clear", "clear", Top.reg + 1, con.x, con.y)
           \/ Top.reg = Size /\ Moves("clear", "char", 0, con.x, con.y)
    BY <1>1, <1>7, ClearMoves
  <2>2. Len(stack') = 1 /\ Top'.text # <<>>
    BY <1>1, <1>5, <2>1
  <2>3. CursorInv'
    BY <1>1, <1>2, <1>3, <1>5, <2>1 DEF CursorInv, InColumns, InLines
  <2>4. RegisterInv' /\ PortInv'
    BY <1>1, <1>2, <1>3, <1>4, <1>5, <2>1 DEF RegisterInv, PortInv
  <2> QED BY <2>1, <2>2, <2>3, <2>4 DEF ConsoleInv
<1>8. CASE Special
  <2>1. /\ Typed({Main}, Accesses)'
        /\ \/ Char = "cr" /\ Moves("char", "cursor", 0, 0, con.y)
           \/ Char = "nl" /\ Moves("char", "downLoad", 0, 0, con.y)
           \/ /\ Char = "bs"
              /\ Moves("char", IF con.x > 0 THEN "backLoad" ELSE "cursor", 0, con.x, con.y)
           \/ Char = "tab" /\ Moves("char", "xStore", NextStop(con.x), con.x, con.y)
           \/ Moves("downLoad", "downStore", con.y, con.x, con.y)
           \/ Moves("downStore", "cursor", 0, con.x, Top.reg + 1)
           \/ Moves("backLoad", "xStore", con.x - 1, con.x, con.y)
           \/ Moves("xStore", "cursor", 0, Top.reg, con.y)
    BY <1>1, <1>8, SpecialMoves DEF BackInv, RegisterInv
  <2>2. Len(stack') = 1 /\ Top'.text # <<>>
    BY <1>1, <1>5, <2>1
  <2>3. con.x < Width => NextStop(con.x) \in 0 .. Width
    BY <1>2, NextStopBound, NextStopNat
  <2>4. {"cr", "nl", "bs", "tab"} \cap Printable = {}
    BY ConsoleAssumption
  <2>5. ASSUME Char = "cr" /\ Moves("char", "cursor", 0, 0, con.y)
       PROVE  CursorInv' /\ RegisterInv' /\ PortInv'
    <3>1. /\ Top.at = "char" /\ Top'.at = "cursor"
          /\ Top'.reg = 0 /\ con'.x = 0 /\ con'.y = con.y /\ Char' = Char /\ Char = "cr"
      BY <1>5, <2>5
    <3>2. CursorInv'
      BY <1>1, <1>2, <1>3, <2>3, <2>4, <3>1 DEF CursorInv, RegisterInv, InColumns, InLines
    <3> QED BY <1>1, <1>2, <1>3, <1>4, <2>3, <2>4, <3>1, <3>2
            DEF CursorInv, RegisterInv, PortInv, InColumns
  <2>6. ASSUME Char = "nl" /\ Moves("char", "downLoad", 0, 0, con.y)
       PROVE  CursorInv' /\ RegisterInv' /\ PortInv'
    <3>1. /\ Top.at = "char" /\ Top'.at = "downLoad"
          /\ Top'.reg = 0 /\ con'.x = 0 /\ con'.y = con.y /\ Char' = Char /\ Char = "nl"
      BY <1>5, <2>6
    <3>2. CursorInv'
      BY <1>1, <1>2, <1>3, <2>3, <2>4, <3>1 DEF CursorInv, RegisterInv, InColumns, InLines
    <3> QED BY <1>1, <1>2, <1>3, <1>4, <2>3, <2>4, <3>1, <3>2
            DEF CursorInv, RegisterInv, PortInv, InColumns
  <2>7. ASSUME Char = "bs" /\ Moves("char", IF con.x > 0 THEN "backLoad" ELSE "cursor", 0, con.x, con.y)
       PROVE  CursorInv' /\ RegisterInv' /\ PortInv'
    <3>1. /\ Top.at = "char" /\ Top'.at = IF con.x > 0 THEN "backLoad" ELSE "cursor"
          /\ Top'.reg = 0 /\ con'.x = con.x /\ con'.y = con.y /\ Char' = Char /\ Char = "bs"
      BY <1>5, <2>7
    <3>2. CursorInv'
      BY <1>1, <1>2, <1>3, <2>3, <2>4, <3>1 DEF CursorInv, RegisterInv, InColumns, InLines
    <3> QED BY <1>1, <1>2, <1>3, <1>4, <2>3, <2>4, <3>1, <3>2
            DEF CursorInv, RegisterInv, PortInv, InColumns
  <2>8. ASSUME Char = "tab" /\ Moves("char", "xStore", NextStop(con.x), con.x, con.y)
       PROVE  CursorInv' /\ RegisterInv' /\ PortInv'
    <3>1. /\ Top.at = "char" /\ Top'.at = "xStore"
          /\ Top'.reg = NextStop(con.x) /\ con'.x = con.x /\ con'.y = con.y /\ Char' = Char /\ Char = "tab"
      BY <1>5, <2>8
    <3>2. CursorInv'
      BY <1>1, <1>2, <1>3, <2>3, <2>4, <3>1 DEF CursorInv, RegisterInv, InColumns, InLines
    <3> QED BY <1>1, <1>2, <1>3, <1>4, <2>3, <2>4, <3>1, <3>2
            DEF CursorInv, RegisterInv, PortInv, InColumns
  <2>9. ASSUME Moves("downLoad", "downStore", con.y, con.x, con.y)
       PROVE  CursorInv' /\ RegisterInv' /\ PortInv'
    <3>1. /\ Top.at = "downLoad" /\ Top'.at = "downStore"
          /\ Top'.reg = con.y /\ con'.x = con.x /\ con'.y = con.y /\ Char' = Char
      BY <1>5, <2>9
    <3>2. CursorInv'
      BY <1>1, <1>2, <1>3, <2>3, <2>4, <3>1 DEF CursorInv, RegisterInv, InColumns, InLines
    <3> QED BY <1>1, <1>2, <1>3, <1>4, <2>3, <2>4, <3>1, <3>2
            DEF CursorInv, RegisterInv, PortInv, InColumns
  <2>10. ASSUME Moves("downStore", "cursor", 0, con.x, Top.reg + 1)
       PROVE  CursorInv' /\ RegisterInv' /\ PortInv'
    <3>1. /\ Top.at = "downStore" /\ Top'.at = "cursor"
          /\ Top'.reg = 0 /\ con'.x = con.x /\ con'.y = Top.reg + 1 /\ Char' = Char
      BY <1>5, <2>10
    <3>2. CursorInv'
      BY <1>1, <1>2, <1>3, <2>3, <2>4, <3>1 DEF CursorInv, RegisterInv, InColumns, InLines
    <3> QED BY <1>1, <1>2, <1>3, <1>4, <2>3, <2>4, <3>1, <3>2
            DEF CursorInv, RegisterInv, PortInv, InColumns
  <2>11. ASSUME Moves("backLoad", "xStore", con.x - 1, con.x, con.y)
       PROVE  CursorInv' /\ RegisterInv' /\ PortInv'
    <3>1. /\ Top.at = "backLoad" /\ Top'.at = "xStore"
          /\ Top'.reg = con.x - 1 /\ con'.x = con.x /\ con'.y = con.y /\ Char' = Char
      BY <1>5, <2>11
    <3>2. CursorInv'
      BY <1>1, <1>2, <1>3, <2>3, <2>4, <3>1 DEF CursorInv, RegisterInv, InColumns, InLines
    <3> QED BY <1>1, <1>2, <1>3, <1>4, <2>3, <2>4, <3>1, <3>2
            DEF CursorInv, RegisterInv, PortInv, InColumns
  <2>12. ASSUME Moves("xStore", "cursor", 0, Top.reg, con.y)
       PROVE  CursorInv' /\ RegisterInv' /\ PortInv'
    <3>1. /\ Top.at = "xStore" /\ Top'.at = "cursor"
          /\ Top'.reg = 0 /\ con'.x = Top.reg /\ con'.y = con.y /\ Char' = Char
      BY <1>5, <2>12
    <3>2. CursorInv'
      BY <1>1, <1>2, <1>3, <2>3, <2>4, <3>1 DEF CursorInv, RegisterInv, InColumns, InLines
    <3> QED BY <1>1, <1>2, <1>3, <1>4, <2>3, <2>4, <3>1, <3>2
            DEF CursorInv, RegisterInv, PortInv, InColumns
  <2>13. CursorInv' /\ RegisterInv' /\ PortInv'
    BY <2>1, <2>5, <2>6, <2>7, <2>8, <2>9, <2>10, <2>11, <2>12
  <2> QED BY <2>1, <2>2, <2>13 DEF ConsoleInv
<1>9. CASE Plain
  <2>1. /\ Typed({Main}, Accesses)'
        /\ \/ Char \in Printable /\ Moves("char", "place", Width * con.y, con.x, con.y)
           \/ Moves("place", "write", Top.reg + con.x, con.x, con.y)
           \/ Moves("write", "nextLoad", 0, con.x, con.y)
           \/ Moves("nextLoad", "xStore", con.x + 1, con.x, con.y)
    BY <1>1, <1>9, PlainMoves DEF RegisterInv
  <2>2. Len(stack') = 1 /\ Top'.text # <<>>
    BY <1>1, <1>5, <2>1
  <2>3. CursorInv'
    BY <1>1, <1>2, <1>3, <1>5, <2>1 DEF CursorInv, InColumns, InLines
  <2>4. {"cr", "nl", "bs", "tab"} \cap Printable = {}
    BY ConsoleAssumption
  <2>5. Offset = Width * con.y + con.x
    BY <1>2, <1>3, TimesNat DEF Offset
  <2>6. con'.x = con.x /\ con'.y = con.y
    BY <1>5, <2>1
  <2>7. Offset' = Offset /\ Width * con'.y = Width * con.y
    BY <2>6 DEF Offset
  <2>8. PortInv'
    BY <1>5, <2>1 DEF PortInv
  <2>9. /\ Char' = Char
        /\ \/ Top.at = "char" /\ Char \in Printable /\ Top'.at = "place" /\ Top'.reg = Width * con.y
           \/ Top.at = "place" /\ Top'.at = "write" /\ Top'.reg = Top.reg + con.x
           \/ Top.at = "write" /\ Top'.at = "nextLoad" /\ Top'.reg = 0
           \/ Top.at = "nextLoad" /\ Top'.at = "xStore" /\ Top'.reg = con.x + 1
    BY <1>5, <2>1
  <2>10. con.x < Width /\ con.x + 1 <= Size
    BY <1>1, <1>2, <1>3, <1>4, <2>9 DEF CursorInv, InColumns
  <2>11. Top'.at \in {"place", "write", "nextLoad"} => Char \in Printable
    BY <1>1, <2>9 DEF RegisterInv
  <2>12. Top'.at = "xStore" => Char \in Printable /\ Top'.reg = con.x + 1
    BY <1>1, <2>9 DEF RegisterInv
  <2>13. Top'.reg <= Size
    BY <1>1, <1>2, <1>3, <1>4, <2>5, <2>9, <2>10 DEF RegisterInv
  <2>14. /\ Top'.at = "place" => Top'.reg = Width * con.y
         /\ Top'.at = "write" => Top'.reg = Offset
    BY <1>1, <1>2, <1>4, <2>5, <2>9 DEF RegisterInv
  <2>15. RegisterInv'
    BY <2>4, <2>6, <2>7, <2>9, <2>11, <2>12, <2>13, <2>14 DEF RegisterInv
  <2> QED BY <2>1, <2>2, <2>3, <2>8, <2>15 DEF ConsoleInv
<1>10. CASE SetCursor
  <2>1. /\ Typed({Main}, Accesses)'
        /\ \/ Moves("cursor", "offset", Width * con.y, con.x, con.y) /\ Ports
           \/ Moves("offset", "index14", Top.reg + con.x, con.x, con.y) /\ Ports
           \/ /\ Moves("index14", "high", Top.reg, con.x, con.y)
              /\ con'.index = 14 /\ con'.crtc = con.crtc
           \/ /\ Moves("high", "index15", Top.reg, con.x, con.y)
              /\ con'.crtc[con.index] = (Top.reg \div Base) % Base
           \/ /\ Moves("index15", "low", Top.reg, con.x, con.y)
              /\ con'.index = 15 /\ con'.crtc = con.crtc
           \/ /\ Moves("low", "puts", 0, con.x, con.y)
              /\ con'.crtc[con.index] = Top.reg % Base
              /\ \A r \in {14, 15} \ {con.index} : con'.crtc[r] = con.crtc[r]
    BY <1>1, <1>10, SetCursorTable
  <2>2. Len(stack') = 1 /\ Top'.text # <<>>
    BY <1>1, <1>5, <2>1
  <2>4. Offset = Width * con.y + con.x
    BY <1>2, <1>3, TimesNat DEF Offset
  <2>5. con'.x = con.x /\ con'.y = con.y
    BY <1>5, <2>1
  <2>8. Offset' = Offset /\ Width * con'.y = Width * con.y
    BY <2>5 DEF Offset
  <2>9. /\ Char' = Char
        /\ \/ Top.at = "cursor" /\ Top'.at = "offset" /\ Top'.reg = Width * con.y
           \/ Top.at = "offset" /\ Top'.at = "index14" /\ Top'.reg = Top.reg + con.x
           \/ /\ Top.at \in {"index14", "high", "index15"}
              /\ Top'.at \in {"high", "index15", "low"} /\ Top'.reg = Top.reg
           \/ Top'.at = "puts" /\ Top'.reg = 0
    BY <1>5, <2>1
  <2>3. CursorInv'
    BY <1>1, <2>5, <2>9 DEF CursorInv, InColumns, InLines
  <2>10. Top'.reg <= Size
    BY <1>1, <1>2, <1>3, <1>4, <2>4, <2>9 DEF RegisterInv
  <2>11. /\ Top'.at = "offset" => Top'.reg = Width * con.y
         /\ Top'.at \in {"index14", "high", "index15", "low"} => Top'.reg = Offset
    BY <1>1, <1>2, <1>4, <2>4, <2>9 DEF RegisterInv
  <2>12. Top'.at \in {"offset", "index14", "high", "index15", "low", "puts"}
    BY <2>9
  <2>6. RegisterInv'
    BY <2>8, <2>10, <2>11, <2>12 DEF RegisterInv
  <2>7. PortInv'
    BY <1>1, <1>2, <1>5, <2>1 DEF PortInv
  <2> QED BY <2>1, <2>2, <2>3, <2>6, <2>7 DEF ConsoleInv
<1>11. CASE NextChar
  <2> DEFINE f == [int_no |-> Top.int_no,
                   at |-> IF Tail(Top.text) = <<>> THEN "done" ELSE "putc",
                   text |-> Tail(Top.text), reg |-> Top.reg]
  <2>1. Top.at = "puts" /\ Top.text # <<>>
    BY <1>1, <1>11 DEF NextChar
  <2>4. {"done", "putc"} \subseteq Accesses
    BY DEF Accesses
  <2>2. Typed({Main}, Accesses)' /\ Replaces(f) /\ con' = con
    BY <1>1, <1>11, <2>1, <2>4, NextCharTop DEF Typed
  <2>3. /\ Len(stack') = 1 /\ Top'.reg = Top.reg /\ Top'.at \in {"done", "putc"}
        /\ (Top'.at # "done" => Top'.text # <<>>)
    BY <1>1, <2>2 DEF Replaces
  <2> HIDE DEF f
  <2>5. CursorInv' /\ RegisterInv' /\ PortInv'
    BY <1>1, <2>2, <2>3 DEF CursorInv, RegisterInv, PortInv, InColumns, InLines
  <2> QED BY <2>2, <2>3, <2>5 DEF ConsoleInv
<1>12. CASE Call
  <2>1. PICK text \in Texts : Top.at = "done" /\ Puts(text)
    BY <1>12 DEF Call
  <2> DEFINE f == [int_no |-> Top.int_no, at |-> "putc", text |-> text, reg |-> Top.reg]
  <2>2. text \in Seq(Chars) /\ text # <<>>
    BY ConsoleAssumption
  <2>3. Typed({Main}, Accesses)' /\ Replaces(f) /\ con' = con
    BY <1>1, <2>1, <2>2, PutsTop DEF Typed, Accesses
  <2>4. /\ Len(stack') = 1 /\ Top'.reg = Top.reg /\ Top'.at = "putc" /\ Top'.text # <<>>
    BY <1>1, <2>2, <2>3 DEF Replaces
  <2> HIDE DEF f
  <2>5. CursorInv' /\ RegisterInv' /\ PortInv'
    BY <1>1, <2>3, <2>4 DEF CursorInv, RegisterInv, PortInv, InColumns, InLines
  <2> QED BY <2>3, <2>4, <2>5 DEF ConsoleInv
<1>13. CASE UNCHANGED consoleVars
  <2>1. con' = con /\ stack' = stack
    BY <1>13 DEF consoleVars
  <2>2. Top' = Top /\ Offset' = Offset /\ Char' = Char
    BY <2>1 DEF Top, Offset, Char
  <2>3. Typed({Main}, Accesses)' /\ Len(stack') = 1
    BY <1>1, <2>1 DEF Typed
  <2>4. CursorInv' /\ RegisterInv' /\ PortInv'
    BY <1>1, <2>1, <2>2 DEF CursorInv, RegisterInv, PortInv
  <2> QED BY <1>1, <2>2, <2>3, <2>4 DEF ConsoleInv
<1> QED BY <1>6, <1>7, <1>8, <1>9, <1>10, <1>11, <1>12, <1>13 DEF ConsoleNext, Printing

\* One caller leaves the screen by at most a column, and by a line in column 0: what
\* it holds of the cursor is no more than that.
THEOREM ConsoleTyped == ConsoleSpec => []ConsoleTypeOK
<1>1. ConsoleInv => ConsoleTypeOK
  <2> SUFFICES ASSUME ConsoleInv PROVE ConsoleTypeOK
    OBVIOUS
  <2>1. Typed({Main}, Accesses) /\ Len(stack) = 1 /\ CursorInv /\ Top.reg <= Size
    BY DEF ConsoleInv, RegisterInv
  <2>2. /\ con.x \in 0 .. Width /\ con.y \in 0 .. Height /\ Top.reg \in 0 .. Size
    <3>1. con.x \in Nat /\ con.y \in Nat /\ Top.reg \in Nat
      BY <2>1, TopTypes
    <3>2. Width \in Nat /\ Height \in Nat /\ Size \in Nat
      BY ConsoleAssumption, TimesNat DEF Size
    <3> QED BY <2>1, <3>1, <3>2 DEF CursorInv
  <2>3. con \in [x : 0 .. Width, y : 0 .. Height,
                 screen : [0 .. VideoSize - 1 -> Printable],
                 index : {14, 15}, crtc : [{14, 15} -> 0 .. Base - 1]]
    BY <2>1, <2>2 DEF Typed, Consoles
  <2>4. Top \in [int_no : {Main}, at : Accesses, text : Seq(Chars), reg : 0 .. Size]
    <3>1. Top \in Frames({Main}, Accesses, Seq(Chars), Regs)
      BY <2>1, TopFrame DEF Typed
    <3> QED BY <2>2, <3>1 DEF Frames
  <2>5. stack \in [{1} -> [int_no : {Main}, at : Accesses, text : Seq(Chars), reg : 0 .. Size]]
    <3>1. stack \in [1 .. 1 -> Frames({Main}, Accesses, Seq(Chars), Regs)] /\ stack[1] = Top
      BY <2>1 DEF Typed, Top
    <3>2. 1 .. 1 = {1}
      OBVIOUS
    <3> HIDE DEF Top
    <3> QED BY <2>4, <3>1, <3>2
  <2> QED BY <2>1, <2>3, <2>5 DEF ConsoleTypeOK, ConsoleInv, CursorInv
<1>2. ConsoleSpec => ConsoleInit /\ [][ConsoleNext]_consoleVars
  BY PTL DEF ConsoleSpec
<1> QED BY <1>1, <1>2, ConsoleInvInit, ConsoleInvNext, PTL

\* When setCursor has stored the second byte, the controller shows the cursor where
\* the next character goes.
THEOREM ConsoleShowsCursor == ConsoleSpec => CursorShown
<1> DEFINE Shown ==
      Top.at = "low" => con'.crtc[14] * Base + con'.crtc[15] = Offset % (Base * Base)
<1>1. ConsoleInv /\ [ConsoleNext]_consoleVars => [Shown]_consoleVars
  <2> SUFFICES ASSUME ConsoleInv, ConsoleNext, Top.at = "low"
               PROVE  con'.crtc[14] * Base + con'.crtc[15] = Offset % (Base * Base)
    OBVIOUS
  <2>1. Typed({Main}, Accesses) /\ PortInv /\ Top.reg = Offset
    BY DEF ConsoleInv, RegisterInv
  <2>2. Offset \in Nat
    BY <2>1, TopTypes
  <2>3. SetCursor
    BY DEF ConsoleNext, Call, Printing, Wrap, ClearScreen, Special, Plain, NextChar, Deals, Step
  <2>4. /\ con'.crtc[con.index] = Top.reg % Base
        /\ \A r \in {14, 15} \ {con.index} : con'.crtc[r] = con.crtc[r]
    BY <2>1, <2>3, SetCursorTable DEF Moves
  <2>5. con'.crtc[15] = Offset % Base /\ con'.crtc[14] = (Offset \div Base) % Base
    BY <2>1, <2>4 DEF PortInv
  <2> QED BY <2>2, <2>5, TwoBytes, ConsoleAssumption
<1>2. ConsoleSpec => ConsoleInit /\ [][ConsoleNext]_consoleVars
  BY PTL DEF ConsoleSpec
<1> QED BY <1>1, <1>2, ConsoleInvInit, ConsoleInvNext, PTL DEF CursorShown

---------------------------------------------------------------------------
(* The console acts as the terminal (module Terminal).                      *)

\* What the terminal shows and is asked, of the console.
Shown == [p \in 0 .. Size - 1 |-> con.screen[p]]
Asked == IF Printed THEN {} ELSE {Char}

\* The screen is cleared from its first place on.
Wiped == Top.at = "clear" => \A p \in 0 .. Top.reg - 1 : con.screen[p] = Blank

\* What the accesses store into the video memory.
LEMMA Screens ==
  ASSUME con \in Consoles
  PROVE  /\ \A v : PutX(v).screen = con.screen /\ PutY(v).screen = con.screen
         /\ \A v : Select(v).screen = con.screen /\ Port(v).screen = con.screen
BY DEF Consoles, PutX, PutY, Select, Port

\* Drawing changes one cell.
LEMMA DrawScreen ==
  ASSUME con \in Consoles, NEW p, NEW c
  PROVE  Draw(p, c).screen = [con.screen EXCEPT ![p] = c]
BY DEF Consoles, Draw

\* Only a character and clear_screen change the screen.
LEMMA ScreenKept ==
  ASSUME con \in Consoles, Wrap \/ Special \/ SetCursor \/ NextChar \/ Call
  PROVE  con'.screen = con.screen
<1>1. \A from, to, reg, c : c.screen = con.screen /\ Step(from, to, reg, c) => con'.screen = con.screen
  BY DEF Step
<1>2. CASE Wrap
  BY <1>1, <1>2, Screens DEF Wrap, PutX, PutY
<1>3. CASE Special
  BY <1>1, <1>3, Screens DEF Special, Deals, PutX, PutY
<1>4. CASE SetCursor
  <2>1. PICK from, to, reg, c :
          Step(from, to, reg, c) /\ c \in {con} \cup {Select(14), Select(15)} \cup
            {Port((Top.reg \div Base) % Base), Port(Top.reg % Base)}
    BY <1>4 DEF SetCursor, Select, Port
  <2>2. c.screen = con.screen
    BY <2>1, Screens
  <2> QED BY <1>1, <2>1, <2>2
<1>5. CASE NextChar \/ Call
  BY <1>5 DEF NextChar, Call, Puts
<1> QED BY <1>2, <1>3, <1>4, <1>5

\* What a character does to a place of the screen, in column x of line y.
LEMMA AfterPlace ==
  ASSUME NEW x \in Nat, NEW y \in Nat, x < Width, NEW p \in Nat, p = Width * y + x
  PROVE  /\ Screen!After("cr", p) = Width * y
         /\ Screen!After("nl", p) = Width * y + Width
         /\ Screen!After("bs", p) = IF x > 0 THEN p - 1 ELSE p
         /\ Screen!After("tab", p) = Width * y + NextStop(x)
         /\ \A c \in Printable : Screen!After(c, p) = p + 1
<1>1. Width \in Nat \ {0} /\ x \in 0 .. Width - 1
  BY ConsoleAssumption
<1>2. p % Width = x
  BY <1>1, DivModOnly
<1>3. Width * y \in Nat /\ p - x = Width * y
  BY <1>1, TimesNat
<1>4. {"cr", "nl", "bs", "tab"} \cap Printable = {}
  BY ConsoleAssumption
<1>5. \A c \in Printable : c \notin {"cr", "nl", "bs", "tab"}
  BY <1>4
<1> QED BY <1>2, <1>3, <1>5 DEF Screen!After, NextStop

\* The steps of the terminal, in terms of the console.
Stutters == Position' = Position /\ Shown' = Shown /\ Asked' = Asked

Asks == /\ Asked = {} /\ \E c \in Chars : Asked' = {c}
        /\ Position' = Position /\ Shown' = Shown

Wipes == /\ Asked # {} /\ Position = Size /\ Position' = Position /\ Asked' = Asked
         /\ \E p \in 0 .. Size - 1 : Shown' = [Shown EXCEPT ![p] = Blank]

Pages == /\ Asked # {} /\ Position = Size /\ Position' = 0 /\ Asked' = Asked
         /\ Shown' = Shown
         /\ \A p \in 0 .. Size - 1 : Shown[p] = Blank

Acts == /\ Position \in 0 .. Size - 1 /\ Asked' = {}
        /\ \E c \in Asked :
             /\ Position' = Screen!After(c, Position)
             /\ Shown' = IF c \in Printable THEN [Shown EXCEPT ![Position] = c] ELSE Shown

\* Each of the five ways to move is a step of the terminal, or none.
LEMMA TerminalSteps ==
  ASSUME Stutters \/ Asks \/ Wipes \/ Pages \/ Acts
  PROVE  [Screen!TerminalNext]_(Screen!terminalVars)
<1>1. Screen!Places = 0 .. Size - 1 /\ Screen!Chars = Chars
  BY DEF Screen!Places, Screen!Chars, Chars, Size
<1>2. CASE Stutters
  BY <1>2 DEF Stutters, Screen!terminalVars, Shown, Asked
<1>3. CASE Asks
  BY <1>1, <1>3 DEF Asks, Screen!TerminalNext, Screen!Ask, Shown, Asked
<1>4. CASE Wipes
  BY <1>1, <1>4 DEF Wipes, Screen!TerminalNext, Screen!Wipe, Shown, Asked, Size
<1>5. CASE Pages
  BY <1>1, <1>5 DEF Pages, Screen!TerminalNext, Screen!Page, Shown, Asked, Size
<1>6. CASE Acts
  BY <1>1, <1>6 DEF Acts, Screen!TerminalNext, Screen!Act, Shown, Asked
<1> QED BY <1>2, <1>3, <1>4, <1>5, <1>6

\* Where the next character goes and what is asked, by access, character and cursor.
PositionAt(at, c, reg, x, y) ==
  CASE at = "clear" -> Size
    [] at \in {"rowLoad", "rowStore", "downLoad", "downStore"} -> x + Width * y + Width
    [] at = "nextLoad" -> x + Width * y + 1
    [] at = "xStore" /\ c \in Printable -> reg + Width * y
    [] OTHER -> x + Width * y

AskedAt(at, c) ==
  IF \/ at \in {"downLoad", "downStore", "nextLoad", "cursor", "offset", "index14", "high",
                "index15", "low", "puts", "done"}
     \/ at = "xStore" /\ c \in Printable
  THEN {} ELSE {c}

\* The position and the request of the terminal depend on the running frame alone.
LEMMA MappingAt ==
  /\ Position = PositionAt(Top.at, Char, Top.reg, con.x, con.y)
  /\ Position' = PositionAt(Top'.at, Char', Top'.reg, con'.x, con'.y)
  /\ Asked = AskedAt(Top.at, Char) /\ Asked' = AskedAt(Top'.at, Char')
BY DEF Position, PositionAt, Offset, Asked, AskedAt, Printed

\* Only the screen is shown, of the video memory.
LEMMA ShownDrawn ==
  ASSUME con \in Consoles, NEW q \in 0 .. Size - 1, NEW c,
         con'.screen = [con.screen EXCEPT ![q] = c]
  PROVE  Shown' = [Shown EXCEPT ![q] = c]
<1> DEFINE f == con.screen
           g == con'.screen
<1>1. f \in [0 .. VideoSize - 1 -> Printable] /\ g = [f EXCEPT ![q] = c]
  BY DEF Consoles
<1>2. VideoSize \in Nat /\ Size \in Nat /\ Size <= VideoSize
  BY ConsoleAssumption, TimesNat DEF Size
<1> HIDE DEF f, g
<1>3. \A p \in 0 .. Size - 1 : g[p] = IF p = q THEN c ELSE f[p]
  <2>1. 0 .. Size - 1 \subseteq 0 .. VideoSize - 1
    BY <1>2
  <2> QED BY <1>1, <2>1
<1> DEFINE h == [p \in 0 .. Size - 1 |-> f[p]]
<1>4. [p \in 0 .. Size - 1 |-> g[p]] = [h EXCEPT ![q] = c]
  BY <1>3
<1> QED BY <1>4 DEF Shown, f, g

\* Each access is a step of the terminal, or none.
LEMMA Simulates ==
  ConsoleInv /\ Wiped /\ [ConsoleNext]_consoleVars
    => Wiped' /\ (Stutters \/ Asks \/ Wipes \/ Pages \/ Acts)
<1> SUFFICES ASSUME ConsoleInv, Wiped, [ConsoleNext]_consoleVars
             PROVE  Wiped' /\ (Stutters \/ Asks \/ Wipes \/ Pages \/ Acts)
  OBVIOUS
<1>1. /\ Typed({Main}, Accesses) /\ Len(stack) = 1 /\ (Top.at # "done" => Top.text # <<>>)
      /\ CursorInv /\ RegisterInv /\ con \in Consoles
  BY DEF ConsoleInv, Typed
<1>2. con.x \in Nat /\ con.y \in Nat /\ Top.reg \in Nat /\ Top.text \in Seq(Chars)
  BY <1>1, TopTypes
<1>3. Width \in Nat \ {0} /\ Height \in Nat \ {0} /\ Size \in Nat /\ Width * con.y \in Nat
  BY <1>2, ConsoleAssumption, TimesNat DEF Size
<1>4. /\ Width * (con.y + 1) = Width * con.y + Width /\ Width * Height = Size
      /\ Width * 0 = 0
  BY <1>2, <1>3 DEF Size
<1>5. ASSUME NEW from, NEW to, NEW reg, NEW x, NEW y, Moves(from, to, reg, x, y)
      PROVE  /\ Char' = Char
             /\ Top.at = from /\ Top'.at = to /\ Top'.reg = reg /\ con'.x = x /\ con'.y = y
  BY <1>5, MovesAlone
<1>6. con'.screen = con.screen => Shown' = Shown
  BY DEF Shown
<1>7. {"cr", "nl", "bs", "tab"} \cap Printable = {}
  BY ConsoleAssumption
<1>8. CASE Wrap
  <2>1. \/ Moves("putc", IF con.x > Width - 1 THEN "left" ELSE "line", 0, con.x, con.y)
        \/ Moves("left", "rowLoad", 0, 0, con.y)
        \/ Moves("rowLoad", "rowStore", con.y, con.x, con.y)
        \/ Moves("rowStore", "line", 0, con.x, Top.reg + 1)
        \/ Moves("line", IF con.y > Height - 1 THEN "top" ELSE "char", 0, con.x, con.y)
        \/ Moves("top", "clear", 0, con.x, 0)
    BY <1>1, <1>8, WrapMoves
  <2>2. Asked' = Asked
    BY <1>5, <2>1, MappingAt DEF AskedAt
  <2>a. \/ /\ Top.at = "putc" /\ Top'.at \in {"left", "line"}
           /\ con'.x = con.x /\ con'.y = con.y
        \/ Top.at = "left" /\ Top'.at = "rowLoad" /\ con'.x = 0 /\ con'.y = con.y
        \/ /\ Top.at = "rowLoad" /\ Top'.at = "rowStore"
           /\ con'.x = con.x /\ con'.y = con.y
        \/ Top.at = "rowStore" /\ Top'.at = "line" /\ con'.x = con.x /\ con'.y = Top.reg + 1
        \/ /\ Top.at = "line" /\ Top'.at \in {"top", "char"}
           /\ con'.x = con.x /\ con'.y = con.y
        \/ Top.at = "top" /\ Top'.at = "clear"
    BY <1>5, <2>1
  <2>b. /\ Top.at = "left" => con.x = Width
        /\ Top.at = "rowStore" => con.x = 0 /\ Top.reg = con.y
        /\ Top.at = "top" => con.x = 0 /\ con.y = Height
    BY <1>1 DEF CursorInv, RegisterInv
  <2>3. Position' = Position
    <3>1. /\ Position = PositionAt(Top.at, Char, Top.reg, con.x, con.y)
          /\ Position' = PositionAt(Top'.at, Char', Top'.reg, con'.x, con'.y)
      BY MappingAt
    <3>2. CASE Top.at = "left"
      BY <1>2, <1>3, <2>a, <2>b, <3>1, <3>2 DEF PositionAt
    <3>3. CASE Top.at = "rowStore"
      <4>1. Top'.at = "line" /\ con'.x = 0 /\ con'.y = con.y + 1 /\ con.x = 0
        BY <2>a, <2>b, <3>3
      <4>2. Position = 0 + Width * con.y + Width /\ Position' = 0 + Width * (con.y + 1)
        BY <3>1, <3>3, <4>1 DEF PositionAt
      <4> QED BY <1>3, <1>4, <4>2
    <3>4. CASE Top.at = "top"
      <4>1. Position = 0 + Width * Height /\ Position' = Size
        BY <2>a, <2>b, <3>1, <3>4 DEF PositionAt
      <4> QED BY <1>3, <1>4, <4>1
    <3>5. CASE Top.at \notin {"left", "rowStore", "top"}
      BY <2>a, <3>1, <3>5 DEF PositionAt
    <3> QED BY <3>2, <3>3, <3>4, <3>5
  <2>4. Wiped'
    BY <1>5, <2>1 DEF Wiped
  <2> QED BY <1>1, <1>6, <1>8, <2>2, <2>3, <2>4, ScreenKept DEF Stutters
<1>9. CASE ClearScreen
  <2>1. Top.at = "clear" /\ con.x = 0 /\ con.y = 0 /\ Asked = {Char} /\ Position = Size
    BY <1>1, <1>9, MappingAt DEF ClearScreen, Step, CursorInv, AskedAt, PositionAt
  <2>2. \/ Top.reg < Size /\ Moves("clear", "clear", Top.reg + 1, con.x, con.y)
        \/ Top.reg = Size /\ Moves("clear", "char", 0, con.x, con.y)
    BY <1>1, <1>9, ClearMoves
  <2>3. Asked' = Asked
    BY <1>5, <2>2, MappingAt DEF AskedAt
  <2>4. CASE Top.reg < Size
    <3>1. Top'.at = "clear" /\ Top'.reg = Top.reg + 1
      BY <1>2, <1>3, <1>5, <2>2, <2>4
    <3>2. con' = Draw(Top.reg, Blank)
      BY <1>2, <1>9, <2>4 DEF ClearScreen, Step, Draw
    <3>3. con'.screen = [con.screen EXCEPT ![Top.reg] = Blank]
      <4>1. Draw(Top.reg, Blank).screen = [con.screen EXCEPT ![Top.reg] = Blank]
        BY <1>1, DrawScreen
      <4> QED BY <3>2, <4>1
    <3>4. con.screen \in [0 .. VideoSize - 1 -> Printable] /\ Size <= VideoSize
      BY <1>1, ConsoleAssumption DEF Consoles, Size
    <3>5. Position' = Position
      BY <2>1, <3>1, MappingAt DEF PositionAt
    <3>6. Shown' = [Shown EXCEPT ![Top.reg] = Blank]
      <4>1. Top.reg \in 0 .. Size - 1
        BY <1>2, <1>3, <2>4
      <4> QED BY <1>1, <3>3, <4>1, ShownDrawn
    <3>7. Wiped'
      BY <1>2, <1>3, <2>1, <2>4, <3>1, <3>3, <3>4, ConsoleAssumption DEF Wiped
    <3>8. Top.reg \in 0 .. Size - 1
      BY <1>2, <1>3, <2>4
    <3> QED BY <2>1, <2>3, <3>5, <3>6, <3>7, <3>8 DEF Wipes
  <2>5. CASE Top.reg = Size
    <3>1. Top'.at = "char" /\ con'.x = 0 /\ con'.y = 0
      BY <1>2, <1>5, <2>1, <2>2, <2>5
    <3>2. con' = con
      BY <1>2, <1>9, <2>5 DEF ClearScreen, Step
    <3>3. Position' = 0
      BY <1>4, <3>1, MappingAt DEF PositionAt
    <3>4. \A p \in 0 .. Size - 1 : Shown[p] = Blank
      BY <2>1, <2>5 DEF Wiped, Shown
    <3>5. Wiped'
      BY <3>1 DEF Wiped
    <3> QED BY <1>6, <2>1, <2>3, <3>2, <3>3, <3>4, <3>5 DEF Pages
  <2> QED BY <2>2, <2>4, <2>5
<1>10. CASE Special
  <2>1. \/ Char = "cr" /\ Moves("char", "cursor", 0, 0, con.y)
        \/ Char = "nl" /\ Moves("char", "downLoad", 0, 0, con.y)
        \/ /\ Char = "bs"
           /\ Moves("char", IF con.x > 0 THEN "backLoad" ELSE "cursor", 0, con.x, con.y)
        \/ Char = "tab" /\ Moves("char", "xStore", NextStop(con.x), con.x, con.y)
        \/ Moves("downLoad", "downStore", con.y, con.x, con.y)
        \/ Moves("downStore", "cursor", 0, con.x, Top.reg + 1)
        \/ Moves("backLoad", "xStore", con.x - 1, con.x, con.y)
        \/ Moves("xStore", "cursor", 0, Top.reg, con.y)
    BY <1>1, <1>10, SpecialMoves DEF BackInv, RegisterInv
  <2>2. Shown' = Shown
    BY <1>1, <1>6, <1>10, ScreenKept
  <2>3. Wiped'
    BY <1>5, <2>1 DEF Wiped
  <2>4. \/ Top.at = "char" /\ Char \in {"cr", "nl", "bs", "tab"}
        \/ Top.at \in {"downLoad", "downStore", "backLoad", "xStore"}
    BY <1>5, <2>1
  <2>5. con.x < Width /\ con.y < Height
    BY <1>1, <2>4 DEF CursorInv, InColumns, InLines
  <2> DEFINE p == con.x + Width * con.y
  <2>6. p \in 0 .. Size - 1 /\ p \in Nat
    <3>1. p = Width * con.y + con.x
      BY <1>2, <1>3
    <3> QED BY <1>2, <2>5, <3>1, PlaceBound
  <2>7. /\ Screen!After("cr", p) = 0 + Width * con.y
        /\ Screen!After("nl", p) = 0 + Width * con.y + Width
        /\ Screen!After("bs", p) = IF con.x > 0 THEN p - 1 ELSE p
        /\ Screen!After("tab", p) = NextStop(con.x) + Width * con.y
    <3>1. p = Width * con.y + con.x
      BY <1>2, <1>3
    <3>2. NextStop(con.x) \in Nat
      BY <1>2, NextStopNat
    <3> HIDE DEF p
    <3>3. /\ Screen!After("cr", p) = Width * con.y
          /\ Screen!After("nl", p) = Width * con.y + Width
          /\ Screen!After("bs", p) = IF con.x > 0 THEN p - 1 ELSE p
          /\ Screen!After("tab", p) = Width * con.y + NextStop(con.x)
      BY <1>2, <2>5, <2>6, <3>1, AfterPlace
    <3> QED BY <1>3, <3>2, <3>3
  <2>8. /\ Position = PositionAt(Top.at, Char, Top.reg, con.x, con.y)
        /\ Position' = PositionAt(Top'.at, Char', Top'.reg, con'.x, con'.y)
        /\ Asked = AskedAt(Top.at, Char) /\ Asked' = AskedAt(Top'.at, Char')
    BY MappingAt
  <2>9. ASSUME Char = "cr", Moves("char", "cursor", 0, 0, con.y) PROVE Acts
    <3>1. Asked = {Char} /\ Asked' = {} /\ Position = p /\ Position' = 0 + Width * con.y
      BY <1>5, <2>8, <2>9 DEF AskedAt, PositionAt
    <3> QED BY <1>7, <2>2, <2>6, <2>7, <2>9, <3>1 DEF Acts
  <2>10. ASSUME Char = "nl", Moves("char", "downLoad", 0, 0, con.y) PROVE Acts
    <3>1. /\ Asked = {Char} /\ Asked' = {} /\ Position = p
          /\ Position' = 0 + Width * con.y + Width
      BY <1>5, <2>8, <2>10 DEF AskedAt, PositionAt
    <3> QED BY <1>7, <2>2, <2>6, <2>7, <2>10, <3>1 DEF Acts
  <2>11. ASSUME Char = "bs", con.x > 0, Moves("char", "backLoad", 0, con.x, con.y)
         PROVE  Stutters
    BY <1>5, <2>2, <2>8, <2>11 DEF Stutters, AskedAt, PositionAt
  <2>12. ASSUME Char = "bs", ~(con.x > 0), Moves("char", "cursor", 0, con.x, con.y)
         PROVE  Acts
    <3>1. Asked = {Char} /\ Asked' = {} /\ Position = p /\ Position' = p
      BY <1>5, <2>8, <2>12 DEF AskedAt, PositionAt
    <3> QED BY <1>7, <2>2, <2>6, <2>7, <2>12, <3>1 DEF Acts
  <2>13. ASSUME Char = "tab", Moves("char", "xStore", NextStop(con.x), con.x, con.y)
         PROVE  Stutters
    BY <1>5, <1>7, <2>2, <2>8, <2>13 DEF Stutters, AskedAt, PositionAt
  <2>14. ASSUME Moves("downLoad", "downStore", con.y, con.x, con.y) PROVE Stutters
    BY <1>5, <2>2, <2>8, <2>14 DEF Stutters, AskedAt, PositionAt
  <2>15. ASSUME Moves("downStore", "cursor", 0, con.x, Top.reg + 1) PROVE Stutters
    <3>1. Top.at = "downStore" /\ Top'.at = "cursor" /\ con'.y = con.y + 1 /\ con'.x = con.x
      BY <1>1, <1>5, <2>15 DEF RegisterInv
    <3>2. /\ Position = con.x + Width * con.y + Width
          /\ Position' = con.x + Width * (con.y + 1)
      BY <2>8, <3>1 DEF PositionAt
    <3>3. Asked' = Asked
      BY <2>8, <3>1 DEF AskedAt
    <3> QED BY <1>2, <1>3, <1>4, <2>2, <3>2, <3>3 DEF Stutters
  <2>16. ASSUME Moves("backLoad", "xStore", con.x - 1, con.x, con.y) PROVE Stutters
    <3>1. Char = "bs"
      BY <1>1, <1>5, <2>16 DEF RegisterInv
    <3> QED BY <1>5, <1>7, <2>2, <2>8, <2>16, <3>1 DEF Stutters, AskedAt, PositionAt
  <2>17. ASSUME Moves("xStore", "cursor", 0, Top.reg, con.y) PROVE Stutters \/ Acts
    <3>1. /\ Top.at = "xStore" /\ Top'.at = "cursor" /\ Char' = Char
          /\ Position' = Top.reg + Width * con.y /\ Asked' = {}
      BY <1>5, <2>8, <2>17 DEF PositionAt, AskedAt
    <3>2. CASE Char \in Printable
      BY <2>2, <2>8, <3>1, <3>2 DEF Stutters, AskedAt, PositionAt
    <3>3. CASE Char = "bs"
      <4>1. Position = p /\ Asked = {Char} /\ con.x > 0 /\ Top.reg = con.x - 1
        BY <1>1, <1>7, <2>8, <3>1, <3>3 DEF AskedAt, PositionAt, RegisterInv
      <4>2. Position' = p - 1
        <5> DEFINE m == Width * con.y
        <5>1. m \in Int /\ Position' = Top.reg + m /\ p = con.x + m
          BY <1>2, <1>3, <3>1, TimesNat
        <5> HIDE DEF m, p
        <5> QED BY <1>2, <4>1, <5>1
      <4> QED BY <1>7, <2>2, <2>6, <2>7, <3>1, <3>3, <4>1, <4>2 DEF Acts
    <3>4. CASE Char = "tab"
      <4>1. Position = p /\ Asked = {Char} /\ Top.reg = NextStop(con.x)
        BY <1>1, <1>7, <2>8, <3>1, <3>4 DEF AskedAt, PositionAt, RegisterInv
      <4> QED BY <1>7, <2>2, <2>6, <2>7, <3>1, <3>4, <4>1 DEF Acts
    <3> QED BY <1>1, <3>1, <3>2, <3>3, <3>4 DEF RegisterInv
  <2> QED BY <2>1, <2>3, <2>9, <2>10, <2>11, <2>12, <2>13, <2>14, <2>15, <2>16, <2>17
<1>11. CASE Plain
  <2>1. \/ Char \in Printable /\ Moves("char", "place", Width * con.y, con.x, con.y)
        \/ Moves("place", "write", Top.reg + con.x, con.x, con.y)
        \/ Moves("write", "nextLoad", 0, con.x, con.y)
        \/ Moves("nextLoad", "xStore", con.x + 1, con.x, con.y)
    BY <1>1, <1>11, PlainMoves DEF RegisterInv
  <2>2. Wiped'
    BY <1>5, <2>1 DEF Wiped
  <2>3. /\ Position = PositionAt(Top.at, Char, Top.reg, con.x, con.y)
        /\ Position' = PositionAt(Top'.at, Char', Top'.reg, con'.x, con'.y)
        /\ Asked = AskedAt(Top.at, Char) /\ Asked' = AskedAt(Top'.at, Char')
    BY MappingAt
  <2>4. Char \in Printable /\ Char' = Char
    BY <1>1, <1>5, <2>1 DEF RegisterInv
  <2>5. CASE Top.at # "write"
    <3>1. con' = con
      BY <1>11, <2>5 DEF Plain, Deals, Step
    <3>2. CASE Top.at = "nextLoad"
      <4>1. Top'.at = "xStore" /\ Top'.reg = con.x + 1 /\ con'.y = con.y
        BY <1>5, <2>1, <3>2
      <4>2. Position = con.x + Width * con.y + 1 /\ Position' = con.x + 1 + Width * con.y
        BY <2>3, <2>4, <3>2, <4>1 DEF PositionAt
      <4>3. Asked' = Asked
        BY <2>3, <2>4, <3>2, <4>1 DEF AskedAt
      <4> QED BY <1>2, <1>3, <1>6, <2>2, <3>1, <4>2, <4>3 DEF Stutters
    <3>3. CASE Top.at # "nextLoad"
      <4>1. Top.at \in {"char", "place"} /\ Top'.at \in {"place", "write"}
        BY <1>5, <2>1, <2>5, <3>3
      <4>2. Position' = Position /\ Asked' = Asked
        BY <2>3, <2>4, <3>1, <4>1 DEF PositionAt, AskedAt
      <4> QED BY <1>6, <2>2, <3>1, <4>2 DEF Stutters
    <3> QED BY <3>2, <3>3
  <2>6. CASE Top.at = "write"
    <3>1. /\ con' = Draw(Top.reg, Char) /\ Top.reg = Offset
          /\ con.x < Width /\ con.y < Height
      BY <1>1, <1>11, <2>6
         DEF Plain, Deals, Step, Draw, RegisterInv, CursorInv, InColumns, InLines
    <3>2. Top'.at = "nextLoad" /\ con'.x = con.x /\ con'.y = con.y
      BY <1>5, <2>1, <2>6
    <3>3. Offset \in 0 .. Size - 1 /\ Offset = Width * con.y + con.x /\ Offset \in Nat
      <4>1. Offset = Width * con.y + con.x
        BY <1>2, <1>3 DEF Offset
      <4> QED BY <1>2, <3>1, <4>1, PlaceBound
    <3>4. Position = Offset /\ Asked = {Char} /\ Asked' = {}
      BY <2>3, <2>6, <3>2 DEF PositionAt, AskedAt, Offset
    <3>5. Position' = Screen!After(Char, Offset)
      <4>1. Screen!After(Char, Offset) = Offset + 1
        BY <1>2, <2>4, <3>1, <3>3, AfterPlace
      <4>2. Position' = con.x + Width * con.y + 1
        BY <2>3, <3>2 DEF PositionAt
      <4> QED BY <4>1, <4>2 DEF Offset
    <3>6. con'.screen = [con.screen EXCEPT ![Offset] = Char]
      BY <1>1, <3>1, DrawScreen
    <3>7. Shown' = [Shown EXCEPT ![Offset] = Char]
      BY <1>1, <3>3, <3>6, ShownDrawn
    <3> QED BY <2>2, <2>4, <3>3, <3>4, <3>5, <3>7 DEF Acts
  <2> QED BY <2>5, <2>6
<1>12. CASE SetCursor
  <2>1. PICK from \in Shows, to \in Shows \cup {"puts"}, reg \in Nat :
          Moves(from, to, reg, con.x, con.y)
    BY <1>1, <1>12, SetCursorMoves
  <2>2. Top.at \in Shows /\ Top'.at \in Shows \cup {"puts"} /\ con'.x = con.x /\ con'.y = con.y
    BY <1>5, <2>1
  <2>3. Position' = Position /\ Asked' = Asked
    BY <2>2, MappingAt DEF PositionAt, AskedAt, Shows
  <2>4. Wiped'
    BY <2>2 DEF Wiped, Shows
  <2> QED BY <1>1, <1>6, <1>12, <2>3, <2>4, ScreenKept DEF Stutters
<1>13. CASE NextChar
  <2>1. Top.at = "puts" /\ Top.text # <<>>
    BY <1>1, <1>13 DEF NextChar
  <2> DEFINE f == [int_no |-> Top.int_no,
                   at |-> IF Tail(Top.text) = <<>> THEN "done" ELSE "putc",
                   text |-> Tail(Top.text), reg |-> Top.reg]
  <2>2. Typed({Main}, Accesses)' /\ Top' = f /\ con' = con
    BY <1>1, <1>13, <2>1, NextCharTop DEF Typed, Accesses, Replaces
  <2>3. /\ Top'.at \in {"done", "putc"} /\ Top'.text \in Seq(Chars)
        /\ (Top'.at = "putc" => Top'.text # <<>>)
    BY <1>2, <2>1, <2>2
  <2> HIDE DEF f
  <2>4. Wiped' /\ Shown' = Shown
    BY <1>6, <2>2, <2>3 DEF Wiped
  <2>5. Position' = Position
    BY <2>1, <2>2, <2>3, MappingAt DEF PositionAt
  <2>6. CASE Top'.at = "done"
    BY <2>1, <2>4, <2>5, <2>6, MappingAt DEF AskedAt, Stutters
  <2>7. CASE Top'.at = "putc"
    <3>1. Char' \in Chars
      BY <2>3, <2>7 DEF Char
    <3>2. Asked = {} /\ Asked' = {Char'}
      BY <2>1, <2>7, MappingAt DEF AskedAt
    <3> QED BY <2>4, <2>5, <3>1, <3>2 DEF Asks
  <2> QED BY <2>3, <2>6, <2>7
<1>14. CASE Call
  <2>1. PICK text \in Texts : Top.at = "done" /\ Puts(text)
    BY <1>14 DEF Call
  <2> DEFINE f == [int_no |-> Top.int_no, at |-> "putc", text |-> text, reg |-> Top.reg]
  <2>2. text \in Seq(Chars) /\ text # <<>>
    BY ConsoleAssumption
  <2>3. Typed({Main}, Accesses)' /\ Top' = f /\ con' = con
    BY <1>1, <2>1, <2>2, PutsTop DEF Typed, Accesses, Replaces
  <2>4. Top'.at = "putc" /\ Top'.text = text
    BY <2>3
  <2> HIDE DEF f
  <2>5. Wiped' /\ Shown' = Shown
    BY <1>6, <2>3, <2>4 DEF Wiped
  <2>6. Position' = Position /\ Asked = {} /\ Asked' = {Char'}
    BY <2>1, <2>3, <2>4, MappingAt DEF PositionAt, AskedAt
  <2>7. Char' \in Chars
    BY <2>2, <2>4 DEF Char
  <2> QED BY <2>5, <2>6, <2>7 DEF Asks
<1>15. CASE UNCHANGED consoleVars
  <2>1. con' = con /\ Top' = Top
    BY <1>15 DEF consoleVars, Top
  <2>2. Char' = Char
    BY <2>1 DEF Char
  <2>3. Wiped' /\ Shown' = Shown
    BY <1>6, <2>1 DEF Wiped
  <2>4. Position' = Position /\ Asked' = Asked
    BY <2>1, <2>2, MappingAt
  <2> QED BY <2>3, <2>4 DEF Stutters
<1> QED BY <1>8, <1>9, <1>10, <1>11, <1>12, <1>13, <1>14, <1>15 DEF ConsoleNext, Printing

\* The console acts as the terminal does: each character once, on its place, none
\* behind the end of the screen, whatever is printed on a screen of any size.
THEOREM ConsoleActsAsTerminal ==
  ConsoleSpec => Screen!TerminalInit /\ [][Screen!TerminalNext]_(Screen!terminalVars)
<1>1. ConsoleInit => Screen!TerminalInit /\ Wiped
  <2> SUFFICES ASSUME ConsoleInit PROVE Screen!TerminalInit /\ Wiped
    OBVIOUS
  <2>1. /\ Top.at = "done" /\ con.x = 0 /\ con.y = 0
        /\ con.screen = [p \in 0 .. VideoSize - 1 |-> Blank]
    BY DEF ConsoleInit, Cleared, Top
  <2>2. Position = 0 /\ Asked = {}
    BY <2>1, MappingAt, ConsoleAssumption DEF PositionAt, AskedAt
  <2>3. \A p \in 0 .. Size - 1 : con.screen[p] = Blank
    BY <2>1, ConsoleAssumption, TimesNat DEF Size
  <2>4. Shown = [p \in 0 .. Size - 1 |-> Blank]
    BY <2>3 DEF Shown
  <2> QED BY <2>1, <2>2, <2>4
          DEF Screen!TerminalInit, Screen!Places, Wiped, Shown, Asked, Size
<1>2. ConsoleInv /\ Wiped /\ [ConsoleNext]_consoleVars
        => Wiped' /\ [Screen!TerminalNext]_(Screen!terminalVars)
  BY Simulates, TerminalSteps
<1>3. ConsoleSpec => ConsoleInit /\ [][ConsoleNext]_consoleVars
  BY PTL DEF ConsoleSpec
<1> QED BY <1>1, <1>2, <1>3, ConsoleInvInit, ConsoleInvNext, PTL
=============================================================================
