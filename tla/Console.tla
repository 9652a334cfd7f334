------------------------------- MODULE Console -------------------------------
(***************************************************************************)
(* clear_screen, puts, setCursor and putc of the kernel's main.c, by their *)
(* accesses to the cursor, the video memory and the ports of the CRT       *)
(* controller: the kernel is built without optimisation, so that each      *)
(* access in the C text is an instruction of its own, and cursor_x++ two.  *)
(* An interrupt may come between any two of them (module Kernel); here one *)
(* caller prints one text after the other.                                 *)
(***************************************************************************)
EXTENDS Integers, Sequences

CONSTANTS
  Width, Height,    \* 80 columns, 25 lines
  TabStop,          \* 8
  Base,             \* 256: what a port takes
  VideoSize,        \* the characters of the video memory, at and behind the screen
  Printable,        \* the characters that are shown
  Blank,            \* ' '
  Texts             \* what puts is called with

Chars == Printable \cup {"cr", "nl", "bs", "tab"}

ASSUME ConsoleAssumption ==
  /\ Width \in Nat \ {0} /\ Height \in Nat \ {0} /\ TabStop \in Nat \ {0}
  /\ Width % TabStop = 0
  /\ Base \in Nat \ {0}
  /\ VideoSize \in Nat /\ Width * Height <= VideoSize
  /\ Blank \in Printable /\ Printable \cap {"cr", "nl", "bs", "tab"} = {}
  /\ Texts \subseteq Seq(Chars) \ {<<>>}

VARIABLES
  con,      \* cursor_x, cursor_y, the video memory, the ports of the controller
  stack     \* who prints: int_no, at what access, the rest of the text, a register

consoleVars == <<con, stack>>

Main == -1  \* in place of int_no: not in an interrupt

Size   == Width * Height
Top    == stack[Len(stack)]
Char   == Head(Top.text)
Offset == con.x + Width * con.y

Goto(at, reg) == stack' = [stack EXCEPT ![Len(stack)].at = at, ![Len(stack)].reg = reg]

Step(from, to, reg, c) == Top.at = from /\ Goto(to, reg) /\ con' = c

\* puts begins to print a text.
Puts(text) ==
  /\ stack' = [stack EXCEPT ![Len(stack)] = [@ EXCEPT !.at = "putc", !.text = text]]
  /\ con' = con

---------------------------------------------------------------------------
(* putc.  Step(access, next access, register, console)                      *)

\* Mutant: the tests of putc come in the other order.
WrapLineFirst ==
  \/ Step("putc", IF con.y > Height - 1 THEN "top" ELSE "line", 0, con)
  \/ Step("line", IF con.x > Width - 1 THEN "left" ELSE "char", 0, con)
  \/ Step("left", "rowLoad", 0, [con EXCEPT !.x = 0])
  \/ Step("rowLoad", "rowStore", con.y, con)
  \/ Step("rowStore", "char", 0, [con EXCEPT !.y = Top.reg + 1])
  \/ Step("top", "clear", 0, [con EXCEPT !.y = 0])

\* Mutant: cursor_x == 80, which is the same for a putc that is alone.
WrapAtWidth ==
  \/ Step("putc", IF con.x = Width THEN "left" ELSE "line", 0, con)
  \/ Step("left", "rowLoad", 0, [con EXCEPT !.x = 0])
  \/ Step("rowLoad", "rowStore", con.y, con)
  \/ Step("rowStore", "line", 0, [con EXCEPT !.y = Top.reg + 1])
  \/ Step("line", IF con.y > Height - 1 THEN "top" ELSE "char", 0, con)
  \/ Step("top", "clear", 0, [con EXCEPT !.y = 0])

\* if (cursor_x > 79) ... if (cursor_y > 24) ...
Wrap ==
  \/ Step("putc", IF con.x > Width - 1 THEN "left" ELSE "line", 0, con)
  \/ Step("left", "rowLoad", 0, [con EXCEPT !.x = 0])
  \/ Step("rowLoad", "rowStore", con.y, con)
  \/ Step("rowStore", "line", 0, [con EXCEPT !.y = Top.reg + 1])
  \/ Step("line", IF con.y > Height - 1 THEN "top" ELSE "char", 0, con)
  \/ Step("top", "clear", 0, [con EXCEPT !.y = 0])

ClearScreen ==
  \/ Top.reg < Size /\ Step("clear", "clear", Top.reg + 1,
                            [con EXCEPT !.screen[Top.reg] = Blank])
  \/ Top.reg = Size /\ Step("clear", "char", 0, con)

\* switch(c)
Deals(c, to, reg, next) == Top.at = "char" /\ Char = c /\ Step("char", to, reg, next)

\* (cursor_x + 8) & ~7
NextStop(x) == (x \div TabStop + 1) * TabStop

\* Mutant: a backspace moves in any column.
SpecialBackAlways ==
  \/ Deals("cr", "cursor", 0, [con EXCEPT !.x = 0])
  \/ Deals("nl", "downLoad", 0, [con EXCEPT !.x = 0])
  \/ Deals("bs", "backLoad", 0, con)
  \/ Deals("tab", "xStore", NextStop(con.x), con)
  \/ Step("downLoad", "downStore", con.y, con)
  \/ Step("downStore", "cursor", 0, [con EXCEPT !.y = Top.reg + 1])
  \/ Step("backLoad", "xStore", con.x - 1, con)
  \/ Step("xStore", "cursor", 0, [con EXCEPT !.x = Top.reg])

Special ==
  \/ Deals("cr", "cursor", 0, [con EXCEPT !.x = 0])
  \/ Deals("nl", "downLoad", 0, [con EXCEPT !.x = 0])
  \/ Deals("bs", IF con.x > 0 THEN "backLoad" ELSE "cursor", 0, con)
  \/ Deals("tab", "xStore", NextStop(con.x), con)
  \/ Step("downLoad", "downStore", con.y, con)
  \/ Step("downStore", "cursor", 0, [con EXCEPT !.y = Top.reg + 1])
  \/ Step("backLoad", "xStore", con.x - 1, con)
  \/ Step("xStore", "cursor", 0, [con EXCEPT !.x = Top.reg])

\* The place is computed from cursor_y, then cursor_x.
Plain ==
  \/ \E c \in Printable : Deals(c, "place", Width * con.y, con)
  \/ Step("place", "write", Top.reg + con.x, con)
  \/ Step("write", "nextLoad", 0, [con EXCEPT !.screen[Top.reg] = Char])
  \/ Step("nextLoad", "xStore", con.x + 1, con)

\* Mutant: the low byte goes to the register of the high one.
SetCursorSwapped ==
  \/ Step("cursor", "offset", Width * con.y, con)
  \/ Step("offset", "index14", Top.reg + con.x, con)
  \/ Step("index14", "high", Top.reg, [con EXCEPT !.index = 15])
  \/ Step("high", "index15", Top.reg, [con EXCEPT !.crtc[con.index] = (Top.reg \div Base) % Base])
  \/ Step("index15", "low", Top.reg, [con EXCEPT !.index = 14])
  \/ Step("low", "puts", 0, [con EXCEPT !.crtc[con.index] = Top.reg % Base])

SetCursor ==
  \/ Step("cursor", "offset", Width * con.y, con)
  \/ Step("offset", "index14", Top.reg + con.x, con)
  \/ Step("index14", "high", Top.reg, [con EXCEPT !.index = 14])
  \/ Step("high", "index15", Top.reg, [con EXCEPT !.crtc[con.index] = (Top.reg \div Base) % Base])
  \/ Step("index15", "low", Top.reg, [con EXCEPT !.index = 15])
  \/ Step("low", "puts", 0, [con EXCEPT !.crtc[con.index] = Top.reg % Base])

\* Mutant: puts does not move current_char.
NextCharSame ==
  /\ Top.at = "puts" /\ Goto("putc", 0)
  /\ con' = con

\* The loop of puts.
NextChar ==
  /\ Top.at = "puts"
  /\ LET rest == Tail(Top.text)
     IN  stack' = [stack EXCEPT ![Len(stack)] =
                     [@ EXCEPT !.at = IF rest = <<>> THEN "done" ELSE "putc", !.text = rest]]
  /\ con' = con

Printing == Wrap \/ ClearScreen \/ Special \/ Plain \/ SetCursor \/ NextChar

---------------------------------------------------------------------------

\* main clears the screen first.
Cleared ==
  con = [x |-> 0, y |-> 0, screen |-> [p \in 0 .. VideoSize - 1 |-> Blank],
         index |-> 14, crtc |-> [r \in {14, 15} |-> 0]]

ConsoleInit ==
  /\ Cleared
  /\ stack = <<[int_no |-> Main, at |-> "done", text |-> <<>>, reg |-> 0]>>

Call == Top.at = "done" /\ \E text \in Texts : Puts(text)

ConsoleNext == Call \/ Printing

ConsoleSpec == ConsoleInit /\ [][ConsoleNext]_consoleVars /\ WF_consoleVars(Printing)

---------------------------------------------------------------------------

Accesses ==
  {"putc", "left", "rowLoad", "rowStore", "line", "top", "clear", "char",
   "downLoad", "downStore", "backLoad", "xStore", "place", "write", "nextLoad",
   "cursor", "offset", "index14", "high", "index15", "low", "puts", "done"}

\* The cursor of a caller that is alone leaves the screen by at most one column,
\* and by one line in column 0: putc tests it before it moves it.
ConsoleTypeOK ==
  /\ con \in [x : 0 .. Width, y : 0 .. Height,
              screen : [0 .. VideoSize - 1 -> Printable],
              index : {14, 15}, crtc : [{14, 15} -> 0 .. Base - 1]]
  /\ con.y = Height => con.x = 0
  /\ stack \in [{1} -> [int_no : {Main}, at : Accesses, text : Seq(Chars), reg : 0 .. Size]]
  /\ Top.at # "done" => Top.text # <<>>

\* When putc returns, the controller shows the cursor where the next character
\* goes, though it takes the offset in two bytes.
CursorShown ==
  [][Top.at = "low" =>
       con'.crtc[14] * Base + con'.crtc[15] = Offset % (Base * Base)]_consoleVars

\* putc implements the terminal.  A character is printed by one access, which
\* depends on the character; what follows only brings the cursor up to date.
Printed ==
  \/ Top.at \in {"downLoad", "downStore", "nextLoad", "cursor", "offset", "index14",
                 "high", "index15", "low", "puts", "done"}
  \/ Top.at = "xStore" /\ Char \in Printable

Position ==
  CASE Top.at = "clear" -> Size
    [] Top.at \in {"rowLoad", "rowStore", "downLoad", "downStore"} -> Offset + Width
    [] Top.at = "nextLoad" -> Offset + 1
    [] Top.at = "xStore" /\ Char \in Printable -> Top.reg + Width * con.y
    [] OTHER -> Offset

Screen == INSTANCE Terminal
            WITH pos   <- Position,
                 shown <- [p \in 0 .. Size - 1 |-> con.screen[p]],
                 asked <- IF Printed THEN {} ELSE {Char}

\* Whatever is printed, the console acts as the terminal does: each character
\* once, on its place, none behind the end of the screen; and every character
\* that is asked for is printed.
ImplementsTerminal == Screen!TerminalSpec
=============================================================================
