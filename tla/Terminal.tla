------------------------------ MODULE Terminal ------------------------------
(***************************************************************************)
(* What the console of the kernel promises whoever prints on it: a screen, *)
(* a place in it, and characters that act on both, one at a time.          *)
(***************************************************************************)
EXTENDS Integers

CONSTANTS
  Width, Height,    \* columns and lines
  TabStop,          \* columns from one tabulation to the next
  Printable,        \* the characters that are shown
  Blank             \* the one of a cleared screen

VARIABLES
  pos,              \* where the next character goes; the screen's size: nowhere
  shown,            \* the character of each place
  asked             \* the character to be printed: a set of at most one

terminalVars == <<pos, shown, asked>>

Places == 0 .. Width * Height - 1
Chars  == Printable \cup {"cr", "nl", "bs", "tab"}

After(c, p) ==
  LET col  == p % Width
      line == p - col
  IN  CASE c = "cr"  -> line
        [] c = "nl"  -> line + Width
        [] c = "bs"  -> IF col > 0 THEN p - 1 ELSE p
        [] c = "tab" -> line + (col \div TabStop + 1) * TabStop
        [] OTHER     -> p + 1

TerminalInit ==
  /\ pos = 0
  /\ shown = [p \in Places |-> Blank]
  /\ asked = {}

Ask ==
  /\ asked = {}
  /\ \E c \in Chars : asked' = {c}
  /\ UNCHANGED <<pos, shown>>

\* A character that finds the screen full has it cleared, place by place, and
\* begins again at the top.
Wipe ==
  /\ asked # {} /\ pos = Width * Height
  /\ \E p \in Places : shown' = [shown EXCEPT ![p] = Blank]
  /\ UNCHANGED <<pos, asked>>

Page ==
  /\ asked # {} /\ pos = Width * Height
  /\ \A p \in Places : shown[p] = Blank
  /\ pos' = 0
  /\ UNCHANGED <<shown, asked>>

Act ==
  /\ pos \in Places
  /\ \E c \in asked :
       /\ pos' = After(c, pos)
       /\ shown' = IF c \in Printable THEN [shown EXCEPT ![pos] = c] ELSE shown
  /\ asked' = {}

TerminalNext == Ask \/ Wipe \/ Page \/ Act

\* A character that is asked for is printed.
TerminalSpec ==
  TerminalInit /\ [][TerminalNext]_terminalVars /\ WF_terminalVars(Wipe \/ Page \/ Act)
=============================================================================
