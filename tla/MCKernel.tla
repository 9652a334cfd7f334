------------------------------ MODULE MCKernel ------------------------------
(***************************************************************************)
(* A screen of two lines of two columns, two interrupts of the timer, one  *)
(* of the keyboard and one of a line of the slave controller.              *)
(***************************************************************************)
EXTENDS Kernel

\* No property is about what the screen shows.
MCPrintable == {" "}

MCBlank == " "

MCLevels == {0, 1, 14}

MCBudget == [i \in MCLevels |-> IF i = 0 THEN 2 ELSE 1]

MCBootText == <<"nl", " ">>

MCTimerText == <<" ", "nl">>

MCFaultText == <<" ">>

MCTexts == {MCBootText, MCTimerText, MCFaultText}
=============================================================================
