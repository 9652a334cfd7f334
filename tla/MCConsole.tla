------------------------------ MODULE MCConsole ------------------------------
(***************************************************************************)
(* A screen of two lines of four columns, with a tabulation in the middle, *)
(* whose offsets take two bytes of Base values.                            *)
(***************************************************************************)
EXTENDS Console

MCPrintable == {"a", " "}

MCBlank == " "

\* Each character alone, and a text of two.
MCTexts == {<<c>> : c \in Chars} \cup {<<"a", "nl">>}
=============================================================================
