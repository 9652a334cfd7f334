---------------------------- MODULE MCScheduler ----------------------------
(* Two or three contexts, some of which end, and a semaphore of at most two tokens. *)
EXTENDS Scheduler

CONSTANTS c1, c2, c3

ThreeContexts == {c1, c2, c3}
TwoContexts   == {c1, c2}
OneMortal     == {c1}
NoneToTwo     == 0 .. 2
OnlyOne       == {1}

\* Three waiters at once, and two.
MinusThree    == -3
MinusTwo      == -2
=============================================================================
