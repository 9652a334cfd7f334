----------------------------- MODULE Scheduler -----------------------------
(***************************************************************************)
(* TP3.c: a ring of contexts that a timer preempts, and semaphores.        *)
(*                                                                         *)
(* A section between irq_disable and irq_enable is one step.  The timer    *)
(* may interrupt anywhere else: its handler calls yield on the stack of    *)
(* the context it interrupts.  A stack is a sequence of frames, the        *)
(* innermost first:                                                        *)
(*   body   the function of the context                                    *)
(*   down   in sem_down, without a token: the next yield returns with one  *)
(*   end    behind the function, in the last yield of the context          *)
(*   pick   in yield, before it looks for a target                         *)
(*   go     in yield, with a target (to), and interrupts enabled again     *)
(*   away   in switch_to_ctx, the processor is with another context        *)
(* free leaves the fields yield reads of a freed context as they were (it  *)
(* uses the first two words only); a context that runs on freed memory, or *)
(* is freed twice, ends the program (mode "fault").                        *)
(***************************************************************************)
EXTENDS Integers, Sequences, FiniteSets, FiniteSetsExt

CONSTANTS
  Contexts,     \* addresses of the struct ctx_s main creates
  NoCtx,        \* NULL
  Mortal,       \* contexts whose function returns
  Tokens,       \* what sem_init may be given
  MinVal,       \* bound: sem_down is not called below this value
  MaxFrames     \* bound: frames on a stack the timer still interrupts

ASSUME SchedulerAssumption ==
  /\ IsFiniteSet(Contexts) /\ Contexts # {} /\ NoCtx \notin Contexts
  /\ Mortal \subseteq Contexts
  /\ Tokens \subseteq Nat
  /\ MinVal \in Int
  /\ MaxFrames \in Nat

VARIABLES
  mode,         \* setup, runs, or how the program ended
  ctx,          \* the contexts; etat "none" before create_ctx
  freed,        \* those that were freed
  ring,         \* ctx_ring
  current,      \* current_ctx
  sem,          \* the semaphore, and what it was given at first
  stack,        \* the stacks
  holders       \* contexts between sem_down and sem_up

schedVars == <<mode, ctx, freed, ring, current, sem, stack, holders>>

Ptr == Contexts \cup {NoCtx}

Frame(at) == [at |-> at, to |-> NoCtx]
Top == Head(stack[current])

\* The processor is in frame at of the current context.
Running(at) == mode = "runs" /\ current # NoCtx /\ Top.at = at

Runnable(etat) == etat \in {"READY", "ACTIVABLE"}

---------------------------------------------------------------------------
(* main. *)

SchedInit ==
  /\ mode = "setup"
  /\ ctx = [c \in Contexts |-> [etat |-> "none", next |-> NoCtx, blocked |-> NoCtx]]
  /\ freed = {}
  /\ ring = NoCtx
  /\ current = NoCtx
  /\ sem \in [val : Tokens, first : {NoCtx}, given : Tokens] /\ sem.val = sem.given
  /\ stack = [c \in Contexts |-> <<>>]
  /\ holders = {}

\* create_ctx: the first context is its own successor, another one goes behind
\* ctx_ring.
Create(c) ==
  /\ mode = "setup"
  /\ ctx[c].etat = "none"
  /\ LET made(next) == [etat |-> "READY", next |-> next, blocked |-> NoCtx]
     IN  \/ ring = NoCtx /\ ring' = c /\ ctx' = [ctx EXCEPT ![c] = made(c)]
         \/ /\ ring # NoCtx
            /\ ctx' = [ctx EXCEPT ![c] = made(ctx[ring].next), ![ring].next = c]
            /\ UNCHANGED ring
  /\ UNCHANGED <<mode, freed, current, sem, stack, holders>>

\* main programs the timer and waits for it.
Launch ==
  /\ mode = "setup"
  /\ \A c \in Contexts : ctx[c].etat # "none"
  /\ mode' = "runs"
  /\ UNCHANGED <<ctx, freed, ring, current, sem, stack, holders>>

---------------------------------------------------------------------------
(* switch_to_ctx and yield. *)

\* switch_to_ctx loads the stack pointer of t; saved are the stacks as they
\* are then.  A context that never ran starts its function.  Any other one
\* returns from its own switch_to_ctx and yield, to what is below them; below
\* the last yield of a terminated context there is no caller.
SwitchTo(t, saved) ==
  /\ current' = t
  /\ \/ /\ t \notin freed
        /\ ctx[t].etat = "READY"
        /\ ctx' = [ctx EXCEPT ![t].etat = "ACTIVABLE"]
        /\ stack' = [saved EXCEPT ![t] = <<Frame("body")>>]
        /\ UNCHANGED <<mode, holders>>
     \/ /\ t \notin freed
        /\ ctx[t].etat # "READY"
        /\ LET below == Tail(saved[t])
               downs == Head(below).at = "down"
           IN  /\ stack' = [saved EXCEPT ![t] = IF downs THEN <<Frame("body")>> ELSE below]
               /\ holders' = IF downs THEN holders \cup {t} ELSE holders
               /\ mode' = IF Head(below).at = "end" THEN "fault" ELSE mode
        /\ UNCHANGED ctx
     \/ /\ t \in freed
        /\ mode' = "fault"
        /\ stack' = saved
        /\ UNCHANGED <<ctx, holders>>

\* The timer interrupts main, which no context will return to.
FirstTick ==
  /\ mode = "runs"
  /\ current = NoCtx
  /\ SwitchTo(ring, stack)
  /\ UNCHANGED <<freed, ring, sem>>

\* timer_it, up to its yield.
Tick ==
  /\ mode = "runs"
  /\ current # NoCtx
  /\ Len(stack[current]) < MaxFrames
  /\ stack' = [stack EXCEPT ![current] = <<Frame("pick")>> \o @]
  /\ UNCHANGED <<mode, ctx, freed, ring, current, sem, holders>>

\* The places p, link[p], ... of a list of contexts, one more than there are
\* contexts.
Follow(p, link) ==
  LET at[n \in 0 .. Cardinality(Contexts)] == IF n = 0 THEN p ELSE link[at[n - 1]]
  IN  at

NextOf == [p \in Ptr |-> IF p = NoCtx THEN NoCtx ELSE ctx[p].next]

Terminated(p) == ctx[p].etat = "TERMINATED"

\* Mutant: the loop starts from ctx_ring.
MetFromRing == LET met == Follow(ring, NextOf)
               IN  [n \in DOMAIN met |-> IF n = 0 THEN current ELSE met[n - 1]]

\* The loop of yield: met[n] is its target in round n, met[n - 1] its precedent,
\* met[0] the current context.
Met == Follow(current, NextOf)

\* Mutant: the process goes on although it has found no context.
EndsNoExit(met, n) == Runnable(ctx[met[n]].etat)

\* A round that ends the loop: the target may run, is the current context
\* (exit), or would be freed a second time.
Ends(met, n) ==
  \/ Runnable(ctx[met[n]].etat)
  \/ met[n] = met[0]
  \/ Terminated(met[n]) /\ met[n] \in freed

\* Mutant: precedent stays the current context.
UnlinkedFromCurrent(met, gone) ==
  [c \in Contexts |-> [ctx[c] EXCEPT !.next =
     IF c = current /\ gone # {} THEN NextOf[met[Max(gone)]] ELSE @]]

\* Mutant: the link to a target that is freed stays.
UnlinkedForgotten(met, gone) == ctx

\* Round n takes a terminated target, one of gone, out of the ring.
Unlinked(met, gone) ==
  [c \in Contexts |-> [ctx[c] EXCEPT !.next =
     IF \E n \in gone : met[n - 1] = c THEN NextOf[@] ELSE @]]

\* yield between irq_disable and irq_enable.  ctx_ring moves on from one that is
\* freed to the first that is not.  A loop no round ends goes on for ever, or
\* comes back to one it has freed: mode "stuck".
Choose ==
  /\ Running("pick")
  /\ LET met    == Met
         rounds == {n \in DOMAIN met \ {0} : Ends(met, n)}
         last   == Min(rounds)
         gone   == {n \in 1 .. last - 1 : Terminated(met[n])}
         kept   == {n \in 1 .. last : n \notin gone}
     IN  \/ /\ rounds = {}
            /\ mode' = "stuck"
            /\ UNCHANGED <<ctx, freed, ring, stack>>
         \/ /\ rounds # {}
            /\ ctx' = Unlinked(met, gone)
            /\ freed' = freed \cup {met[n] : n \in gone}
            /\ ring' = IF \E n \in gone : met[n] = ring
                       THEN met[Min({n \in kept : \E g \in gone : met[g] = ring /\ g < n})]
                       ELSE ring
            /\ mode' = IF Runnable(ctx[met[last]].etat) THEN mode
                       ELSE IF met[last] = current THEN "exit" ELSE "fault"
            /\ stack' = [stack EXCEPT ![current][1] = [at |-> "go", to |-> met[last]]]
  /\ UNCHANGED <<current, sem, holders>>

Go ==
  /\ Running("go")
  /\ SwitchTo(Top.to, [stack EXCEPT ![current][1] = Frame("away")])
  /\ UNCHANGED <<freed, ring, sem>>

\* The function of a context returns, and switch_to_ctx yields for good.
End ==
  /\ Running("body")
  /\ current \in Mortal \ holders
  /\ ctx' = [ctx EXCEPT ![current].etat = "TERMINATED"]
  /\ stack' = [stack EXCEPT ![current] = <<Frame("pick"), Frame("end")>>]
  /\ UNCHANGED <<mode, freed, ring, current, sem, holders>>

---------------------------------------------------------------------------
(* The semaphore.  A context takes a token before it gives one back. *)

\* Mutant: a token is taken from 0.
HasTokenAtZero == sem.val >= 0

HasToken == sem.val >= 1

\* Mutant: next_blocked is not set.
BlockedAlone(c) == [ctx EXCEPT ![c].etat = "WAITING"]

\* c waits, first of those that do.
Blocked(c) == [ctx EXCEPT ![c].etat = "WAITING", ![c].blocked = sem.first]

SemDown ==
  /\ Running("body")
  /\ current \notin holders
  /\ sem.val > MinVal
  /\ \/ /\ HasToken
        /\ sem' = [sem EXCEPT !.val = @ - 1]
        /\ holders' = holders \cup {current}
        /\ UNCHANGED <<ctx, stack>>
     \/ /\ ~HasToken
        /\ ctx' = Blocked(current)
        /\ sem' = [sem EXCEPT !.val = @ - 1, !.first = current]
        /\ stack' = [stack EXCEPT ![current] = <<Frame("pick"), Frame("down")>>]
        /\ UNCHANGED holders
  /\ UNCHANGED <<mode, freed, ring, current>>

\* A woken context takes the token over; val stays as it is.  Without a
\* context to wake the code writes through a null pointer.
SemUp ==
  /\ Running("body")
  /\ current \in holders
  /\ holders' = holders \ {current}
  /\ \/ /\ sem.val >= 0
        /\ sem' = [sem EXCEPT !.val = @ + 1]
        /\ UNCHANGED <<mode, ctx>>
     \/ /\ sem.val < 0
        /\ sem.first # NoCtx
        /\ ctx' = [ctx EXCEPT ![sem.first].etat = "ACTIVABLE"]
        /\ sem' = [sem EXCEPT !.first = ctx[sem.first].blocked]
        /\ UNCHANGED mode
     \/ /\ sem.val < 0
        /\ sem.first = NoCtx
        /\ mode' = "fault"
        /\ UNCHANGED <<ctx, sem>>
  /\ UNCHANGED <<freed, ring, current, stack>>

---------------------------------------------------------------------------

Setup == Launch \/ \E c \in Contexts : Create(c)

Code == Choose \/ Go \/ End \/ SemDown \/ SemUp

\* The timer at any instruction with interrupts enabled.
SchedNext == Setup \/ Code \/ FirstTick \/ Tick

SchedSpec == SchedInit /\ [][SchedNext]_schedVars

\* The timer interrupts a yield, as sem_down and the end of a context call it with
\* interrupts enabled, but not between its choice of a target and the switch.
CalmTick == current # NoCtx /\ Top.at \in {"body", "pick"} /\ Tick

CalmNext == Setup \/ Code \/ FirstTick \/ CalmTick

\* The timer goes on, and the processor executes what it is in; it owes
\* nothing to the functions of the contexts.
SchedFairness ==
  /\ WF_schedVars(Setup)
  /\ WF_schedVars(FirstTick \/ CalmTick)
  /\ WF_schedVars(Choose \/ Go)

CalmSpec == SchedInit /\ [][CalmNext]_schedVars /\ SchedFairness

\* No yield frees a context and the one behind it: the second is unlinked from
\* the first, which is out of the ring by then, so that the ring keeps it.  Two
\* contexts, as main creates them, never come to that, whoever ends first.
FreesApart == \A c, d \in freed' \ freed : c # d => ctx[c].next # d

ApartSpec == SchedInit /\ [][CalmNext /\ FreesApart]_schedVars /\ SchedFairness
---------------------------------------------------------------------------
(* Properties.  They hold of CalmSpec, as far as no yield frees neighbours:  *)
(* yield enables interrupts again before it switches, and a tick there       *)
(* (SchedSpec) makes its target stale: it may have ended (TargetAlive), or   *)
(* wait, and then return from sem_down without a token.                      *)

Etats == {"none", "READY", "ACTIVABLE", "WAITING", "TERMINATED"}

\* The program is in a state the code knows: in particular the loop of yield
\* always comes to an end ("stuck" is no mode), and no count runs away.
SchedTypeOK ==
  /\ mode \in {"setup", "runs", "exit", "fault"}
  /\ ctx \in [Contexts -> [etat : Etats, next : Ptr, blocked : Ptr]]
  /\ freed \subseteq Mortal
  /\ ring \in Ptr /\ current \in Ptr
  /\ sem \in [val : Int, first : Ptr, given : Tokens] /\ sem.val <= sem.given
  /\ \A c \in Contexts : \A i \in DOMAIN stack[c] :
        stack[c][i] \in [at : {"body", "down", "end", "pick", "go", "away"}, to : Ptr]
  /\ holders \subseteq Contexts

Waiting == {c \in Contexts : ctx[c].etat = "WAITING"}

\* Contexts that sem_up has handed a token, and that have not run since.
Woken == {c \in Contexts : ctx[c].etat = "ACTIVABLE"
                              /\ \E i \in DOMAIN stack[c] : stack[c][i].at = "down"}

\* No token is made: those free, those held and those handed over are never
\* more than sem_init was given.  (What sem_down and sem_up guard.)
TokensBounded ==
  Cardinality(holders) + Cardinality(Woken)
    + (IF sem.val > 0 THEN sem.val ELSE 0) <= sem.given

\* The contexts that wait are those linked from first_blocked through
\* next_blocked, each once: sem_down loses none, and sem_up wakes none that does
\* not wait, whatever was freed or switched in between.
WaitersLinked ==
  LET list == Follow(sem.first, [p \in Ptr |-> IF p = NoCtx THEN NoCtx ELSE ctx[p].blocked])
  IN  /\ list[Cardinality(Contexts)] = NoCtx
      /\ {list[n] : n \in DOMAIN list} \ {NoCtx} = Waiting

\* "la liste chainée circulaire de tous les contextes" (TP3.c:53): the ring yield
\* walks from the current context comes back to it, passes every context that has
\* not ended, and no freed one; ctx_ring is never a freed one.
RingSound ==
  mode = "runs" /\ current # NoCtx =>
    LET round == Follow(current, NextOf)
        met   == {round[n] : n \in DOMAIN round}
    IN  /\ \E n \in DOMAIN round \ {0} : round[n] = current
        /\ {c \in Contexts : ctx[c].etat # "TERMINATED"} \subseteq met
        /\ (met \cup {ring}) \cap freed = {}

\* yield gives up only when no context may run: all have ended, or those left
\* wait for a token that nobody will give back.
ExitsWhenNoneCanRun ==
  mode = "exit" => \A c \in Contexts : ~Runnable(ctx[c].etat)

\* Only sem_up ends the program by a fault: no yield frees a context twice, comes
\* to a freed one, or returns below the last yield of one that ended.
YieldNeverFaults == [][mode # "fault" /\ mode' = "fault" => SemUp]_schedVars

\* A context that may run gets the processor, or the program ends: yield starves
\* nobody, though contexts block, wake and end on the way round the ring.
EveryRunnableRuns ==
  \A c \in Contexts :
    (mode = "runs" /\ Runnable(ctx[c].etat)) ~> (current = c \/ mode # "runs")

\* "on est sur que target n'est pas TERMINATED" (TP3.c:115): the context yield
\* switches to has not ended.
TargetAlive == Running("go") => ctx[Top.to].etat # "TERMINATED"
=============================================================================
