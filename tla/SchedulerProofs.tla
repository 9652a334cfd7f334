-------------------------- MODULE SchedulerProofs --------------------------
(* Proofs about Scheduler, for any number of contexts. *)
EXTENDS Scheduler, Arithmetic

Frames == [at : {"body", "down", "end", "pick", "go", "away"}, to : Ptr]

\* The last frame of a stack: what its context returns to in the end.
BaseOf(s) == IF s = <<>> THEN "none" ELSE s[Len(s)].at
Base(c)   == BaseOf(stack[c])

\* A stack is that of a function, or of yields of which the timer has interrupted
\* all but the innermost; only the stack of the current context is not away.
Shaped(s, here) ==
  s # <<>> =>
    /\ Len(s) = 1 => here /\ s[1].at = "body"
    /\ Len(s) > 1 => /\ s[1].at \in (IF here THEN {"pick", "go"} ELSE {"away"})
                     /\ s[Len(s)].at \in {"body", "down", "end"}
    /\ \A i \in 2 .. Len(s) - 1 : s[i].at = "pick"

---------------------------------------------------------------------------
(* The invariant of the contexts and their stacks, whatever the ring is. *)

Typed ==
  /\ ctx \in [Contexts -> [etat : Etats, next : Ptr, blocked : Ptr]]
  /\ freed \subseteq Contexts
  /\ ring \in Ptr /\ current \in Ptr
  /\ sem \in [val : Int, first : Ptr, given : Tokens] /\ sem.val <= sem.given
  /\ stack \in [Contexts -> Seq(Frames)]
  /\ holders \subseteq Contexts

\* Before the timer's first interrupt.
StartInv ==
  /\ mode = "setup" => current = NoCtx
  /\ current = NoCtx => /\ freed = {}
                        /\ \A c \in Contexts : ctx[c].etat \in {"none", "READY"}
  /\ mode # "setup" => \A c \in Contexts : ctx[c].etat # "none"
  /\ \A c \in Contexts : ctx[c].etat # "none" =>
       /\ ring \in Contexts
       /\ ctx[c].next \in Contexts /\ ctx[ctx[c].next].etat # "none"
  /\ ring # NoCtx => ctx[ring].etat # "none"

ShapeInv == \A c \in Contexts : Shaped(stack[c], c = current)

\* What a context is in agrees with its etat.
EtatInv ==
  /\ \A c \in Contexts :
       /\ ctx[c].etat \in {"none", "READY"} <=> stack[c] = <<>>
       /\ ctx[c].etat = "WAITING" => Base(c) = "down"
       /\ ctx[c].etat = "TERMINATED" <=> Base(c) = "end"
       /\ ctx[c].etat = "TERMINATED" => c \in Mortal
  /\ \A c \in holders : ctx[c].etat = "ACTIVABLE" /\ Base(c) = "body"
  /\ \A c \in freed : ctx[c].etat = "TERMINATED"
  /\ current # NoCtx => stack[current] # <<>>

\* yield goes to a context that may run.
GoInv == Running("go") => Top.to \in Contexts /\ Runnable(ctx[Top.to].etat)

\* The waiters in line, from the one that came last.
Line(w, n) ==
  /\ w[0] = sem.first /\ w[n] = NoCtx
  /\ \A i \in 0 .. n - 1 : w[i] \in Waiting /\ ctx[w[i]].blocked = w[i + 1]
  /\ \A i, j \in 0 .. n - 1 : w[i] = w[j] => i = j
  /\ \A c \in Waiting : \E i \in 0 .. n - 1 : w[i] = c

WaitersInv == \E n \in Nat : \E w \in [0 .. n -> Ptr] : Line(w, n)

SchedInv ==
  Typed /\ StartInv /\ ShapeInv /\ EtatInv /\ GoInv /\ TokensBounded /\ WaitersInv

---------------------------------------------------------------------------
(* Following a link. *)

K == Cardinality(Contexts)

\* There is a context.
LEMMA ContextsCount == K \in Nat \ {0}
BY SchedulerAssumption, FS_CardinalityType, FS_EmptySet DEF K

\* The places Follow passes.
LEMMA FollowSteps ==
  ASSUME NEW p \in Ptr, NEW link \in [Ptr -> Ptr]
  PROVE  /\ Follow(p, link) \in [0 .. K -> Ptr]
         /\ Follow(p, link)[0] = p
         /\ \A n \in 1 .. K : Follow(p, link)[n] = link[Follow(p, link)[n - 1]]
<1>1. WalksIn(Ptr, p, link, K)
  BY ContextsCount, Iteration
<1>2. Walk(p, link, K) = Follow(p, link)
  BY DEF Follow, Walk, K
<1> QED BY <1>1, <1>2 DEF WalksIn

\* The first n places of w are those that the link leads to from p.
WalksAlong(w, p, link, n) == w[0] = p /\ \A i \in 0 .. n - 1 : link[w[i]] = w[i + 1]

\* It passes the places of any walk along the link.
LEMMA FollowAgrees ==
  ASSUME NEW p \in Ptr, NEW link \in [Ptr -> Ptr], NEW n \in 0 .. K, NEW w,
         WalksAlong(w, p, link, n)
  PROVE  \A i \in 0 .. n : Follow(p, link)[i] = w[i]
<1>0. w[0] = p /\ \A i \in 0 .. n - 1 : link[w[i]] = w[i + 1]
  BY DEF WalksAlong
<1> DEFINE f == Follow(p, link)
           S == {i \in 0 .. n : f[i] = w[i]}
<1>1. f[0] = p /\ \A i \in 1 .. K : f[i] = link[f[i - 1]]
  BY FollowSteps
<1> HIDE DEF f
<1>2. n \in Nat /\ n <= K /\ K \in Nat
  BY ContextsCount
<1>3. 0 \in S
  BY <1>0, <1>1, <1>2
<1>4. ASSUME NEW i \in 0 .. n - 1, i \in S PROVE i + 1 \in S
  <2>1. i + 1 \in 1 .. K /\ (i + 1) - 1 = i /\ i + 1 \in 0 .. n
    BY <1>2
  <2>2. f[i + 1] = link[f[i]]
    BY <1>1, <2>1
  <2> QED BY <1>0, <1>4, <2>1, <2>2
<1>5. 0 .. n \subseteq S
  <2> HIDE DEF S
  <2> QED BY <1>2, <1>3, <1>4, IntervalInduction
<1> QED BY <1>5 DEF f

\* A set of numbers has a least one.
LEMMA MinOf ==
  ASSUME NEW S \in SUBSET Nat, S # {}
  PROVE  Min(S) \in S /\ \A m \in S : Min(S) <= m
BY LeastOf DEF Min

\* A walk without repetition through contexts has no more steps than there are
\* contexts.
LEMMA WalkBound ==
  ASSUME NEW n \in Nat, NEW w, \A i \in 0 .. n - 1 : w[i] \in Contexts,
         \A i, j \in 0 .. n - 1 : w[i] = w[j] => i = j
  PROVE  n <= K
<1> DEFINE g == [i \in 0 .. n - 1 |-> w[i]]
<1>1. g \in Injection(0 .. n - 1, Contexts)
  BY DEF Injection, IsInjective
<1>2. Cardinality(0 .. n - 1) = n
  BY FS_Interval
<1> QED BY <1>1, <1>2, SchedulerAssumption, FS_Interval, FS_Injection DEF K

\* The chain of waiters is what the waiters are linked by.
LEMMA WaitersFollowed == ASSUME Typed, WaitersInv PROVE WaitersLinked
<1> DEFINE link == [p \in Ptr |-> IF p = NoCtx THEN NoCtx ELSE ctx[p].blocked]
           list == Follow(sem.first, link)
<1>1. link \in [Ptr -> Ptr] /\ sem.first \in Ptr
  BY SchedulerAssumption DEF Typed, Ptr
<1>2. ASSUME NEW g, g[0] = sem.first, \A i \in 0 .. K - 1 : link[g[i]] = g[i + 1]
       PROVE  \A i \in 0 .. K : list[i] = g[i]
  <2>1. K \in 0 .. K
    BY ContextsCount
  <2> HIDE DEF link
  <2>2. WalksAlong(g, sem.first, link, K)
    BY <1>2 DEF WalksAlong
  <2> QED BY <1>1, <2>1, <2>2, FollowAgrees
<1>3. PICK n \in Nat : \E w \in [0 .. n -> Ptr] : Line(w, n)
  BY DEF WaitersInv
<1>4. PICK w \in [0 .. n -> Ptr] : Line(w, n)
  BY <1>3
<1>5. /\ w[0] = sem.first /\ w[n] = NoCtx
      /\ \A i \in 0 .. n - 1 : w[i] \in Waiting /\ ctx[w[i]].blocked = w[i + 1]
      /\ \A i, j \in 0 .. n - 1 : w[i] = w[j] => i = j
      /\ \A c \in Waiting : \E i \in 0 .. n - 1 : w[i] = c
  BY <1>4 DEF Line
<1>6. n <= K
  BY <1>5, WalkBound DEF Waiting
<1> DEFINE h == [i \in 0 .. K |-> IF i <= n THEN w[i] ELSE NoCtx]
<1>7. h[0] = sem.first
  BY <1>5, ContextsCount
<1>8. ASSUME NEW i \in 0 .. K - 1 PROVE link[h[i]] = h[i + 1]
  <2>1. i \in 0 .. K /\ i + 1 \in 0 .. K /\ i \in Nat
    BY ContextsCount
  <2>2. CASE i < n
    <3>1. h[i] = w[i] /\ h[i + 1] = w[i + 1] /\ i \in 0 .. n - 1
      BY <1>5, <2>1, <2>2
    <3>2. w[i] \in Ptr /\ w[i] # NoCtx
      BY <1>5, <3>1, SchedulerAssumption DEF Waiting, Ptr
    <3> QED BY <1>5, <3>1, <3>2
  <2>3. CASE ~(i < n)
    <3>1. h[i] = NoCtx /\ h[i + 1] = NoCtx
      BY <1>5, <2>1, <2>3
    <3> QED BY <3>1 DEF Ptr
  <2> QED BY <2>2, <2>3
<1>9. \A i \in 0 .. K : list[i] = h[i]
  <2>1. \A i \in 0 .. K - 1 : link[h[i]] = h[i + 1]
    BY <1>8
  <2> HIDE DEF h, link, list
  <2> QED BY <1>7, <1>2, <2>1
<1>10. h[K] = NoCtx /\ {h[i] : i \in 0 .. K} \ {NoCtx} = Waiting
  <2>1. h[K] = NoCtx
    BY <1>5, <1>6, ContextsCount
  <2>2. ASSUME NEW i \in 0 .. K, h[i] # NoCtx PROVE h[i] \in Waiting
    <3>1. i \in 0 .. n - 1 /\ h[i] = w[i]
      BY <1>5, <2>2, ContextsCount
    <3> QED BY <1>5, <3>1
  <2>3. ASSUME NEW c \in Waiting PROVE c # NoCtx /\ \E i \in 0 .. K : h[i] = c
    <3>1. PICK i \in 0 .. n - 1 : w[i] = c
      BY <1>5
    <3>2. i \in 0 .. K /\ h[i] = c
      BY <1>5, <1>6, <3>1, ContextsCount
    <3> QED BY <3>2, SchedulerAssumption DEF Waiting
  <2> HIDE DEF h
  <2> QED BY <2>1, <2>2, <2>3
<1>11. DOMAIN list = 0 .. K
  <2> HIDE DEF link
  <2> QED BY <1>1, FollowSteps
<1>13. list[K] = NoCtx /\ {list[i] : i \in DOMAIN list} \ {NoCtx} = Waiting
  <2>1. {list[i] : i \in DOMAIN list} = {h[i] : i \in 0 .. K}
    <3> HIDE DEF list, h
    <3> QED BY <1>9, <1>11
  <2>2. K \in 0 .. K
    BY ContextsCount
  <2> HIDE DEF list, h
  <2> QED BY <1>9, <1>10, <1>11, <2>1, <2>2
<1> QED BY <1>13 DEF WaitersLinked, K

---------------------------------------------------------------------------
(* Stacks. *)

\* The frames the code pushes are frames.
LEMMA FrameTyped ==
  /\ \A at \in {"body", "down", "end", "pick", "go", "away"} :
       Frame(at) \in Frames /\ Frame(at).at = at
  /\ \A p \in Ptr : [at |-> "go", to |-> p] \in Frames
BY DEF Frame, Frames, Ptr

\* A stack that is not empty has one frame or more.
LEMMA LenCases ==
  ASSUME NEW s \in Seq(Frames), s # <<>>
  PROVE  /\ Len(s) \in Nat \ {0}
         /\ Len(s) = 1 \/ (Len(s) > 1 /\ Len(s) - 1 \in Nat \ {0})
<1> DEFINE n == Len(s)
<1>1. n \in Nat \ {0}
  OBVIOUS
<1> HIDE DEF n
<1>2. n = 1 \/ (n > 1 /\ n - 1 \in Nat \ {0})
  BY <1>1
<1> QED BY <1>1, <1>2 DEF n

\* The timer interrupts a function, or a yield that has not chosen yet.
LEMMA PushShaped ==
  ASSUME NEW s \in Seq(Frames), s # <<>>, Shaped(s, TRUE), s[1].at \in {"body", "pick"}
  PROVE  LET t == <<Frame("pick")>> \o s
         IN  /\ t \in Seq(Frames) /\ t # <<>> /\ Shaped(t, TRUE) /\ BaseOf(t) = BaseOf(s)
             /\ t[1].at = "pick"
<1> DEFINE t == <<Frame("pick")>> \o s
<1>1. /\ t \in Seq(Frames) /\ Len(t) = Len(s) + 1 /\ t[1] = Frame("pick")
      /\ \A i \in 1 .. Len(s) : t[i + 1] = s[i]
      /\ Len(s) \in Nat \ {0}
  BY FrameTyped
<1> HIDE DEF t
<1>2. \A i \in 2 .. Len(t) : t[i] = s[i - 1]
  <2>1. ASSUME NEW i \in 2 .. Len(t) PROVE i - 1 \in 1 .. Len(s) /\ (i - 1) + 1 = i
    BY <1>1
  <2> QED BY <1>1, <2>1
<1>3. t # <<>> /\ t[Len(t)] = s[Len(s)] /\ t[1].at = "pick"
  BY <1>1, <1>2, FrameTyped
<1>4. s[Len(s)].at \in {"body", "down", "end"}
  <2>1. CASE Len(s) = 1
    BY <2>1 DEF Shaped
  <2>2. CASE Len(s) > 1
    BY <2>2 DEF Shaped
  <2> QED BY <2>1, <2>2, LenCases
<1>5. ASSUME NEW i \in 2 .. Len(t) - 1 PROVE t[i].at = "pick"
  <2>1. t[i] = s[i - 1] /\ i - 1 \in 1 .. Len(s) - 1
    BY <1>1, <1>2
  <2> QED BY <1>1, <2>1 DEF Shaped
<1>6. Shaped(t, TRUE)
  BY <1>1, <1>3, <1>4, <1>5 DEF Shaped
<1> QED BY <1>1, <1>3, <1>6 DEF t, BaseOf

\* yield chooses, and goes.
LEMMA TopShaped ==
  ASSUME NEW s \in Seq(Frames), s # <<>>, Shaped(s, TRUE), s[1].at # "body",
         NEW f \in Frames, NEW here \in BOOLEAN,
         f.at \in (IF here THEN {"pick", "go"} ELSE {"away"})
  PROVE  LET t == [s EXCEPT ![1] = f]
         IN  /\ t \in Seq(Frames) /\ t # <<>> /\ Shaped(t, here) /\ BaseOf(t) = BaseOf(s)
             /\ t[1] = f
<1> DEFINE t == [s EXCEPT ![1] = f]
<1>1. /\ t \in Seq(Frames) /\ Len(t) = Len(s) /\ t[1] = f
      /\ \A i \in 2 .. Len(s) : t[i] = s[i]
      /\ Len(s) \in Nat \ {0}
  OBVIOUS
<1> HIDE DEF t
<1>2. Len(s) > 1
  BY <1>1 DEF Shaped
<1>3. t # <<>> /\ t[Len(t)] = s[Len(s)]
  BY <1>1, <1>2
<1>4. Shaped(t, here)
  BY <1>1, <1>2, <1>3 DEF Shaped
<1> QED BY <1>1, <1>3, <1>4 DEF t, BaseOf

\* switch_to_ctx returns to a context.
LEMMA TailShaped ==
  ASSUME NEW s \in Seq(Frames), s # <<>>, Shaped(s, FALSE), BaseOf(s) # "end"
  PROVE  LET t == Tail(s)
         IN  /\ t \in Seq(Frames) /\ t # <<>> /\ Head(t).at \in {"body", "down", "pick"}
             /\ Head(t).at = "down" => BaseOf(s) = "down"
             /\ Head(t).at # "down" => Shaped(t, TRUE) /\ BaseOf(t) = BaseOf(s)
<1> DEFINE t == Tail(s)
<1>1. Len(s) > 1 /\ Len(s) - 1 \in Nat \ {0}
  <2>1. Len(s) # 1
    BY DEF Shaped
  <2> QED BY <2>1, LenCases
<1>2. /\ t \in Seq(Frames) /\ Len(t) = Len(s) - 1 /\ \A i \in 1 .. Len(t) : t[i] = s[i + 1]
      /\ Len(t) \in Nat \ {0}
  <2>1. t \in Seq(Frames) /\ Len(t) = Len(s) - 1 /\ \A i \in 1 .. Len(t) : t[i] = s[i + 1]
    BY <1>1
  <2> HIDE DEF t
  <2> QED BY <1>1, <2>1
<1> HIDE DEF t
<1>3. t # <<>> /\ Head(t) = s[2] /\ t[1] = s[2] /\ t[Len(t)] = s[Len(s)]
  BY <1>1, <1>2
<1>4. s[Len(s)].at \in {"body", "down"}
  <2>1. s[Len(s)].at \in {"body", "down", "end"}
    BY <1>1 DEF Shaped
  <2> QED BY <2>1 DEF BaseOf
<1>5. \A i \in 2 .. Len(s) - 1 : s[i].at = "pick"
  BY <1>1 DEF Shaped
<1>6. \A i \in 2 .. Len(t) - 1 : t[i].at = "pick"
  <2> SUFFICES ASSUME NEW i \in 2 .. Len(t) - 1 PROVE t[i].at = "pick"
    OBVIOUS
  <2>1. t[i] = s[i + 1] /\ i + 1 \in 2 .. Len(s) - 1
    BY <1>2
  <2> QED BY <1>5, <2>1
<1>7. CASE Len(s) = 2
  <2>1. s[2].at \in {"body", "down"} /\ BaseOf(s) = s[2].at /\ BaseOf(t) = t[1].at
    BY <1>1, <1>2, <1>3, <1>4, <1>7 DEF BaseOf
  <2>2. Len(t) = 1
    BY <1>1, <1>2, <1>7
  <2>3. Head(t).at # "down" => Shaped(t, TRUE) /\ BaseOf(t) = BaseOf(s)
    BY <1>3, <1>6, <2>1, <2>2 DEF Shaped
  <2> QED BY <1>2, <1>3, <2>1, <2>3 DEF t
<1>8. CASE Len(s) # 2
  <2>1. s[2].at = "pick" /\ BaseOf(s) = BaseOf(t) /\ Len(t) > 1
    BY <1>1, <1>2, <1>3, <1>5, <1>8 DEF BaseOf
  <2> QED BY <1>1, <1>2, <1>3, <1>4, <1>6, <2>1 DEF Shaped, t
<1> QED BY <1>7, <1>8

\* The two stacks a step makes anew.
LEMMA FreshShaped ==
  /\ <<Frame("body")>> \in Seq(Frames) /\ <<Frame("body")>> # <<>>
  /\ Shaped(<<Frame("body")>>, TRUE) /\ BaseOf(<<Frame("body")>>) = "body"
  /\ <<Frame("body")>>[1].at = "body"
  /\ \A x \in {"down", "end"} :
       LET s == <<Frame("pick"), Frame(x)>>
       IN  /\ s \in Seq(Frames) /\ s # <<>> /\ Shaped(s, TRUE) /\ BaseOf(s) = x
           /\ s[1].at = "pick"
<1>1. <<Frame("body")>> \in Seq(Frames) /\ Len(<<Frame("body")>>) = 1
  BY FrameTyped
<1>2. Shaped(<<Frame("body")>>, TRUE) /\ BaseOf(<<Frame("body")>>) = "body"
  BY <1>1, FrameTyped DEF Shaped, BaseOf
<1>3. ASSUME NEW x \in {"down", "end"}
      PROVE  LET s == <<Frame("pick"), Frame(x)>>
             IN  /\ s \in Seq(Frames) /\ s # <<>> /\ Shaped(s, TRUE) /\ BaseOf(s) = x
                 /\ s[1].at = "pick"
  BY FrameTyped DEF Shaped, BaseOf
<1> QED BY <1>1, <1>2, <1>3, FrameTyped

\* A stack whose context has slept in sem_down says so in its last frame only.
LEMMA DownAtBase ==
  ASSUME NEW s \in Seq(Frames), NEW here \in BOOLEAN, Shaped(s, here)
  PROVE  (\E i \in DOMAIN s : s[i].at = "down") <=> BaseOf(s) = "down"
<1>1. CASE s = <<>>
  BY <1>1 DEF BaseOf
<1>2. CASE s # <<>>
  <2>1. Len(s) \in Nat \ {0} /\ DOMAIN s = 1 .. Len(s) /\ Len(s) \in DOMAIN s
    BY <1>2
  <2>2. ASSUME NEW i \in DOMAIN s, s[i].at = "down" PROVE i = Len(s)
    BY <1>2, <2>1, <2>2 DEF Shaped
  <2> QED BY <1>2, <2>1, <2>2 DEF BaseOf
<1> QED BY <1>1, <1>2

---------------------------------------------------------------------------
(* The parts of a step. *)

\* The current context is the one that changes its stack.
LEMMA OwnStack ==
  ASSUME Typed, ShapeInv, current \in Contexts, current' = current,
         NEW t \in Seq(Frames), t # <<>>, Shaped(t, TRUE),
         stack' = [stack EXCEPT ![current] = t]
  PROVE  /\ stack' \in [Contexts -> Seq(Frames)] /\ ShapeInv' /\ stack'[current] = t
         /\ \A c \in Contexts : c # current => stack'[c] = stack[c]
<1>1. /\ stack' \in [Contexts -> Seq(Frames)] /\ stack'[current] = t
      /\ \A c \in Contexts : c # current => stack'[c] = stack[c]
  BY DEF Typed
<1>2. \A c \in Contexts : Shaped(stack'[c], c = current)
  <2>1. ASSUME NEW c \in Contexts, c = current PROVE Shaped(stack'[c], c = current)
    <3>1. (c = current) = TRUE
      BY <2>1
    <3>2. stack'[c] = t
      BY <1>1, <2>1
    <3> QED BY <3>1, <3>2
  <2>2. ASSUME NEW c \in Contexts, c # current PROVE Shaped(stack'[c], c = current)
    BY <1>1, <2>2 DEF ShapeInv
  <2> QED BY <2>1, <2>2
<1>3. ShapeInv'
  BY <1>2 DEF ShapeInv
<1> QED BY <1>1, <1>3

\* What is known of the current context.
LEMMA CurrentFacts ==
  ASSUME Typed, ShapeInv, EtatInv, current # NoCtx
  PROVE  /\ current \in Contexts /\ stack[current] \in Seq(Frames) /\ stack[current] # <<>>
         /\ Shaped(stack[current], TRUE) /\ Top = stack[current][1]
         /\ Top.at = "body" => Base(current) = "body"
         /\ ctx[current].etat \notin {"none", "READY"}
<1>1. /\ current \in Contexts /\ stack[current] \in Seq(Frames) /\ stack[current] # <<>>
      /\ ctx[current].etat \notin {"none", "READY"}
  BY DEF Typed, Ptr, EtatInv
<1>2. Shaped(stack[current], TRUE)
  <2>1. (current = current) = TRUE
    OBVIOUS
  <2> QED BY <1>1, <2>1 DEF ShapeInv
<1>3. Top = stack[current][1]
  BY <1>1 DEF Top
<1>4. ASSUME Top.at = "body" PROVE Base(current) = "body"
  <2> DEFINE s == stack[current]
  <2>1. s[1].at = "body" /\ s # <<>> /\ Shaped(s, TRUE) /\ s \in Seq(Frames)
    BY <1>1, <1>2, <1>3, <1>4
  <2> HIDE DEF s
  <2>2. Len(s) = 1
    BY <2>1, LenCases DEF Shaped
  <2>3. BaseOf(s) = "body"
    BY <2>1, <2>2 DEF BaseOf
  <2> QED BY <2>3 DEF s, Base
<1> QED BY <1>1, <1>2, <1>3, <1>4

\* Those who wait do as before.
LEMMA WaitersKept ==
  ASSUME WaitersInv, sem'.first = sem.first,
         \A c \in Contexts : ctx'[c].etat = "WAITING" <=> ctx[c].etat = "WAITING",
         \A c \in Contexts : ctx[c].etat = "WAITING" => ctx'[c].blocked = ctx[c].blocked
  PROVE  WaitersInv'
<1>1. Waiting' = Waiting
  BY DEF Waiting
<1>2. PICK n \in Nat : \E w \in [0 .. n -> Ptr] : Line(w, n)
  BY DEF WaitersInv
<1>3. PICK w \in [0 .. n -> Ptr] : Line(w, n)
  BY <1>2
<1>4. Line(w, n)'
  BY <1>1, <1>3 DEF Line, Waiting
<1> QED BY <1>4 DEF WaitersInv

\* The woken, by the bases of their stacks.
WokenIn(e, s) ==
  {c \in Contexts : e[c].etat = "ACTIVABLE" /\ BaseOf(s[c]) = "down"}

\* The woken contexts can be read off the states and the stacks,
LEMMA WokenBase == ASSUME Typed, ShapeInv PROVE Woken = WokenIn(ctx, stack)
<1>1. ASSUME NEW c \in Contexts
      PROVE  (\E i \in DOMAIN stack[c] : stack[c][i].at = "down") <=> BaseOf(stack[c]) = "down"
  <2>1. stack[c] \in Seq(Frames) /\ Shaped(stack[c], c = current) /\ (c = current) \in BOOLEAN
    BY DEF Typed, ShapeInv
  <2> QED BY <2>1, DownAtBase
<1> QED BY <1>1 DEF Woken, WokenIn

\* also after a step.
LEMMA WokenBaseNext == ASSUME Typed', ShapeInv' PROVE Woken' = WokenIn(ctx', stack')
<1>1. ASSUME NEW c \in Contexts
      PROVE  (\E i \in DOMAIN stack'[c] : stack'[c][i].at = "down")
               <=> BaseOf(stack'[c]) = "down"
  <2>1. stack'[c] \in Seq(Frames) /\ Shaped(stack'[c], c = current')
        /\ (c = current') \in BOOLEAN
    BY DEF Typed, ShapeInv
  <2> QED BY <2>1, DownAtBase
<1> QED BY <1>1 DEF Woken, WokenIn

\* The contexts that hold a token or are woken for one are a number.
LEMMA Counts ==
  ASSUME Typed
  PROVE  /\ IsFiniteSet(holders) /\ Cardinality(holders) \in Nat
         /\ \A e, s : IsFiniteSet(WokenIn(e, s)) /\ Cardinality(WokenIn(e, s)) \in Nat
<1>1. \A S \in SUBSET Contexts : IsFiniteSet(S) /\ Cardinality(S) \in Nat
  BY SchedulerAssumption, FS_Subset, FS_CardinalityType
<1> QED BY <1>1 DEF Typed, WokenIn

\* No token moves.
LEMMA TokensKept ==
  ASSUME Typed, ShapeInv, Typed', ShapeInv', TokensBounded, UNCHANGED <<holders, sem>>,
         \A c \in Contexts : ctx'[c].etat = "ACTIVABLE" /\ BaseOf(stack'[c]) = "down"
                               <=> ctx[c].etat = "ACTIVABLE" /\ BaseOf(stack[c]) = "down"
  PROVE  TokensBounded'
<1>1. Woken' = Woken
  BY WokenBase, WokenBaseNext DEF WokenIn
<1> QED BY <1>1 DEF TokensBounded

\* main starts with no context.
LEMMA SchedInvInit == SchedInit => SchedInv
<1> SUFFICES ASSUME SchedInit PROVE SchedInv
  OBVIOUS
<1>1. Typed
  <2>1. ctx \in [Contexts -> [etat : Etats, next : Ptr, blocked : Ptr]]
    BY DEF SchedInit, Ptr, Etats
  <2>2. sem \in [val : Int, first : Ptr, given : Tokens] /\ sem.val <= sem.given
    <3>1. sem \in [val : Tokens, first : {NoCtx}, given : Tokens] /\ sem.val = sem.given
      BY DEF SchedInit
    <3>2. Tokens \subseteq Int
      BY SchedulerAssumption
    <3>3. sem.given \in Int
      BY <3>1, <3>2
    <3> QED BY <3>1, <3>2, <3>3 DEF Ptr
  <2>3. stack \in [Contexts -> Seq(Frames)]
    BY DEF SchedInit
  <2> QED BY <2>1, <2>2, <2>3 DEF SchedInit, Typed, Ptr
<1>2. StartInv
  BY DEF SchedInit, StartInv
<1>3. ShapeInv /\ EtatInv /\ GoInv
  BY DEF SchedInit, ShapeInv, Shaped, EtatInv, Base, BaseOf, GoInv, Running
<1>4. TokensBounded
  <2>1. WokenIn(ctx, stack) = {} /\ holders = {}
    BY DEF SchedInit, WokenIn
  <2>2. Woken = {}
    BY <1>1, <1>3, <2>1, WokenBase
  <2>3. sem.val \in Nat /\ sem.val = sem.given
    BY SchedulerAssumption DEF SchedInit
  <2> QED BY <2>1, <2>2, <2>3, FS_EmptySet DEF TokensBounded
<1>5. WaitersInv
  <2> DEFINE w == [i \in 0 .. 0 |-> NoCtx]
  <2>1. w \in [0 .. 0 -> Ptr] /\ w[0] = NoCtx
    BY DEF Ptr
  <2>2. Waiting = {} /\ sem.first = NoCtx
    BY DEF SchedInit, Waiting
  <2>3. Line(w, 0)
    BY <2>1, <2>2 DEF Line
  <2> QED BY <2>1, <2>3 DEF WaitersInv
<1> QED BY <1>1, <1>2, <1>3, <1>4, <1>5 DEF SchedInv

---------------------------------------------------------------------------
(* Every step keeps the invariant. *)

\* What create_ctx makes of the contexts.
LEMMA CreateSets ==
  ASSUME Typed, StartInv, NEW c \in Contexts, Create(c)
  PROVE  /\ mode = "setup" /\ ctx[c].etat = "none"
         /\ ctx' \in [Contexts -> [etat : Etats, next : Ptr, blocked : Ptr]]
         /\ \/ ring = NoCtx /\ ring' = c /\ ctx'[c].next = c
            \/ /\ ring \in Contexts /\ ring # c /\ ctx[ring].etat # "none" /\ ring' = ring
               /\ ctx'[c].next = ctx[ring].next /\ ctx'[ring].next = c
               /\ ctx'[ring].etat = ctx[ring].etat
         /\ ctx'[c].etat = "READY"
         /\ \A d \in Contexts \ {c} : /\ ctx'[d].etat = ctx[d].etat
                                      /\ d # ring => ctx'[d] = ctx[d]
         /\ UNCHANGED <<mode, freed, current, sem, stack, holders>>
<1>1. /\ mode = "setup" /\ ctx[c].etat = "none"
      /\ UNCHANGED <<mode, freed, current, sem, stack, holders>>
  BY DEF Create
<1>2. ctx \in [Contexts -> [etat : Etats, next : Ptr, blocked : Ptr]] /\ ring \in Ptr
  BY DEF Typed
<1>3. CASE ring = NoCtx
  <2>1. ring' = c /\ ctx' = [ctx EXCEPT ![c] = [etat |-> "READY", next |-> c, blocked |-> NoCtx]]
    BY <1>3 DEF Create
  <2>2. [etat |-> "READY", next |-> c, blocked |-> NoCtx]
          \in [etat : Etats, next : Ptr, blocked : Ptr]
    BY DEF Etats, Ptr
  <2> QED BY <1>1, <1>2, <1>3, <2>1, <2>2, SchedulerAssumption
<1>4. CASE ring # NoCtx
  <2>1. /\ ring' = ring /\ ring \in Contexts /\ ring # c /\ ctx[ring].etat # "none"
    BY <1>1, <1>2, <1>4 DEF Create, StartInv, Ptr
  <2> DEFINE r == [etat |-> "READY", next |-> ctx[ring].next, blocked |-> NoCtx]
             q == [ctx[ring] EXCEPT !.next = c]
  <2>2. ctx' = [ctx EXCEPT ![c] = r, ![ring].next = c]
    BY <1>4 DEF Create
  <2>3. r \in [etat : Etats, next : Ptr, blocked : Ptr] /\ r.etat = "READY"
        /\ r.next = ctx[ring].next
    BY <1>2, <2>1 DEF Etats, Ptr
  <2>4. /\ q \in [etat : Etats, next : Ptr, blocked : Ptr] /\ q.etat = ctx[ring].etat
        /\ q.next = c
    BY <1>2, <2>1 DEF Ptr
  <2>5. /\ ctx' \in [Contexts -> [etat : Etats, next : Ptr, blocked : Ptr]]
        /\ ctx'[c] = r /\ ctx'[ring] = q
        /\ \A d \in Contexts \ {c, ring} : ctx'[d] = ctx[d]
    <3>1. ctx' = [[ctx EXCEPT ![c] = r] EXCEPT ![ring] = q]
      BY <1>2, <2>1, <2>2
    <3> HIDE DEF r, q
    <3> QED BY <1>2, <2>1, <2>3, <2>4, <3>1
  <2> HIDE DEF r, q
  <2> QED BY <1>1, <2>1, <2>3, <2>4, <2>5
<1> QED BY <1>3, <1>4

\* create_ctx keeps the invariant,
LEMMA CreateKeeps == ASSUME SchedInv, NEW c \in Contexts, Create(c) PROVE SchedInv'
<1>1. Typed /\ StartInv /\ ShapeInv /\ EtatInv /\ GoInv /\ TokensBounded /\ WaitersInv
  BY DEF SchedInv
<1>2. /\ mode = "setup" /\ ctx[c].etat = "none"
      /\ ctx' \in [Contexts -> [etat : Etats, next : Ptr, blocked : Ptr]]
      /\ \/ ring = NoCtx /\ ring' = c /\ ctx'[c].next = c
         \/ /\ ring \in Contexts /\ ring # c /\ ctx[ring].etat # "none" /\ ring' = ring
            /\ ctx'[c].next = ctx[ring].next /\ ctx'[ring].next = c
            /\ ctx'[ring].etat = ctx[ring].etat
      /\ ctx'[c].etat = "READY"
      /\ \A d \in Contexts \ {c} : /\ ctx'[d].etat = ctx[d].etat
                                   /\ d # ring => ctx'[d] = ctx[d]
      /\ UNCHANGED <<mode, freed, current, sem, stack, holders>>
  BY <1>1, CreateSets
<1>3. /\ current = NoCtx /\ freed = {}
      /\ \A d \in Contexts : ctx[d].etat \in {"none", "READY"} /\ stack[d] = <<>>
  BY <1>1, <1>2 DEF StartInv, EtatInv
<1>4. \A d \in Contexts : ctx'[d].etat \in {"none", "READY"} /\ stack'[d] = <<>>
  BY <1>2, <1>3
<1>5. Typed'
  BY <1>1, <1>2 DEF Typed, Ptr
<1>6. StartInv'
  <2>1. ASSUME NEW d \in Contexts, ctx'[d].etat # "none"
        PROVE  /\ ring' \in Contexts
               /\ ctx'[d].next \in Contexts /\ ctx'[ctx'[d].next].etat # "none"
    <3>1. CASE d = c
      BY <1>1, <1>2, <3>1 DEF StartInv
    <3>2. CASE d # c
      <4>1. ctx[d].etat # "none"
        BY <1>2, <2>1, <3>2
      <4>2. ring \in Contexts /\ ctx[d].next \in Contexts /\ ctx[ctx[d].next].etat # "none"
        BY <1>1, <4>1 DEF StartInv
      <4>3. ring # NoCtx
        BY <4>2, SchedulerAssumption
      <4> QED BY <1>2, <3>2, <4>1, <4>2, <4>3
    <3> QED BY <3>1, <3>2
  <2> QED BY <1>2, <1>3, <1>4, <2>1 DEF StartInv
<1>7. ShapeInv' /\ GoInv'
  BY <1>1, <1>2, <1>4 DEF ShapeInv, Shaped, GoInv, Running
<1>8. EtatInv'
  <2>1. holders' = {} /\ freed' = {} /\ current' = NoCtx
    BY <1>1, <1>2, <1>3 DEF EtatInv, Typed
  <2> QED BY <1>4, <2>1 DEF EtatInv, Base, BaseOf
<1>9. TokensBounded'
  <2>1. \A d \in Contexts : ctx'[d].etat # "ACTIVABLE" /\ ctx[d].etat # "ACTIVABLE"
    BY <1>3, <1>4
  <2> QED BY <1>1, <1>2, <1>5, <1>7, <2>1, TokensKept
<1>10. WaitersInv'
  <2>1. \A d \in Contexts : ctx'[d].etat # "WAITING" /\ ctx[d].etat # "WAITING"
    BY <1>3, <1>4
  <2> QED BY <1>1, <1>2, <2>1, WaitersKept
<1> QED BY <1>5, <1>6, <1>7, <1>8, <1>9, <1>10 DEF SchedInv

\* so does the first yield of main,
LEMMA LaunchKeeps == ASSUME SchedInv, Launch PROVE SchedInv'
<1>1. Typed /\ StartInv /\ ShapeInv /\ EtatInv /\ GoInv /\ TokensBounded /\ WaitersInv
  BY DEF SchedInv
<1>2. /\ mode = "setup" /\ \A c \in Contexts : ctx[c].etat # "none" /\ mode' = "runs"
      /\ UNCHANGED <<ctx, freed, ring, current, sem, stack, holders>>
  BY DEF Launch
<1>3. Typed' /\ ShapeInv' /\ EtatInv' /\ StartInv'
  BY <1>1, <1>2 DEF Typed, ShapeInv, EtatInv, Base, StartInv
<1>4. GoInv'
  BY <1>1, <1>2 DEF GoInv, Running, StartInv
<1>5. TokensBounded'
  BY <1>1, <1>2, <1>3, TokensKept
<1>6. WaitersInv'
  BY <1>1, <1>2, WaitersKept
<1> QED BY <1>3, <1>4, <1>5, <1>6 DEF SchedInv

\* What switch_to_ctx does, when its target may run.
LEMMA SwitchSteps ==
  ASSUME Typed, EtatInv, NEW t \in Contexts, Runnable(ctx[t].etat),
         NEW saved \in [Contexts -> Seq(Frames)],
         Shaped(saved[t], FALSE), BaseOf(saved[t]) = Base(t),
         saved[t] = <<>> <=> stack[t] = <<>>, SwitchTo(t, saved)
  PROVE  /\ current' = t /\ mode' = mode /\ t \notin freed
         /\ ctx' \in [Contexts -> [etat : Etats, next : Ptr, blocked : Ptr]]
         /\ ctx'[t].etat = "ACTIVABLE" /\ ctx'[t].next = ctx[t].next
         /\ \A d \in Contexts : d # t => ctx'[d] = ctx[d]
         /\ \E s \in Seq(Frames) :
              /\ stack' = [saved EXCEPT ![t] = s] /\ s # <<>> /\ Shaped(s, TRUE)
              /\ s[1].at \in {"body", "pick"}
              /\ \/ ctx[t].etat = "READY" /\ holders' = holders /\ BaseOf(s) = "body"
                 \/ /\ ctx[t].etat = "ACTIVABLE" /\ Base(t) = "down"
                    /\ holders' = holders \cup {t} /\ BaseOf(s) = "body"
                 \/ /\ ctx[t].etat = "ACTIVABLE" /\ holders' = holders
                    /\ BaseOf(s) = Base(t)
<1>1. current' = t /\ t \notin freed /\ ctx[t].etat \in {"READY", "ACTIVABLE"}
  BY DEF SwitchTo, Runnable, EtatInv
<1>2. ctx \in [Contexts -> [etat : Etats, next : Ptr, blocked : Ptr]]
  BY DEF Typed
<1>3. CASE ctx[t].etat = "READY"
  <2>1. /\ ctx' = [ctx EXCEPT ![t].etat = "ACTIVABLE"] /\ mode' = mode /\ holders' = holders
        /\ stack' = [saved EXCEPT ![t] = <<Frame("body")>>]
    BY <1>1, <1>3 DEF SwitchTo
  <2>2. "ACTIVABLE" \in Etats
    BY DEF Etats
  <2>3. /\ ctx' \in [Contexts -> [etat : Etats, next : Ptr, blocked : Ptr]]
        /\ ctx'[t].etat = "ACTIVABLE" /\ ctx'[t].next = ctx[t].next
        /\ \A d \in Contexts : d # t => ctx'[d] = ctx[d]
    BY <1>2, <2>1, <2>2
  <2> QED BY <1>1, <1>3, <2>1, <2>3, FreshShaped
<1>4. CASE ctx[t].etat = "ACTIVABLE"
  <2> DEFINE below == Tail(saved[t])
             downs == Head(below).at = "down"
             s     == IF downs THEN <<Frame("body")>> ELSE below
  <2>1. /\ stack' = [saved EXCEPT ![t] = s]
        /\ holders' = IF downs THEN holders \cup {t} ELSE holders
        /\ mode' = IF Head(below).at = "end" THEN "fault" ELSE mode
        /\ ctx' = ctx
    BY <1>1, <1>4 DEF SwitchTo
  <2>2. saved[t] # <<>> /\ Base(t) # "end" /\ saved[t] \in Seq(Frames)
    BY <1>4 DEF EtatInv
  <2>3. /\ below \in Seq(Frames) /\ below # <<>> /\ Head(below).at \in {"body", "down", "pick"}
        /\ Head(below).at = "down" => Base(t) = "down"
        /\ Head(below).at # "down" => Shaped(below, TRUE) /\ BaseOf(below) = Base(t)
    BY <2>2, TailShaped
  <2>4. Head(below) = below[1]
    BY <2>3
  <2> HIDE DEF below
  <2>5. CASE downs
    BY <1>1, <1>2, <1>4, <2>1, <2>3, <2>5, FreshShaped
  <2>6. CASE ~downs
    BY <1>1, <1>2, <1>4, <2>1, <2>3, <2>4, <2>6
  <2> QED BY <2>5, <2>6
<1> QED BY <1>1, <1>3, <1>4

\* a switch to a context that can run,
LEMMA SwitchKeeps ==
  ASSUME SchedInv, mode = "runs", NEW t \in Contexts, Runnable(ctx[t].etat),
         NEW saved \in [Contexts -> Seq(Frames)],
         \A c \in Contexts : /\ Shaped(saved[c], FALSE) /\ BaseOf(saved[c]) = Base(c)
                             /\ saved[c] = <<>> <=> stack[c] = <<>>,
         SwitchTo(t, saved), UNCHANGED <<freed, ring, sem>>
  PROVE  SchedInv' /\ mode' = mode
<1>1. Typed /\ StartInv /\ ShapeInv /\ EtatInv /\ GoInv /\ TokensBounded /\ WaitersInv
  BY DEF SchedInv
<1>2. /\ current' = t /\ mode' = mode /\ t \notin freed
      /\ ctx' \in [Contexts -> [etat : Etats, next : Ptr, blocked : Ptr]]
      /\ ctx'[t].etat = "ACTIVABLE" /\ ctx'[t].next = ctx[t].next
      /\ \A d \in Contexts : d # t => ctx'[d] = ctx[d]
      /\ \E s \in Seq(Frames) :
           /\ stack' = [saved EXCEPT ![t] = s] /\ s # <<>> /\ Shaped(s, TRUE)
           /\ s[1].at \in {"body", "pick"}
           /\ \/ ctx[t].etat = "READY" /\ holders' = holders /\ BaseOf(s) = "body"
              \/ /\ ctx[t].etat = "ACTIVABLE" /\ Base(t) = "down"
                 /\ holders' = holders \cup {t} /\ BaseOf(s) = "body"
              \/ /\ ctx[t].etat = "ACTIVABLE" /\ holders' = holders
                 /\ BaseOf(s) = Base(t)
  BY <1>1, SwitchSteps
<1>3. PICK s \in Seq(Frames) :
        /\ stack' = [saved EXCEPT ![t] = s] /\ s # <<>> /\ Shaped(s, TRUE)
        /\ s[1].at \in {"body", "pick"}
        /\ \/ ctx[t].etat = "READY" /\ holders' = holders /\ BaseOf(s) = "body"
           \/ /\ ctx[t].etat = "ACTIVABLE" /\ Base(t) = "down"
              /\ holders' = holders \cup {t} /\ BaseOf(s) = "body"
           \/ /\ ctx[t].etat = "ACTIVABLE" /\ holders' = holders
              /\ BaseOf(s) = Base(t)
  BY <1>2
<1>4. /\ stack' \in [Contexts -> Seq(Frames)] /\ stack'[t] = s
      /\ \A d \in Contexts : d # t => stack'[d] = saved[d]
  BY <1>3
<1>5. ctx \in [Contexts -> [etat : Etats, next : Ptr, blocked : Ptr]] /\ t # NoCtx
  BY <1>1, SchedulerAssumption DEF Typed
<1>6. Typed'
  <2>1. t \in Ptr /\ holders' \subseteq Contexts
    BY <1>1, <1>3 DEF Typed, Ptr
  <2> QED BY <1>1, <1>2, <1>4, <2>1 DEF Typed
<1>7. \A d \in Contexts : d # t => /\ BaseOf(stack'[d]) = Base(d)
                                  /\ stack'[d] = <<>> <=> stack[d] = <<>>
  BY <1>4
<1>8. StartInv'
  <2>1. \A d \in Contexts : ctx'[d].next = ctx[d].next /\ ctx'[d].etat # "none"
    <3>1. \A d \in Contexts : ctx[d].etat # "none"
      BY <1>1 DEF StartInv
    <3> QED BY <1>2, <3>1
  <2>2. /\ ring \in Contexts /\ \A d \in Contexts : ctx[d].next \in Contexts
    BY <1>1 DEF StartInv
  <2>3. mode' = "runs" /\ current' # NoCtx /\ ring' \in Contexts
    BY <1>2, <1>5, <2>2
  <2> QED BY <2>1, <2>2, <2>3 DEF StartInv
<1>9. ShapeInv'
  <2>1. ASSUME NEW d \in Contexts PROVE Shaped(stack'[d], d = t)
    <3>1. CASE d = t
      <4>1. (d = t) = TRUE
        BY <3>1
      <4> QED BY <1>3, <1>4, <3>1, <4>1
    <3>2. CASE d # t
      <4>1. (d = t) = FALSE
        BY <3>2
      <4> QED BY <1>4, <3>2, <4>1
    <3> QED BY <3>1, <3>2
  <2> QED BY <1>2, <2>1 DEF ShapeInv
<1>10. EtatInv'
  <2>1. ASSUME NEW d \in Contexts
        PROVE  /\ ctx'[d].etat \in {"none", "READY"} <=> stack'[d] = <<>>
               /\ ctx'[d].etat = "WAITING" => BaseOf(stack'[d]) = "down"
               /\ ctx'[d].etat = "TERMINATED" <=> BaseOf(stack'[d]) = "end"
               /\ ctx'[d].etat = "TERMINATED" => d \in Mortal
    <3>1. CASE d = t
      <4>1. Base(t) # "end" \/ ctx[t].etat = "READY"
        BY <1>1, <1>3 DEF EtatInv
      <4> QED BY <1>2, <1>3, <1>4, <3>1, <4>1
    <3>2. CASE d # t
      <4>1. /\ BaseOf(stack'[d]) = Base(d) /\ (stack'[d] = <<>> <=> stack[d] = <<>>)
            /\ ctx'[d] = ctx[d]
        BY <1>2, <1>7, <3>2
      <4> QED BY <1>1, <4>1 DEF EtatInv
    <3> QED BY <3>1, <3>2
  <2>2. ASSUME NEW d \in holders' PROVE ctx'[d].etat = "ACTIVABLE" /\ BaseOf(stack'[d]) = "body"
    <3>1. CASE d = t
      <4>1. t \in holders => Base(t) = "body" /\ ctx[t].etat = "ACTIVABLE"
        BY <1>1 DEF EtatInv
      <4> QED BY <1>2, <1>3, <1>4, <2>2, <3>1, <4>1
    <3>2. CASE d # t
      <4>1. d \in holders /\ d \in Contexts
        BY <1>1, <1>3, <2>2, <3>2 DEF Typed
      <4>2. ctx[d].etat = "ACTIVABLE" /\ Base(d) = "body"
        BY <1>1, <4>1 DEF EtatInv
      <4>3. ctx'[d] = ctx[d] /\ BaseOf(stack'[d]) = Base(d)
        BY <1>2, <1>7, <3>2, <4>1
      <4> QED BY <4>2, <4>3
    <3> QED BY <3>1, <3>2
  <2>3. \A d \in freed' : ctx'[d].etat = "TERMINATED"
    BY <1>1, <1>2 DEF EtatInv, Typed
  <2>4. stack'[t] # <<>>
    BY <1>3, <1>4
  <2> QED BY <1>2, <2>1, <2>2, <2>3, <2>4 DEF EtatInv, Base
<1>11. GoInv'
  <2>1. Head(stack'[t]) = s[1]
    BY <1>3, <1>4
  <2> QED BY <1>2, <1>3, <2>1 DEF GoInv, Running, Top
<1>12. TokensBounded'
  <2>1. CASE holders' = holders
    <3>1. ASSUME NEW d \in Contexts
          PROVE  ctx'[d].etat = "ACTIVABLE" /\ BaseOf(stack'[d]) = "down"
                   <=> ctx[d].etat = "ACTIVABLE" /\ BaseOf(stack[d]) = "down"
      <4>1. CASE d = t
        <5>1. t \in holders => BaseOf(stack[t]) = "body"
          BY <1>1 DEF EtatInv, Base
        <5> QED BY <1>2, <1>3, <1>4, <2>1, <4>1, <5>1 DEF Base
      <4>2. CASE d # t
        BY <1>2, <1>7, <4>2 DEF Base
      <4> QED BY <4>1, <4>2
    <3> QED BY <1>1, <1>6, <1>9, <2>1, <3>1, TokensKept
  <2>2. CASE holders' # holders
    <3>1. /\ ctx[t].etat = "ACTIVABLE" /\ BaseOf(stack[t]) = "down"
          /\ holders' = holders \cup {t} /\ BaseOf(s) = "body"
      BY <1>3, <2>2 DEF Base
    <3>2. t \notin holders
      BY <1>1, <3>1 DEF EtatInv, Base
    <3>3. WokenIn(ctx', stack') = WokenIn(ctx, stack) \ {t} /\ t \in WokenIn(ctx, stack)
      <4>1. \A d \in Contexts : d # t => /\ BaseOf(stack'[d]) = BaseOf(stack[d])
                                         /\ ctx'[d] = ctx[d]
        BY <1>2, <1>7 DEF Base
      <4>2. BaseOf(stack'[t]) # "down"
        BY <1>4, <3>1
      <4> QED BY <3>1, <4>1, <4>2 DEF WokenIn
    <3> DEFINE W == WokenIn(ctx, stack)
    <3>4. IsFiniteSet(W) /\ Cardinality(W) \in Nat /\ IsFiniteSet(holders)
          /\ Cardinality(holders) \in Nat
      BY <1>1, Counts
    <3>5. Woken = W /\ Woken' = W \ {t} /\ t \in W
      BY <1>1, <1>6, <1>9, <3>3, WokenBase, WokenBaseNext
    <3> HIDE DEF W
    <3>6. Cardinality(W \ {t}) = Cardinality(W) - 1
      BY <3>4, <3>5, FS_RemoveElement
    <3>7. Cardinality(holders \cup {t}) = Cardinality(holders) + 1
      BY <3>2, <3>4, FS_AddElement
    <3> QED BY <1>1, <3>1, <3>4, <3>5, <3>6, <3>7 DEF TokensBounded, Typed
  <2> QED BY <2>1, <2>2
<1>13. WaitersInv'
  <2>1. \A d \in Contexts : /\ ctx'[d].etat = "WAITING" <=> ctx[d].etat = "WAITING"
                            /\ ctx[d].etat = "WAITING" => ctx'[d].blocked = ctx[d].blocked
    BY <1>2 DEF Runnable
  <2> QED BY <1>1, <2>1, WaitersKept
<1> QED BY <1>2, <1>6, <1>8, <1>9, <1>10, <1>11, <1>12, <1>13 DEF SchedInv

\* The processor leaves main, where every context is new.
LEMMA FirstTickKeeps == ASSUME SchedInv, FirstTick PROVE SchedInv' /\ mode' = mode
<1>1. Typed /\ StartInv /\ ShapeInv /\ EtatInv
  BY DEF SchedInv
<1>2. mode = "runs" /\ current = NoCtx /\ SwitchTo(ring, stack) /\ UNCHANGED <<freed, ring, sem>>
  BY DEF FirstTick
<1>3. \A c \in Contexts : ctx[c].etat = "READY" /\ stack[c] = <<>>
  BY <1>1, <1>2 DEF StartInv, EtatInv
<1>4. ring \in Contexts
  BY <1>1, <1>3, SchedulerAssumption DEF StartInv
<1>5. \A c \in Contexts : /\ Shaped(stack[c], FALSE) /\ BaseOf(stack[c]) = Base(c)
                          /\ stack[c] = <<>> <=> stack[c] = <<>>
  BY <1>3 DEF Shaped, Base
<1>6. Runnable(ctx[ring].etat) /\ stack \in [Contexts -> Seq(Frames)]
  BY <1>1, <1>3, <1>4 DEF Runnable, Typed
<1> QED BY <1>2, <1>4, <1>5, <1>6, SwitchKeeps

\* the end of switch_to_ctx,
LEMMA GoKeeps == ASSUME SchedInv, Go PROVE SchedInv' /\ mode' = mode
<1>1. Typed /\ StartInv /\ ShapeInv /\ EtatInv /\ GoInv
  BY DEF SchedInv
<1> DEFINE t     == Top.to
           saved == [stack EXCEPT ![current][1] = Frame("away")]
<1>2. /\ mode = "runs" /\ current # NoCtx /\ Top.at = "go" /\ SwitchTo(t, saved)
      /\ UNCHANGED <<freed, ring, sem>>
  BY DEF Go, Running
<1>3. /\ current \in Contexts /\ stack[current] \in Seq(Frames) /\ stack[current] # <<>>
      /\ Shaped(stack[current], TRUE) /\ Top = stack[current][1]
  BY <1>1, <1>2, CurrentFacts
<1>4. t \in Contexts /\ Runnable(ctx[t].etat)
  BY <1>1, <1>2 DEF GoInv, Running
<1> DEFINE s == [stack[current] EXCEPT ![1] = Frame("away")]
<1>5. /\ s \in Seq(Frames) /\ s # <<>> /\ Shaped(s, FALSE) /\ BaseOf(s) = BaseOf(stack[current])
  <2>1. Frame("away") \in Frames /\ Frame("away").at = "away" /\ FALSE \in BOOLEAN
    BY FrameTyped
  <2>2. stack[current][1].at # "body"
    BY <1>2, <1>3
  <2> QED BY <1>3, <2>1, <2>2, TopShaped
<1>6. saved = [stack EXCEPT ![current] = s]
  BY <1>1, <1>3 DEF Typed
<1> HIDE DEF s, saved, t
<1>7. /\ saved \in [Contexts -> Seq(Frames)] /\ saved[current] = s
      /\ \A c \in Contexts : c # current => saved[c] = stack[c]
  BY <1>1, <1>3, <1>5, <1>6 DEF Typed
<1>8. ASSUME NEW c \in Contexts
      PROVE  /\ Shaped(saved[c], FALSE) /\ BaseOf(saved[c]) = Base(c)
             /\ saved[c] = <<>> <=> stack[c] = <<>>
  <2>1. CASE c = current
    BY <1>3, <1>5, <1>7, <2>1 DEF Base
  <2>2. CASE c # current
    <3>1. (c = current) = FALSE /\ saved[c] = stack[c]
      BY <1>7, <2>2
    <3> QED BY <1>1, <3>1 DEF ShapeInv, Base
  <2> QED BY <2>1, <2>2
<1> QED BY <1>2, <1>4, <1>7, <1>8, SwitchKeeps

\* an alarm,
LEMMA TickKeeps == ASSUME SchedInv, CalmTick PROVE SchedInv'
<1>1. Typed /\ StartInv /\ ShapeInv /\ EtatInv /\ GoInv /\ TokensBounded /\ WaitersInv
  BY DEF SchedInv
<1> DEFINE t == <<Frame("pick")>> \o stack[current]
<1>2. /\ mode = "runs" /\ current # NoCtx /\ Top.at \in {"body", "pick"}
      /\ stack' = [stack EXCEPT ![current] = t]
      /\ UNCHANGED <<mode, ctx, freed, ring, current, sem, holders>>
  BY DEF CalmTick, Tick
<1>3. /\ current \in Contexts /\ stack[current] \in Seq(Frames) /\ stack[current] # <<>>
      /\ Shaped(stack[current], TRUE) /\ Top = stack[current][1]
  BY <1>1, <1>2, CurrentFacts
<1>4. /\ t \in Seq(Frames) /\ t # <<>> /\ Shaped(t, TRUE) /\ BaseOf(t) = BaseOf(stack[current])
      /\ t[1].at = "pick"
  BY <1>2, <1>3, PushShaped
<1> HIDE DEF t
<1>5. /\ stack' \in [Contexts -> Seq(Frames)] /\ ShapeInv' /\ stack'[current] = t
      /\ \A c \in Contexts : c # current => stack'[c] = stack[c]
  BY <1>1, <1>2, <1>3, <1>4, OwnStack
<1>6. \A c \in Contexts : /\ BaseOf(stack'[c]) = BaseOf(stack[c])
                          /\ stack'[c] = <<>> <=> stack[c] = <<>>
  BY <1>3, <1>4, <1>5
<1>7. Typed' /\ StartInv'
  BY <1>1, <1>2, <1>5 DEF Typed, StartInv
<1>8. EtatInv'
  BY <1>1, <1>2, <1>4, <1>5, <1>6 DEF EtatInv, Base, Typed
<1>9. GoInv'
  <2>1. Head(stack'[current]) = t[1]
    BY <1>4, <1>5
  <2> QED BY <1>2, <1>4, <2>1 DEF GoInv, Running, Top
<1>10. TokensBounded'
  BY <1>1, <1>2, <1>5, <1>6, <1>7, TokensKept
<1>11. WaitersInv'
  BY <1>1, <1>2, WaitersKept
<1> QED BY <1>5, <1>7, <1>8, <1>9, <1>10, <1>11 DEF SchedInv

\* A context in its function may run, and its stack is that of the function.
LEMMA InBody ==
  ASSUME Typed, ShapeInv, EtatInv, Running("body")
  PROVE  /\ mode = "runs" /\ current \in Contexts /\ current # NoCtx /\ Base(current) = "body"
         /\ ctx[current].etat = "ACTIVABLE" /\ Top.at = "body"
         /\ stack[current] # <<>> /\ Top = stack[current][1]
<1>1. mode = "runs" /\ current # NoCtx /\ Top.at = "body"
  BY DEF Running
<1>2. /\ current \in Contexts /\ Base(current) = "body" /\ stack[current] # <<>>
      /\ ctx[current].etat \notin {"none", "READY"} /\ Top = stack[current][1]
  BY <1>1, CurrentFacts
<1>3. ctx[current].etat \in Etats
  BY <1>2 DEF Typed
<1>4. ctx[current].etat # "WAITING" /\ ctx[current].etat # "TERMINATED"
  BY <1>2 DEF EtatInv
<1> QED BY <1>1, <1>2, <1>3, <1>4 DEF Etats

\* the end of a context,
LEMMA EndKeeps == ASSUME SchedInv, End PROVE SchedInv'
<1>1. Typed /\ StartInv /\ ShapeInv /\ EtatInv /\ GoInv /\ TokensBounded /\ WaitersInv
  BY DEF SchedInv
<1> DEFINE t == <<Frame("pick"), Frame("end")>>
<1>2. /\ Running("body") /\ current \in Mortal /\ current \notin holders
      /\ ctx' = [ctx EXCEPT ![current].etat = "TERMINATED"]
      /\ stack' = [stack EXCEPT ![current] = t]
      /\ UNCHANGED <<mode, freed, ring, current, sem, holders>>
  BY DEF End
<1>3. /\ mode = "runs" /\ current \in Contexts /\ current # NoCtx /\ Base(current) = "body"
      /\ ctx[current].etat = "ACTIVABLE"
  BY <1>1, <1>2, InBody
<1>4. t \in Seq(Frames) /\ t # <<>> /\ Shaped(t, TRUE) /\ BaseOf(t) = "end" /\ t[1].at = "pick"
  BY FreshShaped
<1> HIDE DEF t
<1>5. /\ stack' \in [Contexts -> Seq(Frames)] /\ ShapeInv' /\ stack'[current] = t
      /\ \A c \in Contexts : c # current => stack'[c] = stack[c]
  BY <1>1, <1>2, <1>3, <1>4, OwnStack
<1>6. /\ ctx' \in [Contexts -> [etat : Etats, next : Ptr, blocked : Ptr]]
      /\ ctx'[current].etat = "TERMINATED"
      /\ \A c \in Contexts : c # current => ctx'[c] = ctx[c]
      /\ \A c \in Contexts : ctx'[c].next = ctx[c].next
  <2>1. "TERMINATED" \in Etats
    BY DEF Etats
  <2>2. ctx \in [Contexts -> [etat : Etats, next : Ptr, blocked : Ptr]]
    BY <1>1 DEF Typed
  <2> QED BY <1>2, <1>3, <2>1, <2>2
<1>7. Typed'
  BY <1>1, <1>2, <1>5, <1>6 DEF Typed
<1>8. StartInv'
  BY <1>1, <1>2, <1>3, <1>6 DEF StartInv
<1>9. EtatInv'
  <2>1. ASSUME NEW c \in Contexts
        PROVE  /\ ctx'[c].etat \in {"none", "READY"} <=> stack'[c] = <<>>
               /\ ctx'[c].etat = "WAITING" => BaseOf(stack'[c]) = "down"
               /\ ctx'[c].etat = "TERMINATED" <=> BaseOf(stack'[c]) = "end"
               /\ ctx'[c].etat = "TERMINATED" => c \in Mortal
    <3>1. CASE c = current
      BY <1>2, <1>4, <1>5, <1>6, <3>1
    <3>2. CASE c # current
      <4>1. ctx'[c] = ctx[c] /\ stack'[c] = stack[c]
        BY <1>5, <1>6, <3>2
      <4> QED BY <1>1, <4>1 DEF EtatInv, Base
    <3> QED BY <3>1, <3>2
  <2>2. ASSUME NEW c \in holders' PROVE ctx'[c].etat = "ACTIVABLE" /\ BaseOf(stack'[c]) = "body"
    <3>1. c \in holders /\ c # current /\ c \in Contexts
      BY <1>1, <1>2, <2>2 DEF Typed
    <3>2. ctx'[c] = ctx[c] /\ stack'[c] = stack[c]
      BY <1>5, <1>6, <3>1
    <3> QED BY <1>1, <3>1, <3>2 DEF EtatInv, Base
  <2>3. \A c \in freed' : ctx'[c].etat = "TERMINATED"
    BY <1>1, <1>2, <1>6 DEF EtatInv, Typed
  <2> QED BY <1>2, <1>4, <1>5, <2>1, <2>2, <2>3 DEF EtatInv, Base
<1>10. GoInv'
  <2>1. Head(stack'[current]) = t[1]
    BY <1>4, <1>5
  <2> QED BY <1>2, <1>4, <2>1 DEF GoInv, Running, Top
<1>11. TokensBounded'
  <2>1. ASSUME NEW c \in Contexts
        PROVE  ctx'[c].etat = "ACTIVABLE" /\ BaseOf(stack'[c]) = "down"
                 <=> ctx[c].etat = "ACTIVABLE" /\ BaseOf(stack[c]) = "down"
    BY <1>3, <1>5, <1>6 DEF Base
  <2> QED BY <1>1, <1>2, <1>5, <1>7, <2>1, TokensKept
<1>12. WaitersInv'
  <2>1. \A c \in Contexts : /\ ctx'[c].etat = "WAITING" <=> ctx[c].etat = "WAITING"
                            /\ ctx[c].etat = "WAITING" => ctx'[c].blocked = ctx[c].blocked
    BY <1>3, <1>6
  <2> QED BY <1>1, <1>2, <2>1, WaitersKept
<1> QED BY <1>5, <1>7, <1>8, <1>9, <1>10, <1>11, <1>12 DEF SchedInv

\* sem_down finds a token.
LEMMA TakeKeeps ==
  ASSUME SchedInv, SemDown, HasToken
  PROVE  SchedInv'
<1>1. Typed /\ StartInv /\ ShapeInv /\ EtatInv /\ GoInv /\ TokensBounded /\ WaitersInv
  BY DEF SchedInv
<1>2. /\ Running("body") /\ current \notin holders /\ sem.val >= 1
      /\ sem' = [sem EXCEPT !.val = @ - 1] /\ holders' = holders \cup {current}
      /\ UNCHANGED <<mode, ctx, freed, ring, current, stack>>
  BY DEF SemDown, HasToken
<1>3. /\ mode = "runs" /\ current \in Contexts /\ current # NoCtx /\ Base(current) = "body"
      /\ ctx[current].etat = "ACTIVABLE" /\ Top.at = "body"
  BY <1>1, <1>2, InBody
<1>4. /\ sem' \in [val : Int, first : Ptr, given : Tokens] /\ sem'.first = sem.first
      /\ sem'.val = sem.val - 1 /\ sem'.given = sem.given /\ sem.given \in Int
      /\ sem.val \in Int /\ sem.val <= sem.given
  <2>1. Tokens \subseteq Int
    BY SchedulerAssumption
  <2> QED BY <1>1, <1>2, <2>1 DEF Typed
<1>5. Typed' /\ StartInv' /\ ShapeInv'
  <2>1. sem'.val <= sem'.given
    <3> DEFINE v == sem.val
               g == sem.given
    <3>1. v \in Int /\ g \in Int /\ v <= g /\ sem'.val = v - 1 /\ sem'.given = g
      BY <1>4
    <3> HIDE DEF v, g
    <3> QED BY <3>1
  <2>2. holders' \subseteq Contexts
    BY <1>1, <1>2, <1>3 DEF Typed
  <2>3. Typed'
    BY <1>1, <1>2, <1>4, <2>1, <2>2 DEF Typed
  <2>4. StartInv'
    BY <1>1, <1>2 DEF StartInv
  <2>5. ShapeInv'
    BY <1>1, <1>2 DEF ShapeInv
  <2> QED BY <2>3, <2>4, <2>5
<1>6. EtatInv'
  BY <1>1, <1>2, <1>3 DEF EtatInv, Base
<1>7. GoInv'
  BY <1>1, <1>2 DEF GoInv, Running, Top
<1>8. TokensBounded'
  <2>1. Woken' = Woken
    BY <1>2 DEF Woken
  <2> DEFINE W == Woken
  <2>2. IsFiniteSet(W) /\ Cardinality(W) \in Nat /\ IsFiniteSet(holders)
        /\ Cardinality(holders) \in Nat
    BY <1>1, Counts, WokenBase
  <2>3. Cardinality(holders \cup {current}) = Cardinality(holders) + 1
    BY <1>2, <2>2, FS_AddElement
  <2>4. Cardinality(holders) + Cardinality(W) + sem.val <= sem.given
    BY <1>1, <1>2, <1>4 DEF TokensBounded
  <2>5. Cardinality(holders') + Cardinality(W)
          + (IF sem'.val > 0 THEN sem'.val ELSE 0) <= sem'.given
    <3> HIDE DEF W
    <3> QED BY <1>2, <1>4, <2>2, <2>3, <2>4
  <2> QED BY <2>1, <2>5 DEF TokensBounded
<1>9. WaitersInv'
  BY <1>1, <1>2, <1>4, WaitersKept
<1> QED BY <1>5, <1>6, <1>7, <1>8, <1>9 DEF SchedInv

\* The context that waits comes before the others.
LEMMA WaiterJoins ==
  ASSUME Typed, WaitersInv, NEW c \in Contexts, c \notin Waiting,
         Waiting' = Waiting \cup {c}, sem'.first = c, ctx'[c].blocked = sem.first,
         \A d \in Waiting : ctx'[d].blocked = ctx[d].blocked
  PROVE  WaitersInv'
<1>1. PICK n \in Nat : \E w \in [0 .. n -> Ptr] : Line(w, n)
  BY DEF WaitersInv
<1>2. PICK w \in [0 .. n -> Ptr] : Line(w, n)
  BY <1>1
<1>3. /\ w[0] = sem.first /\ w[n] = NoCtx
      /\ \A i \in 0 .. n - 1 : w[i] \in Waiting /\ ctx[w[i]].blocked = w[i + 1]
      /\ \A i, j \in 0 .. n - 1 : w[i] = w[j] => i = j
      /\ \A d \in Waiting : \E i \in 0 .. n - 1 : w[i] = d
  BY <1>2 DEF Line
<1> DEFINE m == n + 1
           v == [i \in 0 .. m |-> IF i = 0 THEN c ELSE w[i - 1]]
<1>4. m \in Nat /\ n \in Nat /\ m = n + 1
  OBVIOUS
<1>5. v \in [0 .. m -> Ptr] /\ v[0] = c /\ v[m] = NoCtx
  <2>1. \A i \in 0 .. m : i # 0 => i - 1 \in 0 .. n
    OBVIOUS
  <2> QED BY <1>3, <2>1 DEF Ptr
<1>6. \A i \in 0 .. n : v[i + 1] = w[i]
  <2>1. ASSUME NEW i \in 0 .. n PROVE i + 1 \in 0 .. m /\ i + 1 # 0 /\ (i + 1) - 1 = i
    OBVIOUS
  <2> QED BY <2>1
<1>7. \A i \in 1 .. m : i - 1 \in 0 .. n /\ v[i] = w[i - 1]
  OBVIOUS
<1> HIDE DEF v, m
<1>8. ASSUME NEW i \in 0 .. m - 1 PROVE v[i] \in Waiting' /\ ctx'[v[i]].blocked = v[i + 1]
  <2>1. CASE i = 0
    <3>1. v[0 + 1] = w[0]
      BY <1>4, <1>6
    <3> QED BY <1>3, <1>5, <2>1, <3>1
  <2>2. CASE i # 0
    <3>1. i - 1 \in 0 .. n - 1 /\ v[i] = w[i - 1] /\ v[i + 1] = w[i]
      BY <1>4, <1>6, <1>7, <2>2
    <3>2. w[i - 1] \in Waiting /\ ctx[w[i - 1]].blocked = w[(i - 1) + 1] /\ (i - 1) + 1 = i
      BY <1>3, <3>1
    <3> QED BY <3>1, <3>2
  <2> QED BY <2>1, <2>2
<1>9. ASSUME NEW i \in 0 .. m - 1, NEW j \in 0 .. m - 1, v[i] = v[j] PROVE i = j
  <2>1. \A k \in 0 .. m - 1 : k # 0 => k - 1 \in 0 .. n - 1 /\ v[k] = w[k - 1] /\ v[k] # c
    <3>1. ASSUME NEW k \in 0 .. m - 1, k # 0
          PROVE  k - 1 \in 0 .. n - 1 /\ v[k] = w[k - 1] /\ v[k] # c
      <4>1. k - 1 \in 0 .. n - 1 /\ v[k] = w[k - 1]
        BY <1>4, <1>7, <3>1
      <4> QED BY <1>3, <4>1
    <3> QED BY <3>1
  <2>2. CASE i = 0 \/ j = 0
    BY <1>5, <1>9, <2>1, <2>2
  <2>3. CASE i # 0 /\ j # 0
    <3>1. i - 1 = j - 1
      BY <1>3, <1>9, <2>1, <2>3
    <3> QED BY <3>1
  <2> QED BY <2>2, <2>3
<1>10. ASSUME NEW d \in Waiting' PROVE \E i \in 0 .. m - 1 : v[i] = d
  <2>1. CASE d = c
    <3>1. 0 \in 0 .. m - 1
      BY <1>4
    <3> QED BY <1>5, <2>1, <3>1
  <2>2. CASE d # c
    <3>1. PICK i \in 0 .. n - 1 : w[i] = d
      BY <1>3, <2>2
    <3>2. i + 1 \in 0 .. m - 1 /\ v[i + 1] = d
      BY <1>4, <1>6, <3>1
    <3> QED BY <3>2
  <2> QED BY <2>1, <2>2
<1>11. Line(v, m)'
  BY <1>5, <1>8, <1>9, <1>10 DEF Line
<1> QED BY <1>4, <1>5, <1>11 DEF WaitersInv

\* The first in line leaves it.
LEMMA WaiterLeaves ==
  ASSUME Typed, WaitersInv, sem.first # NoCtx, Waiting' = Waiting \ {sem.first},
         sem'.first = ctx[sem.first].blocked,
         \A d \in Waiting : ctx'[d].blocked = ctx[d].blocked
  PROVE  WaitersInv' /\ sem.first \in Waiting
<1>1. PICK n \in Nat : \E w \in [0 .. n -> Ptr] : Line(w, n)
  BY DEF WaitersInv
<1>2. PICK w \in [0 .. n -> Ptr] : Line(w, n)
  BY <1>1
<1>3. /\ w[0] = sem.first /\ w[n] = NoCtx
      /\ \A i \in 0 .. n - 1 : w[i] \in Waiting /\ ctx[w[i]].blocked = w[i + 1]
      /\ \A i, j \in 0 .. n - 1 : w[i] = w[j] => i = j
      /\ \A d \in Waiting : \E i \in 0 .. n - 1 : w[i] = d
  BY <1>2 DEF Line
<1> DEFINE m == n - 1
           v == [i \in 0 .. m |-> w[i + 1]]
<1>4. m \in Nat /\ n = m + 1 /\ 0 \in 0 .. n - 1
  <2>1. n # 0
    BY <1>3
  <2> QED BY <2>1
<1>5. \A i \in 0 .. m : i + 1 \in 0 .. n /\ v[i] = w[i + 1]
  BY <1>4
<1>6. v \in [0 .. m -> Ptr]
  BY <1>5
<1> HIDE DEF v, m
<1>7. w[0] \in Waiting /\ ctx[w[0]].blocked = w[1]
  BY <1>3, <1>4
<1>8. v[0] = sem'.first /\ v[m] = NoCtx
  BY <1>3, <1>4, <1>5, <1>7
<1>9. ASSUME NEW i \in 0 .. m - 1 PROVE v[i] \in Waiting' /\ ctx'[v[i]].blocked = v[i + 1]
  <2>1. i + 1 \in 0 .. n - 1 /\ v[i] = w[i + 1] /\ v[i + 1] = w[(i + 1) + 1] /\ i + 1 # 0
    BY <1>4, <1>5
  <2>2. w[i + 1] \in Waiting /\ ctx[w[i + 1]].blocked = w[(i + 1) + 1]
    BY <1>3, <2>1
  <2>3. w[i + 1] # w[0]
    BY <1>3, <1>4, <2>1
  <2> QED BY <1>3, <2>1, <2>2, <2>3
<1>10. ASSUME NEW i \in 0 .. m - 1, NEW j \in 0 .. m - 1, v[i] = v[j] PROVE i = j
  <2>1. i + 1 \in 0 .. n - 1 /\ j + 1 \in 0 .. n - 1 /\ w[i + 1] = w[j + 1]
    BY <1>4, <1>5, <1>10
  <2>2. i + 1 = j + 1
    BY <1>3, <2>1
  <2> QED BY <2>2
<1>11. ASSUME NEW d \in Waiting' PROVE \E i \in 0 .. m - 1 : v[i] = d
  <2>1. PICK i \in 0 .. n - 1 : w[i] = d
    BY <1>3
  <2>2. i # 0
    BY <1>3, <2>1
  <2>3. i - 1 \in 0 .. m - 1 /\ v[i - 1] = w[(i - 1) + 1] /\ (i - 1) + 1 = i
    BY <1>4, <1>5, <2>2
  <2> QED BY <2>1, <2>3
<1>12. Line(v, m)'
  BY <1>8, <1>9, <1>10, <1>11 DEF Line
<1> QED BY <1>3, <1>4, <1>6, <1>7, <1>12 DEF WaitersInv

\* sem_down finds none.
LEMMA BlockKeeps ==
  ASSUME SchedInv, SemDown, ~HasToken
  PROVE  SchedInv'
<1>1. Typed /\ StartInv /\ ShapeInv /\ EtatInv /\ GoInv /\ TokensBounded /\ WaitersInv
  BY DEF SchedInv
<1> DEFINE t == <<Frame("pick"), Frame("down")>>
<1>2. /\ Running("body") /\ ~(sem.val >= 1)
      /\ ctx' = [ctx EXCEPT ![current].etat = "WAITING", ![current].blocked = sem.first]
      /\ sem' = [sem EXCEPT !.val = @ - 1, !.first = current]
      /\ stack' = [stack EXCEPT ![current] = t]
      /\ current \notin holders
      /\ UNCHANGED <<mode, freed, ring, current, holders>>
  BY DEF SemDown, HasToken, Blocked
<1>3. /\ mode = "runs" /\ current \in Contexts /\ current # NoCtx /\ Base(current) = "body"
      /\ ctx[current].etat = "ACTIVABLE"
  BY <1>1, <1>2, InBody
<1>4. t \in Seq(Frames) /\ t # <<>> /\ Shaped(t, TRUE) /\ BaseOf(t) = "down" /\ t[1].at = "pick"
  BY FreshShaped
<1> HIDE DEF t
<1>5. /\ stack' \in [Contexts -> Seq(Frames)] /\ ShapeInv' /\ stack'[current] = t
      /\ \A c \in Contexts : c # current => stack'[c] = stack[c]
  BY <1>1, <1>2, <1>3, <1>4, OwnStack
<1>6. /\ sem' \in [val : Int, first : Ptr, given : Tokens] /\ sem'.first = current
      /\ sem'.val = sem.val - 1 /\ sem'.given = sem.given /\ sem.given \in Int
      /\ sem.val \in Int /\ sem.val <= sem.given /\ sem.first \in Ptr
  <2>1. Tokens \subseteq Int
    BY SchedulerAssumption
  <2>2. sem \in [val : Int, first : Ptr, given : Tokens] /\ sem.val <= sem.given
    BY <1>1 DEF Typed
  <2> DEFINE g == [sem EXCEPT !.val = @ - 1]
  <2>3. /\ g \in [val : Int, first : Ptr, given : Tokens] /\ g.val = sem.val - 1
        /\ g.given = sem.given
    BY <2>2
  <2>4. sem' = [g EXCEPT !.first = current] /\ current \in Ptr
    BY <1>2, <1>3 DEF Ptr
  <2>5. sem.given \in Int /\ sem.val \in Int /\ sem.first \in Ptr
    BY <2>1, <2>2
  <2> HIDE DEF g
  <2> QED BY <2>2, <2>3, <2>4, <2>5
<1>7. /\ ctx' \in [Contexts -> [etat : Etats, next : Ptr, blocked : Ptr]]
      /\ ctx'[current].etat = "WAITING" /\ ctx'[current].blocked = sem.first
      /\ \A c \in Contexts : c # current => ctx'[c] = ctx[c]
      /\ \A c \in Contexts : ctx'[c].next = ctx[c].next
  <2>1. "WAITING" \in Etats
    BY DEF Etats
  <2>2. ctx \in [Contexts -> [etat : Etats, next : Ptr, blocked : Ptr]]
    BY <1>1 DEF Typed
  <2> DEFINE g == [ctx EXCEPT ![current].etat = "WAITING"]
  <2>3. /\ g \in [Contexts -> [etat : Etats, next : Ptr, blocked : Ptr]]
        /\ g[current].etat = "WAITING"
        /\ \A c \in Contexts : c # current => g[c] = ctx[c]
        /\ \A c \in Contexts : g[c].next = ctx[c].next
    BY <1>3, <2>1, <2>2
  <2>4. ctx' = [g EXCEPT ![current].blocked = sem.first]
    BY <1>2
  <2> HIDE DEF g
  <2> QED BY <1>3, <1>6, <2>3, <2>4
<1>8. Typed'
  BY <1>1, <1>2, <1>5, <1>6, <1>7 DEF Typed
<1>9. StartInv'
  BY <1>1, <1>2, <1>3, <1>7 DEF StartInv
<1>10. EtatInv'
  <2>1. ASSUME NEW c \in Contexts
        PROVE  /\ ctx'[c].etat \in {"none", "READY"} <=> stack'[c] = <<>>
               /\ ctx'[c].etat = "WAITING" => BaseOf(stack'[c]) = "down"
               /\ ctx'[c].etat = "TERMINATED" <=> BaseOf(stack'[c]) = "end"
               /\ ctx'[c].etat = "TERMINATED" => c \in Mortal
    <3>1. CASE c = current
      BY <1>4, <1>5, <1>7, <3>1
    <3>2. CASE c # current
      <4>1. ctx'[c] = ctx[c] /\ stack'[c] = stack[c]
        BY <1>5, <1>7, <3>2
      <4> QED BY <1>1, <4>1 DEF EtatInv, Base
    <3> QED BY <3>1, <3>2
  <2>2. ASSUME NEW c \in holders' PROVE ctx'[c].etat = "ACTIVABLE" /\ BaseOf(stack'[c]) = "body"
    <3>1. c \in holders /\ c # current /\ c \in Contexts
      BY <1>1, <1>2, <2>2 DEF Typed
    <3>2. ctx'[c] = ctx[c] /\ stack'[c] = stack[c]
      BY <1>5, <1>7, <3>1
    <3> QED BY <1>1, <3>1, <3>2 DEF EtatInv, Base
  <2>3. ASSUME NEW c \in freed' PROVE ctx'[c].etat = "TERMINATED"
    <3>1. ctx[c].etat = "TERMINATED" /\ c \in Contexts
      BY <1>1, <1>2, <2>3 DEF EtatInv, Typed
    <3>2. c # current
      BY <1>3, <3>1
    <3> QED BY <1>7, <3>1, <3>2
  <2> QED BY <1>2, <1>4, <1>5, <2>1, <2>2, <2>3 DEF EtatInv, Base
<1>11. GoInv'
  <2>1. Head(stack'[current]) = t[1]
    BY <1>4, <1>5
  <2> QED BY <1>2, <1>4, <2>1 DEF GoInv, Running, Top
<1>12. TokensBounded'
  <2>1. ASSUME NEW c \in Contexts
        PROVE  ctx'[c].etat = "ACTIVABLE" /\ BaseOf(stack'[c]) = "down"
                 <=> ctx[c].etat = "ACTIVABLE" /\ BaseOf(stack[c]) = "down"
    BY <1>3, <1>5, <1>7 DEF Base
  <2>2. Woken' = Woken
    BY <1>1, <1>5, <1>8, <2>1, WokenBase, WokenBaseNext DEF WokenIn
  <2> DEFINE W == Woken
  <2>3. Cardinality(W) \in Nat /\ Cardinality(holders) \in Nat
    BY <1>1, Counts, WokenBase
  <2>4. Cardinality(holders) + Cardinality(W) <= sem.given
    <3>1. Cardinality(holders) + Cardinality(W)
            + (IF sem.val > 0 THEN sem.val ELSE 0) <= sem.given
      BY <1>1 DEF TokensBounded
    <3> HIDE DEF W
    <3> QED BY <1>2, <1>6, <2>3, <3>1
  <2>5. Cardinality(holders') + Cardinality(W)
          + (IF sem'.val > 0 THEN sem'.val ELSE 0) <= sem'.given
    <3> HIDE DEF W
    <3> QED BY <1>2, <1>6, <2>3, <2>4
  <2> QED BY <2>2, <2>5 DEF TokensBounded
<1>13. WaitersInv'
  <2>1. current \notin Waiting /\ Waiting' = Waiting \cup {current}
    BY <1>3, <1>7 DEF Waiting
  <2>2. \A c \in Waiting : ctx'[c].blocked = ctx[c].blocked
    BY <1>3, <1>7 DEF Waiting
  <2> QED BY <1>1, <1>3, <1>6, <1>7, <2>1, <2>2, WaiterJoins
<1> QED BY <1>5, <1>8, <1>9, <1>10, <1>11, <1>12, <1>13 DEF SchedInv

\* sem_down,
LEMMA SemDownKeeps == ASSUME SchedInv, SemDown PROVE SchedInv'
BY TakeKeeps, BlockKeeps

\* sem_up,
LEMMA SemUpKeeps == ASSUME SchedInv, SemUp PROVE SchedInv'
<1>1. Typed /\ StartInv /\ ShapeInv /\ EtatInv /\ GoInv /\ TokensBounded /\ WaitersInv
  BY DEF SchedInv
<1>2. /\ Running("body") /\ current \in holders /\ holders' = holders \ {current}
      /\ UNCHANGED <<freed, ring, current, stack>>
  BY DEF SemUp
<1>3. /\ mode = "runs" /\ current \in Contexts /\ current # NoCtx /\ Base(current) = "body"
      /\ ctx[current].etat = "ACTIVABLE" /\ Top.at = "body"
  BY <1>1, <1>2, InBody
<1>4. /\ sem \in [val : Int, first : Ptr, given : Tokens] /\ sem.val <= sem.given
      /\ sem.given \in Int /\ sem.val \in Int /\ sem.first \in Ptr
      /\ ctx \in [Contexts -> [etat : Etats, next : Ptr, blocked : Ptr]]
  <2>1. Tokens \subseteq Int
    BY SchedulerAssumption
  <2> QED BY <1>1, <2>1 DEF Typed
<1>5. /\ IsFiniteSet(holders) /\ IsFiniteSet(Woken) /\ Cardinality(holders) \in Nat
      /\ Cardinality(Woken) \in Nat /\ Cardinality(holders') \in Nat
      /\ Cardinality(holders') = Cardinality(holders) - 1
  <2>1. IsFiniteSet(holders) /\ IsFiniteSet(Woken) /\ Cardinality(holders) \in Nat
        /\ Cardinality(Woken) \in Nat
    BY <1>1, Counts, WokenBase
  <2>2. Cardinality(holders \ {current}) = Cardinality(holders) - 1
        /\ IsFiniteSet(holders \ {current})
    BY <1>2, <2>1, FS_RemoveElement
  <2> QED BY <1>2, <2>1, <2>2, FS_CardinalityType
<1> DEFINE W == Woken
<1>6. Cardinality(holders) + Cardinality(W)
        + (IF sem.val > 0 THEN sem.val ELSE 0) <= sem.given
  BY <1>1 DEF TokensBounded
\* What the steps that go on have in common.
<1>7. ASSUME sem' \in [val : Int, first : Ptr, given : Tokens], sem'.val <= sem'.given,
             ctx' \in [Contexts -> [etat : Etats, next : Ptr, blocked : Ptr]],
             \A c \in Contexts : /\ ctx'[c].next = ctx[c].next
                                 /\ \/ ctx'[c].etat = ctx[c].etat
                                    \/ ctx[c].etat = "WAITING" /\ ctx'[c].etat = "ACTIVABLE",
             mode' # "setup"
      PROVE  Typed' /\ StartInv' /\ ShapeInv' /\ EtatInv' /\ GoInv'
  <2>1. Typed'
    BY <1>1, <1>2, <1>7 DEF Typed
  <2>2. StartInv'
    <3>1. \A c \in Contexts : ctx'[c].etat = "none" <=> ctx[c].etat = "none"
      BY <1>7
    <3>2. \A c \in Contexts : ctx[c].etat # "none"
      BY <1>1, <1>3 DEF StartInv
    <3> QED BY <1>1, <1>2, <1>3, <1>7, <3>1, <3>2 DEF StartInv
  <2>3. ShapeInv'
    BY <1>1, <1>2 DEF ShapeInv
  <2>4. EtatInv'
    <3>1. ASSUME NEW c \in Contexts
          PROVE  /\ ctx'[c].etat \in {"none", "READY"} <=> stack'[c] = <<>>
                 /\ ctx'[c].etat = "WAITING" => BaseOf(stack'[c]) = "down"
                 /\ ctx'[c].etat = "TERMINATED" <=> BaseOf(stack'[c]) = "end"
                 /\ ctx'[c].etat = "TERMINATED" => c \in Mortal
      <4>1. CASE ctx'[c].etat = ctx[c].etat
        BY <1>1, <1>2, <4>1 DEF EtatInv, Base
      <4>2. CASE ctx[c].etat = "WAITING" /\ ctx'[c].etat = "ACTIVABLE"
        BY <1>1, <1>2, <4>2 DEF EtatInv, Base
      <4> QED BY <1>7, <4>1, <4>2
    <3>2. \A c \in holders' : ctx'[c].etat = "ACTIVABLE" /\ BaseOf(stack'[c]) = "body"
      BY <1>1, <1>2, <1>7 DEF EtatInv, Base, Typed
    <3>3. \A c \in freed' : ctx'[c].etat = "TERMINATED"
      BY <1>1, <1>2, <1>7 DEF EtatInv, Typed
    <3> QED BY <1>1, <1>2, <3>1, <3>2, <3>3 DEF EtatInv, Base
  <2>5. GoInv'
    BY <1>2, <1>3 DEF GoInv, Running, Top
  <2> QED BY <2>1, <2>2, <2>3, <2>4, <2>5
<1>8. CASE sem.val >= 0
  <2>1. sem' = [sem EXCEPT !.val = @ + 1] /\ mode' = mode /\ ctx' = ctx
    BY <1>8, <1>4 DEF SemUp
  <2>2. /\ sem' \in [val : Int, first : Ptr, given : Tokens] /\ sem'.val = sem.val + 1
        /\ sem'.first = sem.first /\ sem'.given = sem.given
    BY <1>4, <2>1
  <2>3. Woken' = W
    BY <1>2, <2>1 DEF Woken
  <2>4. /\ sem.val + 1 <= sem.given
        /\ Cardinality(holders') + Cardinality(W) + (sem.val + 1) <= sem.given
    <3> HIDE DEF W
    <3>1. Cardinality(W) \in Nat
      BY <1>5 DEF W
    <3> QED BY <1>4, <1>5, <1>6, <1>8, <3>1
  <2>5. Typed' /\ StartInv' /\ ShapeInv' /\ EtatInv' /\ GoInv'
    <3>1. sem'.val <= sem'.given
      BY <2>2, <2>4
    <3> QED BY <1>3, <1>4, <1>7, <2>1, <2>2, <3>1
  <2>6. TokensBounded'
    <3> HIDE DEF W
    <3>1. Cardinality(holders') + Cardinality(W)
            + (IF sem'.val > 0 THEN sem'.val ELSE 0) <= sem'.given
      BY <1>4, <1>8, <2>2, <2>4
    <3> QED BY <2>3, <3>1 DEF TokensBounded
  <2>7. WaitersInv'
    BY <1>1, <2>1, <2>2, WaitersKept
  <2> QED BY <2>5, <2>6, <2>7 DEF SchedInv
<1>9. CASE sem.val < 0 /\ sem.first # NoCtx
  <2> DEFINE a == sem.first
  <2>1. /\ ctx' = [ctx EXCEPT ![a].etat = "ACTIVABLE"] /\ mode' = mode
        /\ sem' = [sem EXCEPT !.first = ctx[a].blocked]
    BY <1>4, <1>9 DEF SemUp
  <2>2. a \in Contexts /\ "ACTIVABLE" \in Etats
    BY <1>4, <1>9 DEF Ptr, Etats
  <2>3. /\ ctx' \in [Contexts -> [etat : Etats, next : Ptr, blocked : Ptr]]
        /\ ctx'[a].etat = "ACTIVABLE"
        /\ \A c \in Contexts : c # a => ctx'[c] = ctx[c]
        /\ \A c \in Contexts : ctx'[c].next = ctx[c].next /\ ctx'[c].blocked = ctx[c].blocked
    <3> HIDE DEF a
    <3> QED BY <1>4, <2>1, <2>2
  <2>4. /\ sem' \in [val : Int, first : Ptr, given : Tokens] /\ sem'.val = sem.val
        /\ sem'.first = ctx[a].blocked /\ sem'.given = sem.given
    BY <1>4, <2>1, <2>2
  <2>5. Waiting' = Waiting \ {a}
    BY <2>2, <2>3 DEF Waiting
  <2>6. WaitersInv' /\ a \in Waiting
    <3>1. \A d \in Waiting : ctx'[d].blocked = ctx[d].blocked
      BY <2>3 DEF Waiting
    <3> QED BY <1>1, <1>9, <2>4, <2>5, <3>1, WaiterLeaves
  <2>7. ctx[a].etat = "WAITING" /\ Base(a) = "down"
    BY <1>1, <2>6 DEF Waiting, EtatInv
  <2>8. Typed' /\ StartInv' /\ ShapeInv' /\ EtatInv' /\ GoInv'
    <3>1. ASSUME NEW c \in Contexts
          PROVE  /\ ctx'[c].next = ctx[c].next
                 /\ \/ ctx'[c].etat = ctx[c].etat
                    \/ ctx[c].etat = "WAITING" /\ ctx'[c].etat = "ACTIVABLE"
      BY <2>3, <2>7
    <3> QED BY <1>3, <1>4, <1>7, <2>1, <2>3, <2>4, <3>1
  <2>9. TokensBounded'
    <3>1. Woken' = W \cup {a} /\ a \notin W
      <4>1. a \notin WokenIn(ctx, stack) /\ WokenIn(ctx', stack') = WokenIn(ctx, stack) \cup {a}
        BY <1>2, <2>2, <2>3, <2>7 DEF WokenIn, Base
      <4> QED BY <1>1, <2>8, <4>1, WokenBase, WokenBaseNext
    <3>2. IsFiniteSet(W) /\ Cardinality(W) \in Nat
      BY <1>5
    <3> HIDE DEF W, a
    <3>3. Cardinality(W \cup {a}) = Cardinality(W) + 1
      BY <3>1, <3>2, FS_AddElement
    <3>4. Cardinality(holders') + Cardinality(W \cup {a})
            + (IF sem'.val > 0 THEN sem'.val ELSE 0) <= sem'.given
      BY <1>4, <1>5, <1>6, <1>9, <2>4, <3>2, <3>3
    <3> QED BY <3>1, <3>4 DEF TokensBounded
  <2> QED BY <2>6, <2>8, <2>9 DEF SchedInv
<1>10. CASE sem.val < 0 /\ sem.first = NoCtx
  <2>1. mode' = "fault" /\ ctx' = ctx /\ sem' = sem
    BY <1>4, <1>10 DEF SemUp
  <2>2. Typed' /\ StartInv' /\ ShapeInv' /\ EtatInv' /\ GoInv'
    BY <1>4, <1>7, <2>1
  <2>3. TokensBounded'
    <3>1. Woken' = W
      BY <1>2, <2>1 DEF Woken
    <3> HIDE DEF W
    <3>2. Cardinality(W) \in Nat
      BY <1>5 DEF W
    <3>3. Cardinality(holders') + Cardinality(W)
            + (IF sem'.val > 0 THEN sem'.val ELSE 0) <= sem'.given
      BY <1>4, <1>5, <1>6, <1>10, <2>1, <3>2
    <3> QED BY <3>1, <3>3 DEF TokensBounded
  <2>4. WaitersInv'
    BY <1>1, <2>1, WaitersKept
  <2> QED BY <2>2, <2>3, <2>4 DEF SchedInv
<1> QED BY <1>4, <1>8, <1>9, <1>10

---------------------------------------------------------------------------
(* The choice of yield. *)

\* A walk along the ring stays among the contexts that were created.
LEMMA MetContexts ==
  ASSUME Typed, StartInv, mode # "setup", current \in Contexts
  PROVE  /\ NextOf \in [Ptr -> Ptr] /\ current \in Ptr
         /\ \A c \in Contexts : NextOf[c] = ctx[c].next /\ NextOf[c] \in Contexts
         /\ Met \in [0 .. K -> Contexts] /\ Met[0] = current
         /\ \A n \in 1 .. K : Met[n] = ctx[Met[n - 1]].next
<1>1. /\ current \in Ptr /\ \A p \in Ptr : p # NoCtx => p \in Contexts
      /\ \A c \in Contexts : c \in Ptr /\ c # NoCtx /\ ctx[c].next \in Contexts
  <2>1. \A c \in Contexts : ctx[c].next \in Contexts
    BY DEF StartInv
  <2> QED BY <2>1, SchedulerAssumption DEF Ptr
<1>2. /\ NextOf \in [Ptr -> Ptr]
      /\ \A c \in Contexts : NextOf[c] = ctx[c].next /\ NextOf[c] \in Contexts
  BY <1>1 DEF NextOf
<1>3. /\ Met \in [0 .. K -> Ptr] /\ Met[0] = current
      /\ \A n \in 1 .. K : Met[n] = NextOf[Met[n - 1]]
  BY <1>1, <1>2, FollowSteps DEF Met
<1> DEFINE S == {n \in 0 .. K : Met[n] \in Contexts}
<1>4. 0 .. K \subseteq S
  <2>1. 0 \in S
    BY <1>3, ContextsCount
  <2>2. \A n \in 0 .. K - 1 : n \in S => n + 1 \in S
    <3> SUFFICES ASSUME NEW n \in 0 .. K - 1, n \in S PROVE n + 1 \in S
      OBVIOUS
    <3>1. n + 1 \in 1 .. K /\ n + 1 \in 0 .. K /\ (n + 1) - 1 = n
      BY ContextsCount
    <3>2. Met[n + 1] = NextOf[Met[n]]
      BY <1>3, <3>1
    <3> QED BY <1>2, <3>1, <3>2
  <2> HIDE DEF S
  <2> QED BY <2>1, <2>2, ContextsCount, IntervalInduction
<1>5. Met \in [0 .. K -> Contexts]
  BY <1>3, <1>4
<1>6. ASSUME NEW n \in 1 .. K PROVE Met[n] = ctx[Met[n - 1]].next
  <2>1. n - 1 \in 0 .. K
    BY ContextsCount
  <2> QED BY <1>2, <1>3, <1>5, <2>1
<1> QED BY <1>1, <1>2, <1>3, <1>5, <1>6

Rounds == {n \in DOMAIN Met \ {0} : Ends(Met, n)}
Last   == Min(Rounds)
Gone   == {n \in 1 .. Last - 1 : Terminated(Met[n])}
Kept   == {n \in 1 .. Last : n \notin Gone}

\* What Choose does, by the names above.
LEMMA ChooseParts ==
  ASSUME Choose
  PROVE  /\ Running("pick") /\ UNCHANGED <<current, sem, holders>>
         /\ \/ /\ Rounds = {} /\ mode' = "stuck" /\ UNCHANGED <<ctx, freed, ring, stack>>
            \/ /\ Rounds # {}
               /\ ctx' = Unlinked(Met, Gone)
               /\ freed' = freed \cup {Met[n] : n \in Gone}
               /\ ring' = IF \E n \in Gone : Met[n] = ring
                          THEN Met[Min({n \in Kept : \E g \in Gone : Met[g] = ring /\ g < n})]
                          ELSE ring
               /\ mode' = IF Runnable(ctx[Met[Last]].etat) THEN mode
                          ELSE IF Met[Last] = current THEN "exit" ELSE "fault"
               /\ stack' = [stack EXCEPT ![current][1] = [at |-> "go", to |-> Met[Last]]]
BY DEF Choose, Rounds, Last, Gone, Kept

\* The rounds that matter, when one ends the loop.
LEMMA LastRound ==
  ASSUME Typed, StartInv, mode # "setup", current \in Contexts, Rounds # {}
  PROVE  /\ Last \in 1 .. K /\ Last \in Rounds /\ \A n \in Rounds : Last <= n
         /\ Gone \subseteq 1 .. K - 1 /\ \A n \in Gone : n < Last
         /\ \A n \in Gone : Met[n] \in Contexts /\ Terminated(Met[n])
         /\ (\E n \in Gone : Met[n] = ring) =>
              \E n \in Kept : /\ \E g \in Gone : Met[g] = ring /\ g < n
                              /\ n = Min({k \in Kept : \E g \in Gone : Met[g] = ring /\ g < k})
<1>1. Met \in [0 .. K -> Contexts] /\ K \in Nat
  BY MetContexts, ContextsCount
<1>2. Rounds \subseteq 1 .. K /\ Rounds \in SUBSET Nat
  BY <1>1 DEF Rounds
<1>3. Last \in Rounds /\ \A n \in Rounds : Last <= n
  BY <1>2, MinOf DEF Last
<1>4. Last \in 1 .. K
  BY <1>2, <1>3
<1>5. Gone \subseteq 1 .. K - 1 /\ \A n \in Gone : n < Last /\ Terminated(Met[n])
  BY <1>1, <1>4 DEF Gone
<1>6. \A n \in Gone : Met[n] \in Contexts
  BY <1>1, <1>5
<1>7. ASSUME NEW g \in Gone, Met[g] = ring
      PROVE  \E n \in Kept : /\ \E h \in Gone : Met[h] = ring /\ h < n
                             /\ n = Min({k \in Kept : \E h \in Gone : Met[h] = ring /\ h < k})
  <2> DEFINE S == {k \in Kept : \E h \in Gone : Met[h] = ring /\ h < k}
  <2>1. Last \in Kept
    BY <1>4, <1>5 DEF Kept
  <2>2. Last \in S
    BY <1>5, <1>7, <2>1
  <2>3. S \in SUBSET Nat
    BY <1>4 DEF Kept
  <2>4. Min(S) \in S
    <3> HIDE DEF S
    <3> QED BY <2>2, <2>3, MinOf
  <2> QED BY <2>4
<1> QED BY <1>3, <1>4, <1>5, <1>6, <1>7

\* What yield makes of the contexts.
LEMMA UnlinkedSets ==
  ASSUME Typed, StartInv, mode # "setup", current \in Contexts, NEW met, NEW gone
  PROVE  LET new == Unlinked(met, gone)
         IN  /\ new \in [Contexts -> [etat : Etats, next : Ptr, blocked : Ptr]]
             /\ \A c \in Contexts :
                  /\ new[c].etat = ctx[c].etat /\ new[c].blocked = ctx[c].blocked
                  /\ new[c].next \in Contexts
                  /\ new[c].next = IF \E n \in gone : met[n - 1] = c
                                   THEN ctx[ctx[c].next].next ELSE ctx[c].next
<1>1. \A c \in Contexts : NextOf[c] = ctx[c].next /\ NextOf[c] \in Contexts /\ c \in Ptr
  BY MetContexts DEF Ptr
<1>2. ctx \in [Contexts -> [etat : Etats, next : Ptr, blocked : Ptr]]
  BY DEF Typed
<1> DEFINE new == Unlinked(met, gone)
<1>3. ASSUME NEW c \in Contexts
      PROVE  /\ new[c] \in [etat : Etats, next : Ptr, blocked : Ptr]
             /\ new[c].etat = ctx[c].etat /\ new[c].blocked = ctx[c].blocked
             /\ new[c].next \in Contexts
             /\ new[c].next = IF \E n \in gone : met[n - 1] = c
                              THEN ctx[ctx[c].next].next ELSE ctx[c].next
  <2> DEFINE q == IF \E n \in gone : met[n - 1] = c THEN NextOf[ctx[c].next] ELSE ctx[c].next
  <2>1. new[c] = [ctx[c] EXCEPT !.next = q]
    BY DEF Unlinked
  <2>2. /\ q \in Contexts /\ q \in Ptr
        /\ q = IF \E n \in gone : met[n - 1] = c THEN ctx[ctx[c].next].next ELSE ctx[c].next
    BY <1>1
  <2>3. ctx[c] \in [etat : Etats, next : Ptr, blocked : Ptr]
    BY <1>2
  <2> HIDE DEF q, new
  <2> QED BY <2>1, <2>2, <2>3
<1>4. new = [c \in Contexts |-> new[c]]
  BY DEF Unlinked
<1> HIDE DEF new
<1>5. new \in [Contexts -> [etat : Etats, next : Ptr, blocked : Ptr]]
  BY <1>3, <1>4
<1> QED BY <1>3, <1>5 DEF new

\* and every turn of the loop of yield.
LEMMA ChooseKeeps == ASSUME SchedInv, Choose PROVE SchedInv'
<1>1. Typed /\ StartInv /\ ShapeInv /\ EtatInv /\ GoInv /\ TokensBounded /\ WaitersInv
  BY DEF SchedInv
<1>2. mode = "runs" /\ current # NoCtx /\ Top.at = "pick" /\ UNCHANGED <<current, sem, holders>>
  BY ChooseParts DEF Running
<1>3. /\ current \in Contexts /\ stack[current] \in Seq(Frames) /\ stack[current] # <<>>
      /\ Shaped(stack[current], TRUE) /\ Top = stack[current][1]
  BY <1>1, <1>2, CurrentFacts
<1>4. CASE Rounds = {}
  <2>1. mode' = "stuck" /\ UNCHANGED <<ctx, freed, ring, stack>>
    BY <1>4, ChooseParts
  <2>2. Typed' /\ StartInv' /\ ShapeInv' /\ EtatInv' /\ GoInv'
    BY <1>1, <1>2, <2>1 DEF Typed, StartInv, ShapeInv, EtatInv, Base, GoInv, Running
  <2>3. TokensBounded' /\ WaitersInv'
    BY <1>1, <1>2, <2>1, <2>2, TokensKept, WaitersKept
  <2> QED BY <2>2, <2>3 DEF SchedInv
<1>5. CASE Rounds # {}
  <2> DEFINE p == Met[Last]
             f == [at |-> "go", to |-> p]
             t == [stack[current] EXCEPT ![1] = f]
  <2>1. /\ ctx' = Unlinked(Met, Gone)
        /\ freed' = freed \cup {Met[n] : n \in Gone}
        /\ ring' = IF \E n \in Gone : Met[n] = ring
                   THEN Met[Min({n \in Kept : \E g \in Gone : Met[g] = ring /\ g < n})]
                   ELSE ring
        /\ mode' = IF Runnable(ctx[p].etat) THEN mode
                   ELSE IF p = current THEN "exit" ELSE "fault"
        /\ stack' = [stack EXCEPT ![current][1] = f]
    BY <1>5, ChooseParts
  <2>2. /\ Last \in 1 .. K /\ Gone \subseteq 1 .. K - 1
        /\ \A n \in Gone : Met[n] \in Contexts /\ Terminated(Met[n])
        /\ (\E n \in Gone : Met[n] = ring) =>
              \E n \in Kept : /\ \E g \in Gone : Met[g] = ring /\ g < n
                              /\ n = Min({k \in Kept : \E g \in Gone : Met[g] = ring /\ g < k})
    BY <1>1, <1>2, <1>3, <1>5, LastRound
  <2>3. Met \in [0 .. K -> Contexts] /\ K \in Nat
    BY <1>1, <1>2, <1>3, MetContexts, ContextsCount
  <2>4. p \in Contexts
    BY <2>2, <2>3
  <2>5. ring' \in Contexts
    <3>1. ring \in Contexts
      BY <1>1, <1>2, <1>3 DEF StartInv
    <3>2. CASE \E n \in Gone : Met[n] = ring
      <4>1. PICK n \in Kept :
              n = Min({k \in Kept : \E g \in Gone : Met[g] = ring /\ g < k})
        BY <2>2, <3>2
      <4>2. ring' = Met[n]
        BY <2>1, <3>2, <4>1
      <4>3. n \in 0 .. K
        BY <2>2, <2>3 DEF Kept
      <4> QED BY <2>3, <4>2, <4>3
    <3>3. CASE ~\E n \in Gone : Met[n] = ring
      BY <2>1, <3>1, <3>3
    <3> QED BY <3>2, <3>3
  <2>6. /\ ctx' \in [Contexts -> [etat : Etats, next : Ptr, blocked : Ptr]]
        /\ \A c \in Contexts : /\ ctx'[c].etat = ctx[c].etat /\ ctx'[c].blocked = ctx[c].blocked
                               /\ ctx'[c].next \in Contexts
    BY <1>1, <1>2, <1>3, <2>1, UnlinkedSets
  <2>7. freed' \subseteq Contexts /\ \A c \in freed' : ctx[c].etat = "TERMINATED"
    BY <1>1, <2>1, <2>2 DEF Terminated, EtatInv, Typed
  <2>8. t \in Seq(Frames) /\ t # <<>> /\ Shaped(t, TRUE) /\ BaseOf(t) = BaseOf(stack[current])
        /\ t[1] = f
    <3>1. f \in Frames /\ f.at = "go" /\ TRUE \in BOOLEAN
      BY <2>4, FrameTyped DEF Ptr
    <3>2. stack[current][1].at # "body"
      BY <1>2, <1>3
    <3> HIDE DEF f
    <3> QED BY <1>3, <3>1, <3>2, TopShaped
  <2>9. stack' = [stack EXCEPT ![current] = t]
    <3> HIDE DEF f
    <3> QED BY <1>1, <1>3, <2>1 DEF Typed
  <2>10. f.at = "go" /\ f.to = p
    OBVIOUS
  <2> HIDE DEF t, f, p
  <2>11. /\ stack' \in [Contexts -> Seq(Frames)] /\ ShapeInv' /\ stack'[current] = t
         /\ \A c \in Contexts : c # current => stack'[c] = stack[c]
    BY <1>1, <1>2, <1>3, <2>8, <2>9, OwnStack
  <2>12. \A c \in Contexts : /\ BaseOf(stack'[c]) = BaseOf(stack[c])
                             /\ stack'[c] = <<>> <=> stack[c] = <<>>
    BY <1>3, <2>8, <2>11
  <2>13. mode' # "setup" /\ (mode' = "runs" => Runnable(ctx[p].etat))
    BY <1>2, <2>1
  <2>14. Typed'
    BY <1>1, <1>2, <2>5, <2>6, <2>7, <2>11 DEF Typed, Ptr
  <2>15. StartInv'
    <3>1. \A c \in Contexts : ctx[c].etat # "none"
      BY <1>1, <1>2 DEF StartInv
    <3> QED BY <1>2, <2>5, <2>6, <2>13, <3>1 DEF StartInv
  <2>16. EtatInv'
    <3>1. ASSUME NEW c \in Contexts
          PROVE  /\ ctx'[c].etat \in {"none", "READY"} <=> stack'[c] = <<>>
                 /\ ctx'[c].etat = "WAITING" => BaseOf(stack'[c]) = "down"
                 /\ ctx'[c].etat = "TERMINATED" <=> BaseOf(stack'[c]) = "end"
                 /\ ctx'[c].etat = "TERMINATED" => c \in Mortal
      BY <1>1, <2>6, <2>12 DEF EtatInv, Base
    <3>2. \A c \in holders' : ctx'[c].etat = "ACTIVABLE" /\ BaseOf(stack'[c]) = "body"
      BY <1>1, <1>2, <2>6, <2>12 DEF EtatInv, Base, Typed
    <3>3. \A c \in freed' : ctx'[c].etat = "TERMINATED"
      BY <2>6, <2>7
    <3> QED BY <1>2, <2>8, <2>11, <3>1, <3>2, <3>3 DEF EtatInv, Base
  <2>17. GoInv'
    <3>1. Head(stack'[current]) = f
      BY <2>8, <2>11
    <3> QED BY <1>2, <2>4, <2>6, <2>10, <2>13, <3>1 DEF GoInv, Running, Top
  <2>18. TokensBounded' /\ WaitersInv'
    BY <1>1, <1>2, <2>6, <2>11, <2>12, <2>14, TokensKept, WaitersKept
  <2> QED BY <2>11, <2>14, <2>15, <2>16, <2>17, <2>18 DEF SchedInv
<1> QED BY <1>4, <1>5

---------------------------------------------------------------------------
(* Theorems for any contexts that end. *)

\* So does every step, as long as no alarm hits a switch.
LEMMA SchedInvNext == SchedInv /\ [CalmNext]_schedVars => SchedInv'
<1> SUFFICES ASSUME SchedInv, [CalmNext]_schedVars PROVE SchedInv'
  OBVIOUS
<1>1. CASE UNCHANGED schedVars
  <2>1. Typed /\ StartInv /\ ShapeInv /\ EtatInv /\ GoInv /\ TokensBounded /\ WaitersInv
    BY DEF SchedInv
  <2>2. Typed' /\ StartInv' /\ ShapeInv' /\ EtatInv' /\ GoInv'
    BY <1>1, <2>1 DEF schedVars, Typed, StartInv, ShapeInv, EtatInv, Base, GoInv, Running, Top
  <2>3. TokensBounded' /\ WaitersInv'
    BY <1>1, <2>1, <2>2, TokensKept, WaitersKept DEF schedVars
  <2> QED BY <2>2, <2>3 DEF SchedInv
<1>2. CASE CalmNext
  BY <1>2, CreateKeeps, LaunchKeeps, ChooseKeeps, GoKeeps, EndKeeps, SemDownKeeps, SemUpKeeps,
     FirstTickKeeps, TickKeeps DEF CalmNext, Setup, Code
<1> QED BY <1>1, <1>2

\* The invariant holds in every such run.
LEMMA SchedInvariant == CalmSpec => []SchedInv
BY SchedInvInit, SchedInvNext, PTL DEF CalmSpec

\* No token is made, however many contexts there are, wait and end.
THEOREM NoTokenIsMade == CalmSpec => []TokensBounded
<1>1. SchedInv => TokensBounded
  BY DEF SchedInv
<1> QED BY <1>1, SchedInvariant, PTL

\* The contexts that wait are those on the list of the semaphore, each once.
THEOREM WaitersStayLinked == CalmSpec => []WaitersLinked
<1>1. SchedInv => WaitersLinked
  BY WaitersFollowed DEF SchedInv
<1> QED BY <1>1, SchedInvariant, PTL

\* Unless a tick comes between the choice of yield and the switch, the context it
\* switches to has not ended (the comment at TP3.c:115).
THEOREM CalmTargetAlive == CalmSpec => []TargetAlive
<1>1. SchedInv => TargetAlive
  BY DEF SchedInv, GoInv, TargetAlive, Runnable
<1> QED BY <1>1, SchedInvariant, PTL

---------------------------------------------------------------------------
(* The ring, as long as no yield frees neighbours. *)

\* f goes round S along next, from c.
Cycle(f, n, c, S, next) ==
  /\ f \in [0 .. n -> S] /\ f[0] = c /\ f[n] = c
  /\ \A i \in 0 .. n - 1 : next[f[i]] = f[i + 1]
  /\ \A i, j \in 0 .. n - 1 : f[i] = f[j] => i = j
  /\ \A d \in S : \E i \in 0 .. n - 1 : f[i] = d

Round(c, S, next) == \E n \in Nat \ {0} : \E f \in [0 .. n -> S] : Cycle(f, n, c, S, next)

Members == {c \in Contexts : ctx[c].etat # "none"} \ freed

\* The contexts created and not freed are on one ring, and ctx_ring and
\* current_ctx are among them.
RingInv ==
  /\ \A c \in Members : Round(c, Members, NextOf)
  /\ ring # NoCtx => ring \in Members
  /\ current # NoCtx => current \in Members
  /\ mode \in {"setup", "runs", "exit", "fault"}

\* A ring may be gone round from any of its places.
LEMMA CycleFrom ==
  ASSUME NEW S, NEW next, NEW c, Round(c, S, next), NEW d \in S
  PROVE  Round(d, S, next)
<1>1. PICK n \in Nat \ {0} : \E f \in [0 .. n -> S] : Cycle(f, n, c, S, next)
  BY DEF Round
<1>2. PICK f \in [0 .. n -> S] : Cycle(f, n, c, S, next)
  BY <1>1
<1>3. /\ f[0] = c /\ f[n] = c
      /\ \A i \in 0 .. n - 1 : next[f[i]] = f[i + 1]
      /\ \A i, j \in 0 .. n - 1 : f[i] = f[j] => i = j
      /\ \A e \in S : \E i \in 0 .. n - 1 : f[i] = e
  BY <1>2 DEF Cycle
<1>4. PICK k \in 0 .. n - 1 : f[k] = d
  BY <1>3
<1> DEFINE at(i) == IF i + k < n THEN i + k ELSE i + k - n
           h     == [i \in 0 .. n |-> f[at(i)]]
<1>5. \A i \in 0 .. n : at(i) \in 0 .. n /\ h[i] = f[at(i)]
  OBVIOUS
<1>6. h \in [0 .. n -> S] /\ h[0] = d /\ h[n] = d
  BY <1>4, <1>5
<1>7. \A i \in 0 .. n - 1 : at(i) \in 0 .. n - 1
  OBVIOUS
<1>8. \A i, j \in 0 .. n - 1 : at(i) = at(j) => i = j
  OBVIOUS
<1>9. \A i \in 0 .. n - 1 : i + 1 \in 0 .. n /\ (at(i + 1) = at(i) + 1 \/ (at(i) = n - 1 /\ at(i + 1) = 0))
  OBVIOUS
<1>10. \A j \in 0 .. n - 1 : \E i \in 0 .. n - 1 : at(i) = j
  <2> SUFFICES ASSUME NEW j \in 0 .. n - 1 PROVE \E i \in 0 .. n - 1 : at(i) = j
    OBVIOUS
  <2>1. CASE j >= k
    <3>1. j - k \in 0 .. n - 1 /\ at(j - k) = j
      BY <2>1
    <3> QED BY <3>1
  <2>2. CASE j < k
    <3>1. j + n - k \in 0 .. n - 1 /\ at(j + n - k) = j
      BY <2>2
    <3> QED BY <3>1
  <2> QED BY <2>1, <2>2
<1> HIDE DEF at, h
<1>11. ASSUME NEW i \in 0 .. n - 1 PROVE next[h[i]] = h[i + 1]
  <2>1. h[i] = f[at(i)] /\ h[i + 1] = f[at(i + 1)] /\ next[f[at(i)]] = f[at(i) + 1]
    <3>1. i \in 0 .. n /\ i + 1 \in 0 .. n /\ at(i) \in 0 .. n - 1
      BY <1>7, <1>9
    <3>2. h[i] = f[at(i)] /\ h[i + 1] = f[at(i + 1)]
      BY <1>5, <3>1
    <3>3. next[f[at(i)]] = f[at(i) + 1]
      BY <1>3, <3>1
    <3> QED BY <3>2, <3>3
  <2>2. CASE at(i + 1) = at(i) + 1
    BY <2>1, <2>2
  <2>3. CASE at(i) = n - 1 /\ at(i + 1) = 0
    <3>1. at(i) + 1 = n
      BY <2>3
    <3> QED BY <1>3, <2>1, <2>3, <3>1
  <2> QED BY <1>9, <2>2, <2>3
<1>12. ASSUME NEW i \in 0 .. n - 1, NEW j \in 0 .. n - 1, h[i] = h[j] PROVE i = j
  <2>1. f[at(i)] = f[at(j)] /\ at(i) \in 0 .. n - 1 /\ at(j) \in 0 .. n - 1
    BY <1>5, <1>7, <1>12
  <2> QED BY <1>3, <1>8, <2>1
<1>13. ASSUME NEW e \in S PROVE \E i \in 0 .. n - 1 : h[i] = e
  <2>1. PICK j \in 0 .. n - 1 : f[j] = e
    BY <1>3
  <2>2. PICK i \in 0 .. n - 1 : at(i) = j
    BY <1>10
  <2>3. i \in 0 .. n
    BY <2>2
  <2>4. h[i] = f[j]
    BY <1>5, <2>2, <2>3
  <2> QED BY <2>1, <2>4
<1>14. Cycle(h, n, d, S, next)
  BY <1>6, <1>11, <1>12, <1>13 DEF Cycle
<1> QED BY <1>6, <1>14 DEF Round

\* create_ctx puts a behind c.
LEMMA CycleGrows ==
  ASSUME NEW S, NEW next, NEW new, NEW c \in S, NEW a, a \notin S, Round(c, S, next),
         new[c] = a, new[a] = next[c], \A d \in S \ {c} : new[d] = next[d]
  PROVE  Round(c, S \cup {a}, new)
<1>1. PICK n \in Nat \ {0} : \E f \in [0 .. n -> S] : Cycle(f, n, c, S, next)
  BY DEF Round
<1>2. PICK f \in [0 .. n -> S] : Cycle(f, n, c, S, next)
  BY <1>1
<1>3. /\ f[0] = c /\ f[n] = c
      /\ \A i \in 0 .. n - 1 : next[f[i]] = f[i + 1]
      /\ \A i, j \in 0 .. n - 1 : f[i] = f[j] => i = j
      /\ \A e \in S : \E i \in 0 .. n - 1 : f[i] = e
  BY <1>2 DEF Cycle
<1> DEFINE m == n + 1
           h == [i \in 0 .. m |-> IF i = 0 THEN c ELSE IF i = 1 THEN a ELSE f[i - 1]]
<1>4. m \in Nat \ {0} /\ m = n + 1 /\ n \in Nat \ {0}
  OBVIOUS
<1>5. h[0] = c /\ h[1] = a /\ \A i \in 2 .. m : i - 1 \in 1 .. n /\ h[i] = f[i - 1]
  OBVIOUS
<1>6. h \in [0 .. m -> S \cup {a}]
  <2>1. \A i \in 0 .. m : i # 0 => i - 1 \in 0 .. n
    OBVIOUS
  <2> QED BY <2>1
<1> HIDE DEF h, m
<1>7. h[m] = c
  BY <1>3, <1>4, <1>5
<1>8. ASSUME NEW i \in 0 .. m - 1 PROVE new[h[i]] = h[i + 1]
  <2>1. CASE i = 0
    BY <1>5, <2>1
  <2>2. CASE i = 1
    <3>1. h[2] = f[1] /\ next[f[0]] = f[0 + 1]
      BY <1>3, <1>4, <1>5
    <3> QED BY <1>3, <1>5, <2>2, <3>1
  <2>3. CASE i # 0 /\ i # 1
    <3>1. i - 1 \in 1 .. n - 1 /\ h[i] = f[i - 1] /\ h[i + 1] = f[(i - 1) + 1]
      BY <1>4, <1>5, <2>3
    <3> DEFINE k == i - 1
    <3>2. k \in 0 .. n - 1 /\ k # 0 /\ k \in 0 .. n /\ 0 \in 0 .. n - 1
      BY <1>4, <3>1
    <3>3. h[i] = f[k] /\ h[i + 1] = f[k + 1]
      BY <3>1
    <3> HIDE DEF k
    <3>4. next[f[k]] = f[k + 1] /\ f[k] # f[0] /\ f[k] \in S
      BY <1>3, <3>2
    <3> QED BY <1>3, <3>3, <3>4
  <2> QED BY <2>1, <2>2, <2>3
<1>9. ASSUME NEW i \in 0 .. m - 1, NEW j \in 0 .. m - 1, h[i] = h[j] PROVE i = j
  <2>1. \A k \in 0 .. m - 1 : k # 0 /\ k # 1 =>
          k - 1 \in 1 .. n - 1 /\ h[k] = f[k - 1] /\ h[k] # c /\ h[k] # a
    <3>1. ASSUME NEW k \in 0 .. m - 1, k # 0, k # 1
          PROVE  k - 1 \in 1 .. n - 1 /\ h[k] = f[k - 1] /\ h[k] # c /\ h[k] # a
      <4>1. k - 1 \in 1 .. n - 1 /\ h[k] = f[k - 1]
        BY <1>4, <1>5, <3>1
      <4>2. f[k - 1] # f[0] /\ f[k - 1] \in S
        BY <1>3, <4>1
      <4> QED BY <1>3, <4>1, <4>2
    <3> QED BY <3>1
  <2>2. CASE i \in {0, 1} \/ j \in {0, 1}
    BY <1>5, <1>9, <2>1, <2>2
  <2>3. CASE i \notin {0, 1} /\ j \notin {0, 1}
    <3>1. i - 1 \in 1 .. n - 1 /\ j - 1 \in 1 .. n - 1 /\ f[i - 1] = f[j - 1]
      BY <1>9, <2>1, <2>3
    <3>2. i - 1 = j - 1
      BY <1>3, <3>1
    <3> QED BY <3>2
  <2> QED BY <2>2, <2>3
<1>10. ASSUME NEW e \in S \cup {a} PROVE \E i \in 0 .. m - 1 : h[i] = e
  <2>1. CASE e = a \/ e = c
    <3>1. 0 \in 0 .. m - 1 /\ 1 \in 0 .. m - 1
      BY <1>4
    <3> QED BY <1>5, <2>1, <3>1
  <2>2. CASE e # a /\ e # c
    <3>1. PICK i \in 0 .. n - 1 : f[i] = e
      BY <1>3, <2>2
    <3>2. i # 0
      BY <1>3, <2>2, <3>1
    <3>3. i + 1 \in 2 .. m /\ i + 1 \in 0 .. m - 1 /\ (i + 1) - 1 = i
      BY <1>4, <3>2
    <3> QED BY <1>5, <3>1, <3>3
  <2> QED BY <2>1, <2>2
<1>11. Cycle(h, m, c, S \cup {a}, new)
  BY <1>5, <1>6, <1>7, <1>8, <1>9, <1>10 DEF Cycle
<1> QED BY <1>4, <1>6, <1>11 DEF Round

\* The links new lead round place g and are those of next otherwise.
Skips(f, g, S, next, new) ==
  /\ new[f[g - 1]] = next[f[g]]
  /\ \A d \in S \ {f[g - 1], f[g]} : new[d] = next[d]

\* yield takes the context in place g out.
LEMMA CycleShrinks ==
  ASSUME NEW S, NEW next, NEW new, NEW c, NEW n \in Nat \ {0}, NEW f, Cycle(f, n, c, S, next),
         NEW g \in 1 .. n - 1, Skips(f, g, S, next, new)
  PROVE  Round(c, S \ {f[g]}, new)
<1>1. /\ f \in [0 .. n -> S] /\ f[0] = c /\ f[n] = c
      /\ \A i \in 0 .. n - 1 : next[f[i]] = f[i + 1]
      /\ \A i, j \in 0 .. n - 1 : f[i] = f[j] => i = j
      /\ \A e \in S : \E i \in 0 .. n - 1 : f[i] = e
  BY DEF Cycle
<1> DEFINE T == S \ {f[g]}
           m == n - 1
           at(i) == IF i < g THEN i ELSE i + 1
           h == [i \in 0 .. m |-> f[at(i)]]
<1>2. m \in Nat \ {0} /\ n = m + 1 /\ g \in 1 .. m
  OBVIOUS
<1>3. \A i \in 0 .. m : at(i) \in 0 .. n /\ at(i) # g /\ h[i] = f[at(i)]
  OBVIOUS
<1>4. \A i \in 0 .. m - 1 : at(i) \in 0 .. n - 1
  OBVIOUS
<1>5. \A i, j \in 0 .. m - 1 : at(i) = at(j) => i = j
  OBVIOUS
<1>6. \A i \in 0 .. m - 1 : \/ at(i) # g - 1 /\ at(i + 1) = at(i) + 1
                            \/ at(i) = g - 1 /\ at(i + 1) = g + 1
  OBVIOUS
<1>7. at(0) = 0 /\ at(m) = n
  BY <1>2
<1>8. ASSUME NEW j \in 0 .. n - 1, j # g PROVE \E i \in 0 .. m - 1 : at(i) = j
  <2>1. CASE j < g
    <3>1. j \in 0 .. m - 1 /\ at(j) = j
      BY <1>2, <2>1
    <3> QED BY <3>1
  <2>2. CASE j > g
    <3>1. j - 1 \in 0 .. m - 1 /\ at(j - 1) = j
      BY <1>2, <2>2
    <3> QED BY <3>1
  <2> QED BY <1>8, <2>1, <2>2
<1>9. \A j \in 0 .. n : j # g => f[j] # f[g]
  <2> SUFFICES ASSUME NEW j \in 0 .. n, j # g PROVE f[j] # f[g]
    OBVIOUS
  <2>1. CASE j = n
    <3>1. f[0] # f[g]
      BY <1>1, <1>2
    <3> QED BY <1>1, <2>1, <3>1
  <2>2. CASE j # n
    BY <1>1, <1>2, <2>2
  <2> QED BY <2>1, <2>2
<1> HIDE DEF m
<1>10. h \in [0 .. m -> T] /\ h[0] = c /\ h[m] = c
  <2>1. \A i \in 0 .. m : f[at(i)] \in T
    <3> HIDE DEF at
    <3> QED BY <1>1, <1>3, <1>9
  <2>2. h[0] = f[at(0)] /\ h[m] = f[at(m)]
    BY <1>2, <1>3
  <2> HIDE DEF at, T
  <2> QED BY <1>1, <1>7, <2>1, <2>2
<1> HIDE DEF at, h
<1>11. ASSUME NEW i \in 0 .. m - 1 PROVE new[h[i]] = h[i + 1]
  <2>1. i \in 0 .. m /\ i + 1 \in 0 .. m
    BY <1>2
  <2>2. h[i] = f[at(i)] /\ h[i + 1] = f[at(i + 1)] /\ at(i) \in 0 .. n - 1 /\ at(i) # g
    BY <1>3, <1>4, <2>1
  <2>3. CASE at(i) = g - 1 /\ at(i + 1) = g + 1
    <3>1. g \in 0 .. n - 1
      BY <1>2
    <3>2. next[f[g]] = f[g + 1]
      BY <1>1, <3>1
    <3>3. new[f[g - 1]] = next[f[g]]
      BY DEF Skips
    <3> QED BY <2>2, <2>3, <3>2, <3>3
  <2>4. CASE at(i) # g - 1 /\ at(i + 1) = at(i) + 1
    <3>1. f[at(i)] \in S \ {f[g - 1], f[g]}
      <4>1. g \in 0 .. n - 1 /\ g - 1 \in 0 .. n - 1
        OBVIOUS
      <4>2. f[at(i)] # f[g] /\ f[at(i)] # f[g - 1]
        BY <1>1, <2>2, <2>4, <4>1
      <4>3. f[at(i)] \in S
        BY <1>1, <2>2
      <4> QED BY <4>2, <4>3
    <3>2. new[f[at(i)]] = next[f[at(i)]]
      BY <3>1 DEF Skips
    <3>3. next[f[at(i)]] = f[at(i) + 1]
      BY <1>1, <2>2
    <3> QED BY <2>2, <2>4, <3>2, <3>3
  <2> QED BY <1>6, <2>3, <2>4
<1>12. ASSUME NEW i \in 0 .. m - 1, NEW j \in 0 .. m - 1, h[i] = h[j] PROVE i = j
  <2>1. f[at(i)] = f[at(j)] /\ at(i) \in 0 .. n - 1 /\ at(j) \in 0 .. n - 1
    BY <1>2, <1>3, <1>4, <1>12
  <2> QED BY <1>1, <1>5, <2>1
<1>13. ASSUME NEW e \in T PROVE \E i \in 0 .. m - 1 : h[i] = e
  <2>1. PICK j \in 0 .. n - 1 : f[j] = e
    BY <1>1
  <2>2. PICK i \in 0 .. m - 1 : at(i) = j
    BY <1>8, <2>1
  <2>3. i \in 0 .. m
    BY <1>2
  <2> QED BY <1>3, <2>1, <2>2, <2>3
<1>14. Cycle(h, m, c, T, new)
  BY <1>10, <1>11, <1>12, <1>13 DEF Cycle
<1> QED BY <1>2, <1>10, <1>14 DEF Round

\* A ring is gone round by any links that agree on it.
LEMMA RoundAgrees ==
  ASSUME NEW S, NEW next, NEW new, NEW c, Round(c, S, next), \A d \in S : new[d] = next[d]
  PROVE  Round(c, S, new)
<1>1. PICK n \in Nat \ {0} : \E f \in [0 .. n -> S] : Cycle(f, n, c, S, next)
  BY DEF Round
<1>2. PICK f \in [0 .. n -> S] : Cycle(f, n, c, S, next)
  BY <1>1
<1>3. ASSUME NEW i \in 0 .. n - 1 PROVE new[f[i]] = f[i + 1]
  <2>1. f[i] \in S /\ next[f[i]] = f[i + 1]
    BY <1>2 DEF Cycle
  <2> QED BY <2>1
<1>4. Cycle(f, n, c, S, new)
  BY <1>2, <1>3 DEF Cycle
<1> QED BY <1>4 DEF Round

\* A ring without q, when p before it takes its link over.
LEMMA RoundShrinks ==
  ASSUME NEW S, NEW next, NEW new, NEW c, Round(c, S, next),
         NEW p \in S, NEW q \in S, q # c, next[p] = q, new[p] = next[q],
         \A d \in S \ {p, q} : new[d] = next[d]
  PROVE  Round(c, S \ {q}, new)
<1>1. PICK n \in Nat \ {0} : \E f \in [0 .. n -> S] : Cycle(f, n, c, S, next)
  BY DEF Round
<1>2. PICK f \in [0 .. n -> S] : Cycle(f, n, c, S, next)
  BY <1>1
<1>3. /\ f[0] = c /\ f[n] = c
      /\ \A i \in 0 .. n - 1 : next[f[i]] = f[i + 1]
      /\ \A i, j \in 0 .. n - 1 : f[i] = f[j] => i = j
      /\ \A d \in S : \E i \in 0 .. n - 1 : f[i] = d
  BY <1>2 DEF Cycle
<1>4. PICK g \in 0 .. n - 1 : f[g] = q
  BY <1>3
<1>5. PICK i \in 0 .. n - 1 : f[i] = p
  BY <1>3
<1>6. g \in 1 .. n - 1 /\ f[i + 1] = q
  <2>1. g # 0
    BY <1>3, <1>4
  <2>2. next[f[i]] = f[i + 1] /\ next[f[i]] = q
    BY <1>3, <1>5
  <2> QED BY <2>1, <2>2
<1>7. i + 1 = g
  <2>1. i + 1 # n
    BY <1>3, <1>6
  <2>2. i + 1 \in 0 .. n - 1
    BY <2>1
  <2> QED BY <1>3, <1>4, <1>6, <2>2
<1>8. f[g - 1] = p
  BY <1>5, <1>7
<1>9. Skips(f, g, S, next, new)
  BY <1>4, <1>8 DEF Skips
<1>10. Round(c, S \ {f[g]}, new)
  BY <1>1, <1>2, <1>6, <1>9, CycleShrinks
<1> QED BY <1>4, <1>10

\* yield takes the contexts in the places gone out, none behind another.
LEMMA RoundThinned ==
  ASSUME NEW S, NEW next, NEW new, NEW c, NEW n \in Nat \ {0}, NEW f, Cycle(f, n, c, S, next),
         NEW gone \in SUBSET (1 .. n - 1), \A k \in gone : k - 1 \notin gone,
         \A d \in S : new[d] = IF \E k \in gone : f[k - 1] = d
                              THEN next[next[d]] ELSE next[d]
  PROVE  Round(c, S \ {f[k] : k \in gone}, new)
<1> DEFINE Left(j) == S \ {f[k] : k \in {i \in gone : i <= j}}
           Link(j) == [d \in S |-> IF \E k \in gone : k <= j /\ f[k - 1] = d
                                  THEN next[next[d]] ELSE next[d]]
           T == {j \in 0 .. n - 1 : Round(c, Left(j), Link(j))}
<1>1. /\ f \in [0 .. n -> S] /\ f[0] = c
      /\ \A i \in 0 .. n - 1 : next[f[i]] = f[i + 1]
      /\ \A i, j \in 0 .. n - 1 : f[i] = f[j] => i = j
  BY DEF Cycle
<1>2. Round(c, S, next)
  BY <1>1 DEF Round
<1>3. Round(c, Left(0), Link(0))
  <2>1. Left(0) = S /\ \A d \in S : Link(0)[d] = next[d]
    OBVIOUS
  <2> HIDE DEF Left, Link
  <2>2. Round(c, S, Link(0))
    BY <1>2, <2>1, RoundAgrees
  <2> QED BY <2>1, <2>2
<1>4. ASSUME NEW j \in 0 .. (n - 1) - 1, Round(c, Left(j), Link(j))
      PROVE  Round(c, Left(j + 1), Link(j + 1))
  <2>1. CASE j + 1 \notin gone
    <3>1. \A k \in gone : k <= j + 1 <=> k <= j
      BY <2>1
    <3>2. Left(j + 1) = Left(j) /\ Link(j + 1) = Link(j)
      BY <3>1
    <3> HIDE DEF Left, Link
    <3> QED BY <1>4, <3>2
  <2>2. CASE j + 1 \in gone
    <3> DEFINE p == f[j]
               q == f[j + 1]
    <3>1. /\ j \in 0 .. n - 1 /\ j + 1 \in 0 .. n - 1 /\ j \notin gone
          /\ 0 \in 0 .. n - 1 /\ \A k \in gone : k \in 0 .. n - 1 /\ k - 1 \in 0 .. n - 1
      <4>1. (j + 1) - 1 \notin gone
        BY <2>2
      <4> QED BY <4>1
    <3>2. p \in S /\ q \in S /\ next[p] = q /\ p # q /\ q # c
      BY <1>1, <3>1
    <3>3. p \in Left(j) /\ q \in Left(j)
      <4>1. \A k \in gone : k <= j => f[k] # f[j] /\ f[k] # f[j + 1]
        BY <1>1, <3>1
      <4> QED BY <3>2, <4>1
    <3>4. \A k \in gone : k <= j => f[k - 1] # p /\ f[k - 1] # q
      <4> SUFFICES ASSUME NEW k \in gone, k <= j PROVE f[k - 1] # p /\ f[k - 1] # q
        OBVIOUS
      <4>1. k - 1 \in 0 .. n - 1 /\ k - 1 # j /\ k - 1 # j + 1
        BY <3>1
      <4> QED BY <1>1, <3>1, <4>1
    <3>5. Link(j)[p] = next[p] /\ Link(j)[q] = next[q]
      BY <3>2, <3>4
    <3>6. Link(j + 1)[p] = next[next[p]]
      <4>1. j + 1 <= j + 1 /\ f[(j + 1) - 1] = p
        OBVIOUS
      <4> HIDE DEF p, q
      <4> QED BY <2>2, <3>2, <4>1
    <3>7. ASSUME NEW d \in S \ {p, q} PROVE Link(j + 1)[d] = Link(j)[d]
      <4>1. \A k \in gone : f[k - 1] = d => (k <= j + 1 <=> k <= j)
        <5> SUFFICES ASSUME NEW k \in gone, f[k - 1] = d PROVE k # j + 1
          BY <3>1
        <5> QED BY <3>7
      <4> QED BY <4>1
    <3>8. Left(j + 1) = Left(j) \ {q}
      <4>1. \A i \in gone : i <= j + 1 <=> (i <= j \/ i = j + 1)
        BY <3>1
      <4>2. \A e \in S : (\E i \in gone : i <= j + 1 /\ f[i] = e)
                       <=> (e = q \/ \E i \in gone : i <= j /\ f[i] = e)
        BY <2>2, <4>1
      <4>3. /\ Left(j + 1) = {e \in S : ~ \E i \in gone : i <= j + 1 /\ f[i] = e}
            /\ Left(j) = {e \in S : ~ \E i \in gone : i <= j /\ f[i] = e}
        OBVIOUS
      <4> HIDE DEF Left, q
      <4> QED BY <4>2, <4>3
    <3>9. Left(j) \subseteq S
      OBVIOUS
    <3> HIDE DEF Left, Link, p, q
    <3>10. Link(j + 1)[p] = Link(j)[q] /\ Link(j)[p] = q
      BY <3>2, <3>5, <3>6
    <3>11. \A d \in Left(j) \ {p, q} : Link(j + 1)[d] = Link(j)[d]
      BY <3>7, <3>9
    <3>12. Round(c, Left(j) \ {q}, Link(j + 1))
      BY <1>4, <3>2, <3>3, <3>10, <3>11, RoundShrinks
    <3> QED BY <3>8, <3>12
  <2> QED BY <2>1, <2>2
<1>5. 0 .. n - 1 \subseteq T
  <2>1. 0 \in T /\ n - 1 \in Nat
    BY <1>3
  <2>2. \A j \in 0 .. (n - 1) - 1 : j \in T => j + 1 \in T
    <3> HIDE DEF Left, Link
    <3> QED BY <1>4
  <2> HIDE DEF T
  <2> QED BY <2>1, <2>2, IntervalInduction
<1>6. Left(n - 1) = S \ {f[k] : k \in gone} /\ \A d \in S : new[d] = Link(n - 1)[d]
  OBVIOUS
<1>7. Round(c, Left(n - 1), Link(n - 1))
  <2>1. n - 1 \in T
    BY <1>5
  <2> HIDE DEF Left, Link
  <2> QED BY <2>1
<1>8. Left(n - 1) \subseteq S
  OBVIOUS
<1> HIDE DEF Left, Link
<1>9. Round(c, Left(n - 1), new)
  BY <1>6, <1>7, <1>8, RoundAgrees
<1> QED BY <1>6, <1>9

\* A step that leaves the ring alone.
LEMMA RingKept ==
  ASSUME RingInv, freed' = freed, ring' = ring,
         \A c \in Contexts : /\ ctx'[c].next = ctx[c].next
                             /\ ctx'[c].etat = "none" <=> ctx[c].etat = "none",
         current' = NoCtx \/ current' \in Members,
         mode' \in {"setup", "runs", "exit", "fault"}
  PROVE  RingInv'
<1>1. Members' = Members
  BY DEF Members
<1>2. NextOf' = NextOf
  BY DEF NextOf, Ptr
<1> QED BY <1>1, <1>2 DEF RingInv

\* create_ctx puts the context into the ring,
LEMMA CreateRing == ASSUME SchedInv, RingInv, NEW c \in Contexts, Create(c) PROVE RingInv'
<1>1. Typed /\ StartInv
  BY DEF SchedInv
<1>2. /\ mode = "setup" /\ ctx[c].etat = "none"
      /\ ctx' \in [Contexts -> [etat : Etats, next : Ptr, blocked : Ptr]]
      /\ \/ ring = NoCtx /\ ring' = c /\ ctx'[c].next = c
         \/ /\ ring \in Contexts /\ ring # c /\ ctx[ring].etat # "none" /\ ring' = ring
            /\ ctx'[c].next = ctx[ring].next /\ ctx'[ring].next = c
            /\ ctx'[ring].etat = ctx[ring].etat
      /\ ctx'[c].etat = "READY"
      /\ \A d \in Contexts \ {c} : /\ ctx'[d].etat = ctx[d].etat
                                   /\ d # ring => ctx'[d] = ctx[d]
      /\ UNCHANGED <<mode, freed, current, sem, stack, holders>>
  BY <1>1, CreateSets
<1>3. freed = {} /\ freed' = {} /\ current' = NoCtx
  BY <1>1, <1>2 DEF StartInv
<1>4. Members' = Members \cup {c} /\ c \notin Members
  BY <1>2, <1>3 DEF Members
<1>5. \A d \in Contexts : /\ d # NoCtx /\ d \in Ptr
                          /\ NextOf[d] = ctx[d].next /\ NextOf'[d] = ctx'[d].next
  BY SchedulerAssumption DEF NextOf, Ptr
<1>6. Round(ring', Members', NextOf') /\ ring' \in Members'
  <2>1. CASE ring = NoCtx
    <3>1. Members = {}
      BY <1>1, <2>1, SchedulerAssumption DEF StartInv, Members
    <3>2. Members' = {c} /\ ring' = c /\ NextOf'[c] = c
      BY <1>2, <1>4, <1>5, <2>1, <3>1, SchedulerAssumption
    <3> DEFINE f == [i \in 0 .. 1 |-> c]
    <3>3. f \in [0 .. 1 -> {c}] /\ \A i \in 0 .. 1 : f[i] = c
      OBVIOUS
    <3> HIDE DEF f
    <3>4. Cycle(f, 1, c, {c}, NextOf')
      BY <3>2, <3>3 DEF Cycle
    <3>5. 1 \in Nat \ {0}
      OBVIOUS
    <3>6. Round(c, {c}, NextOf')
      BY <3>3, <3>4, <3>5 DEF Round
    <3> QED BY <3>2, <3>6
  <2>2. CASE ring # NoCtx
    <3>1. /\ ring \in Contexts /\ ring # c /\ ring' = ring
          /\ ctx'[c].next = ctx[ring].next /\ ctx'[ring].next = c
      BY <1>2, <2>2
    <3>2. ring \in Members /\ Round(ring, Members, NextOf)
      BY <2>2 DEF RingInv
    <3>3. /\ NextOf'[ring] = c /\ NextOf'[c] = NextOf[ring]
          /\ \A d \in Members \ {ring} : NextOf'[d] = NextOf[d]
      BY <1>2, <1>4, <1>5, <3>1 DEF Members
    <3>4. Round(ring, Members \cup {c}, NextOf')
      BY <1>4, <3>2, <3>3, CycleGrows
    <3> QED BY <1>4, <3>1, <3>2, <3>4
  <2> QED BY <2>1, <2>2
<1>7. \A d \in Members' : Round(d, Members', NextOf')
  BY <1>6, CycleFrom
<1> QED BY <1>2, <1>3, <1>6, <1>7 DEF RingInv

\* a switch keeps the ring,
LEMMA SwitchRing ==
  ASSUME SchedInv, RingInv, mode = "runs", NEW t \in Members, NEW saved, SwitchTo(t, saved),
         UNCHANGED <<freed, ring>>
  PROVE  RingInv'
<1>1. Typed
  BY DEF SchedInv
<1>2. t \in Contexts /\ t \notin freed /\ ctx[t].etat # "none"
  BY DEF Members
<1>3. ctx \in [Contexts -> [etat : Etats, next : Ptr, blocked : Ptr]]
  BY <1>1 DEF Typed
<1>4. current' = t /\ mode' \in {"runs", "fault"}
  BY <1>2 DEF SwitchTo
<1>5. ctx' = ctx \/ ctx' = [ctx EXCEPT ![t].etat = "ACTIVABLE"]
  BY <1>2 DEF SwitchTo
<1>6. \A c \in Contexts : /\ ctx'[c].next = ctx[c].next
                          /\ ctx'[c].etat = "none" <=> ctx[c].etat = "none"
  BY <1>2, <1>3, <1>5
<1> QED BY <1>4, <1>6, RingKept

\* The loop of yield goes round the ring from the current context.
LEMMA MetRound ==
  ASSUME Typed, StartInv, RingInv, mode = "runs", current # NoCtx
  PROVE  \E n \in 1 .. K : \E f \in [0 .. n -> Members] :
           Cycle(f, n, current, Members, NextOf) /\ \A i \in 0 .. n : Met[i] = f[i]
<1>1. current \in Members /\ current \in Contexts
  BY DEF RingInv, Members
<1>2. /\ NextOf \in [Ptr -> Ptr] /\ current \in Ptr
  BY <1>1, MetContexts
<1>3. PICK n \in Nat \ {0} : \E f \in [0 .. n -> Members] : Cycle(f, n, current, Members, NextOf)
  BY <1>1 DEF RingInv, Round
<1>4. PICK f \in [0 .. n -> Members] : Cycle(f, n, current, Members, NextOf)
  BY <1>3
<1>5. /\ f[0] = current /\ \A i \in 0 .. n - 1 : NextOf[f[i]] = f[i + 1]
      /\ \A i, j \in 0 .. n - 1 : f[i] = f[j] => i = j
  BY <1>4 DEF Cycle
<1>6. \A i \in 0 .. n - 1 : f[i] \in Contexts
  BY DEF Members
<1>7. n <= K
  BY <1>5, <1>6, WalkBound
<1>8. n \in 0 .. K /\ n \in 1 .. K
  BY <1>7, ContextsCount
<1>9. \A i \in 0 .. n : Met[i] = f[i]
  <2> DEFINE link == NextOf
  <2>1. /\ link \in [Ptr -> Ptr] /\ n \in 0 .. K
        /\ f[0] = current /\ \A i \in 0 .. n - 1 : link[f[i]] = f[i + 1]
    BY <1>2, <1>5, <1>8
  <2>2. Met = Follow(current, link)
    BY DEF Met
  <2> HIDE DEF link
  <2>3. WalksAlong(f, current, link, n)
    BY <2>1 DEF WalksAlong
  <2>4. \A i \in 0 .. n : Follow(current, link)[i] = f[i]
    BY <1>2, <2>1, <2>3, FollowAgrees
  <2> QED BY <2>2, <2>4
<1> QED BY <1>4, <1>8, <1>9

LEMMA ChooseRing == ASSUME FreesApart, SchedInv, RingInv, Choose PROVE RingInv'
<1>1. Typed /\ StartInv /\ EtatInv
  BY DEF SchedInv
<1>2. mode = "runs" /\ current # NoCtx /\ current' = current
  BY ChooseParts DEF Running
<1>3. current \in Contexts /\ current \in Members
  BY <1>2 DEF RingInv, Members
<1>4. PICK n \in 1 .. K : \E f \in [0 .. n -> Members] :
        Cycle(f, n, current, Members, NextOf) /\ \A i \in 0 .. n : Met[i] = f[i]
  BY <1>1, <1>2, MetRound
<1>5. PICK f \in [0 .. n -> Members] :
        Cycle(f, n, current, Members, NextOf) /\ \A i \in 0 .. n : Met[i] = f[i]
  BY <1>4
<1>6. /\ f[0] = current /\ f[n] = current
      /\ \A i \in 0 .. n - 1 : NextOf[f[i]] = f[i + 1]
      /\ \A i, j \in 0 .. n - 1 : f[i] = f[j] => i = j
  BY <1>5 DEF Cycle
<1>7. n \in Nat \ {0} /\ K \in Nat /\ n <= K
  BY ContextsCount
<1>8. n \in Rounds
  <2>1. DOMAIN Met = 0 .. K
    BY <1>1, <1>2, <1>3, MetContexts
  <2>2. Met[n] = Met[0] /\ n \in DOMAIN Met /\ n # 0
    BY <1>5, <1>6, <1>7, <2>1
  <2> QED BY <2>2 DEF Rounds, Ends
<1>9. /\ Last \in 1 .. n /\ Gone \subseteq 1 .. n - 1 /\ \A k \in Gone : k < Last
      /\ \A k \in Gone : Met[k] \in Contexts /\ Terminated(Met[k])
      /\ (\E k \in Gone : Met[k] = ring) =>
            \E k \in Kept : /\ \E g \in Gone : Met[g] = ring /\ g < k
                            /\ k = Min({j \in Kept : \E g \in Gone : Met[g] = ring /\ g < j})
  <2>1. /\ Last \in 1 .. K /\ Last <= n /\ Gone \subseteq 1 .. K - 1
        /\ \A k \in Gone : k < Last
        /\ \A k \in Gone : Met[k] \in Contexts /\ Terminated(Met[k])
        /\ (\E k \in Gone : Met[k] = ring) =>
              \E k \in Kept : /\ \E g \in Gone : Met[g] = ring /\ g < k
                              /\ k = Min({j \in Kept : \E g \in Gone : Met[g] = ring /\ g < j})
    <3>1. Rounds # {} /\ mode # "setup"
      BY <1>2, <1>8
    <3> QED BY <1>1, <1>3, <1>8, <3>1, LastRound
  <2>2. Last \in 1 .. n /\ Gone \subseteq 1 .. n - 1
    BY <1>7, <2>1
  <2> QED BY <2>1, <2>2
<1>10. \A i \in 0 .. n : Met[i] = f[i] /\ Met[i] \in Members
  BY <1>5
<1>11. \A k \in Gone : /\ k \in 0 .. n - 1 /\ k - 1 \in 0 .. n - 1 /\ (k - 1) + 1 = k
                       /\ k \in 0 .. n /\ k - 1 \in 0 .. n /\ Met[k] = f[k]
                       /\ Met[k - 1] = f[k - 1] /\ f[k] \in Members
  BY <1>9, <1>10
<1>12. /\ ctx' = Unlinked(Met, Gone)
       /\ freed' = freed \cup {Met[k] : k \in Gone}
       /\ ring' = IF \E k \in Gone : Met[k] = ring
                  THEN Met[Min({k \in Kept : \E g \in Gone : Met[g] = ring /\ g < k})]
                  ELSE ring
       /\ mode' \in {"runs", "exit", "fault"}
  BY <1>2, <1>8, ChooseParts
<1>13. \A c \in Contexts :
         /\ ctx'[c].etat = ctx[c].etat
         /\ ctx'[c].next = IF \E k \in Gone : Met[k - 1] = c
                           THEN ctx[ctx[c].next].next ELSE ctx[c].next
  BY <1>1, <1>2, <1>3, <1>12, UnlinkedSets
<1>14. \A c \in Contexts : /\ NextOf[c] = ctx[c].next /\ NextOf'[c] = ctx'[c].next
                           /\ c \in Ptr /\ c # NoCtx /\ ctx[c].next \in Contexts
  <2>1. \A c \in Contexts : c \in Ptr /\ c # NoCtx
    BY SchedulerAssumption DEF Ptr
  <2>2. \A c \in Contexts : ctx[c].next \in Contexts
    BY <1>1, <1>2 DEF StartInv
  <2> QED BY <2>1, <2>2 DEF NextOf
<1>15. ring \in Members
  <2>1. ring \in Contexts
    BY <1>1, <1>2, <1>3 DEF StartInv
  <2> QED BY <2>1, SchedulerAssumption DEF RingInv
<1>16. freed' = freed \cup {f[k] : k \in Gone} /\ Members' = Members \ {f[k] : k \in Gone}
  <2>1. freed' = freed \cup {f[k] : k \in Gone}
    BY <1>11, <1>12
  <2> QED BY <1>13, <2>1 DEF Members
<1>17. ASSUME NEW k \in Gone PROVE k - 1 \notin Gone
  <2> SUFFICES ASSUME k - 1 \in Gone PROVE FALSE
    OBVIOUS
  <2> DEFINE b == f[k - 1]
             d == f[k]
  <2>1. b \in freed' \ freed /\ d \in freed' \ freed
    BY <1>11, <1>16 DEF Members
  <2>2. b # d
    BY <1>6, <1>11
  <2>3. ctx[b].next = d
    <3>1. b \in Contexts
      BY <1>11 DEF Members
    <3>2. NextOf[f[k - 1]] = f[(k - 1) + 1]
      BY <1>6, <1>11
    <3> QED BY <1>11, <1>14, <3>1, <3>2
  <2> HIDE DEF b, d
  <2> QED BY <2>1, <2>2, <2>3 DEF FreesApart
<1>18. Round(current, Members', NextOf')
  <2> DEFINE new == NextOf'
             M   == Members'
             link == NextOf
  <2>1. ASSUME NEW d \in Members
        PROVE  new[d] = IF \E k \in Gone : f[k - 1] = d THEN link[link[d]] ELSE link[d]
    <3>1. d \in Contexts /\ ctx[d].next \in Contexts
      BY <1>14 DEF Members
    <3>2. (\E k \in Gone : Met[k - 1] = d) <=> (\E k \in Gone : f[k - 1] = d)
      BY <1>11
    <3> QED BY <1>13, <1>14, <3>1, <3>2
  <2>2. Cycle(f, n, current, Members, link) /\ Gone \in SUBSET (1 .. n - 1)
    BY <1>5, <1>9
  <2>3. M = Members \ {f[k] : k \in Gone}
    BY <1>16
  <2> HIDE DEF new, M, link
  <2>4. Round(current, Members \ {f[k] : k \in Gone}, new)
    BY <1>7, <1>17, <2>1, <2>2, RoundThinned
  <2>5. Round(current, M, new)
    BY <2>3, <2>4
  <2> QED BY <2>5 DEF new, M
<1>19. ASSUME NEW k \in 0 .. n, k \notin Gone PROVE f[k] \in Members'
  <2>1. f[k] \in Members
    BY <1>10
  <2>2. ASSUME NEW g \in Gone PROVE f[k] # f[g]
    <3>1. CASE k = n
      <4>1. 0 \in 0 .. n - 1 /\ g # 0
        BY <1>7, <1>9
      <4> QED BY <1>6, <1>11, <3>1, <4>1
    <3>2. CASE k # n
      BY <1>6, <1>11, <1>19, <3>2
    <3> QED BY <3>1, <3>2
  <2> QED BY <1>16, <2>1, <2>2
<1>20. current \in Members'
  <2>1. 0 \in 0 .. n /\ 0 \notin Gone
    BY <1>7, <1>9
  <2> QED BY <1>6, <1>19, <2>1
<1>21. ring' \in Members'
  <2>1. CASE \E k \in Gone : Met[k] = ring
    <3>1. PICK k \in Kept :
            k = Min({j \in Kept : \E h \in Gone : Met[h] = ring /\ h < j})
      BY <1>9, <2>1
    <3>2. ring' = Met[k]
      BY <1>12, <2>1, <3>1
    <3>3. k \in 0 .. n /\ k \notin Gone
      BY <1>9 DEF Kept
    <3> QED BY <1>10, <1>19, <3>2, <3>3
  <2>2. CASE ~\E k \in Gone : Met[k] = ring
    <3>1. ring' = ring /\ \A k \in Gone : f[k] # ring
      BY <1>11, <1>12, <2>2
    <3> QED BY <1>15, <1>16, <3>1
  <2> QED BY <2>1, <2>2
<1>22. \A d \in Members' : Round(d, Members', NextOf')
  BY <1>18, CycleFrom
<1> QED BY <1>2, <1>12, <1>20, <1>21, <1>22 DEF RingInv

---------------------------------------------------------------------------
(* What follows holds of ApartSpec: Choose takes two neighbours that have     *)
(* ended out of the ring by halves.                                           *)

\* The ring starts empty.
LEMMA RingInvInit == SchedInit => RingInv
BY DEF SchedInit, RingInv, Members

\* Every step keeps it sound.
LEMMA RingInvNext == SchedInv /\ RingInv /\ [CalmNext /\ FreesApart]_schedVars => RingInv'
<1> SUFFICES ASSUME SchedInv, RingInv, [CalmNext /\ FreesApart]_schedVars PROVE RingInv'
  OBVIOUS
<1>1. Typed /\ StartInv /\ ShapeInv /\ EtatInv /\ GoInv
  BY DEF SchedInv
<1>2. /\ current = NoCtx \/ current \in Members
      /\ mode \in {"setup", "runs", "exit", "fault"}
      /\ ctx \in [Contexts -> [etat : Etats, next : Ptr, blocked : Ptr]]
  BY <1>1 DEF RingInv, Typed
<1>3. CASE UNCHANGED schedVars
  BY <1>2, <1>3, RingKept DEF schedVars
<1>4. CASE Launch
  BY <1>2, <1>4, RingKept DEF Launch
<1>5. CASE \E c \in Contexts : Create(c)
  BY <1>5, CreateRing
<1>6. CASE Choose /\ FreesApart
  BY <1>6, ChooseRing
<1>7. CASE Go
  <2>1. mode = "runs" /\ SwitchTo(Top.to, [stack EXCEPT ![current][1] = Frame("away")])
        /\ UNCHANGED <<freed, ring>> /\ Running("go")
    BY <1>7 DEF Go, Running
  <2>2. Top.to \in Contexts /\ Runnable(ctx[Top.to].etat)
    BY <1>1, <2>1 DEF GoInv
  <2>3. Top.to \in Members
    BY <1>1, <2>2 DEF Members, EtatInv, Runnable
  <2> QED BY <2>1, <2>3, SwitchRing
<1>8. CASE End
  <2>1. /\ ctx' = [ctx EXCEPT ![current].etat = "TERMINATED"] /\ Running("body")
        /\ UNCHANGED <<mode, freed, ring, current>>
    BY <1>8 DEF End
  <2>2. ctx[current].etat # "none"
    BY <1>1, <2>1, InBody
  <2>3. \A c \in Contexts : /\ ctx'[c].next = ctx[c].next
                            /\ ctx'[c].etat = "none" <=> ctx[c].etat = "none"
    BY <1>2, <2>1, <2>2
  <2> QED BY <1>2, <2>1, <2>3, RingKept
<1>9. CASE SemDown
  <2>1. /\ ctx' = ctx \/ ctx' = [ctx EXCEPT ![current].etat = "WAITING",
                                            ![current].blocked = sem.first]
        /\ Running("body") /\ UNCHANGED <<mode, freed, ring, current>>
    BY <1>9 DEF SemDown, Blocked
  <2>2. ctx[current].etat # "none"
    BY <1>1, <2>1, InBody
  <2>3. \A c \in Contexts : /\ ctx'[c].next = ctx[c].next
                            /\ ctx'[c].etat = "none" <=> ctx[c].etat = "none"
    <3>1. CASE ctx' = ctx
      BY <3>1
    <3>2. CASE ctx' # ctx
      <4> DEFINE g == [ctx EXCEPT ![current].etat = "WAITING"]
      <4>1. \A c \in Contexts : /\ g[c].next = ctx[c].next
                                /\ g[c].etat = "none" <=> ctx[c].etat = "none"
        BY <1>2, <2>2
      <4>2. g \in [Contexts -> [etat : Etats, next : Ptr, blocked : Ptr]]
        <5>1. "WAITING" \in Etats
          BY DEF Etats
        <5> QED BY <1>2, <5>1
      <4>3. ctx' = [g EXCEPT ![current].blocked = sem.first]
        BY <2>1, <3>2
      <4> HIDE DEF g
      <4> QED BY <4>1, <4>2, <4>3
    <3> QED BY <3>1, <3>2
  <2> QED BY <1>2, <2>1, <2>3, RingKept
<1>10. CASE SemUp
  <2>1. /\ \/ ctx' = ctx
           \/ sem.first # NoCtx /\ ctx' = [ctx EXCEPT ![sem.first].etat = "ACTIVABLE"]
        /\ mode' = mode \/ mode' = "fault"
        /\ mode = "runs" /\ UNCHANGED <<freed, ring, current>>
    BY <1>10 DEF SemUp, Running
  <2>2. sem.first # NoCtx => sem.first \in Contexts /\ ctx[sem.first].etat # "none"
    BY <1>1, <2>1 DEF Typed, Ptr, StartInv
  <2>3. \A c \in Contexts : /\ ctx'[c].next = ctx[c].next
                            /\ ctx'[c].etat = "none" <=> ctx[c].etat = "none"
    BY <1>2, <2>1, <2>2
  <2> QED BY <1>2, <2>1, <2>3, RingKept
<1>11. CASE FirstTick
  <2>1. mode = "runs" /\ current = NoCtx /\ SwitchTo(ring, stack) /\ UNCHANGED <<freed, ring>>
    BY <1>11 DEF FirstTick
  <2>2. ring \in Members
    <3>1. ring \in Contexts
      BY <1>1, <2>1, SchedulerAssumption DEF StartInv
    <3> QED BY <3>1, SchedulerAssumption DEF RingInv
  <2> QED BY <2>1, <2>2, SwitchRing
<1>12. CASE CalmTick
  BY <1>2, <1>12, RingKept DEF CalmTick, Tick
<1> QED BY <1>3, <1>4, <1>5, <1>6, <1>7, <1>8, <1>9, <1>10, <1>11, <1>12
        DEF CalmNext, Setup, Code

\* What the ring of the invariant is to the walk of yield.
LEMMA RingWalked == ASSUME SchedInv, RingInv PROVE RingSound
<1>1. Typed /\ StartInv /\ EtatInv
  BY DEF SchedInv
<1> SUFFICES ASSUME mode = "runs", current # NoCtx
             PROVE  LET round == Met
                        met   == {round[n] : n \in DOMAIN round}
                    IN  /\ \E n \in DOMAIN round \ {0} : round[n] = current
                        /\ {c \in Contexts : ctx[c].etat # "TERMINATED"} \subseteq met
                        /\ (met \cup {ring}) \cap freed = {}
  BY DEF RingSound, Met
<1>2. current \in Contexts /\ current \in Members
  BY DEF RingInv, Members
<1>3. /\ Met \in [0 .. K -> Contexts] /\ Met[0] = current
      /\ \A n \in 1 .. K : Met[n] = ctx[Met[n - 1]].next
      /\ \A c \in Contexts : NextOf[c] = ctx[c].next
  BY <1>1, <1>2, MetContexts
<1>4. PICK n \in 1 .. K : \E f \in [0 .. n -> Members] :
        Cycle(f, n, current, Members, NextOf) /\ \A i \in 0 .. n : Met[i] = f[i]
  BY <1>1, MetRound
<1>5. PICK f \in [0 .. n -> Members] :
        Cycle(f, n, current, Members, NextOf) /\ \A i \in 0 .. n : Met[i] = f[i]
  BY <1>4
<1>6. /\ f[0] = current /\ f[n] = current
      /\ \A c \in Members : \E i \in 0 .. n - 1 : f[i] = c
  BY <1>5 DEF Cycle
<1>7. n \in DOMAIN Met \ {0} /\ Met[n] = current
  BY <1>3, <1>5, <1>6, ContextsCount
<1>8. ASSUME NEW c \in Contexts, ctx[c].etat # "TERMINATED"
      PROVE  c \in {Met[i] : i \in DOMAIN Met}
  <2>1. c \in Members
    BY <1>1, <1>8 DEF StartInv, EtatInv, Members
  <2>2. PICK i \in 0 .. n - 1 : f[i] = c
    BY <1>6, <2>1
  <2>3. i \in 0 .. n /\ i \in 0 .. K
    BY ContextsCount
  <2> QED BY <1>3, <1>5, <2>2, <2>3
<1>9. \A c \in Members : c \in Contexts /\ ctx[c].next \in Members
  <2> SUFFICES ASSUME NEW c \in Members PROVE c \in Contexts /\ ctx[c].next \in Members
    OBVIOUS
  <2>1. c \in Contexts
    BY DEF Members
  <2>2. PICK m \in Nat \ {0} : \E g \in [0 .. m -> Members] : Cycle(g, m, c, Members, NextOf)
    BY DEF RingInv, Round
  <2>3. PICK g \in [0 .. m -> Members] : Cycle(g, m, c, Members, NextOf)
    BY <2>2
  <2>4. g[0] = c /\ \A i \in 0 .. m - 1 : NextOf[g[i]] = g[i + 1]
    BY <2>3 DEF Cycle
  <2>5. 0 \in 0 .. m - 1 /\ 1 \in 0 .. m /\ 0 + 1 = 1
    OBVIOUS
  <2>6. NextOf[c] = g[1]
    BY <2>4, <2>5
  <2> QED BY <1>3, <2>1, <2>5, <2>6
<1>10. 0 .. K \subseteq {i \in 0 .. K : Met[i] \in Members}
  <2> DEFINE S == {i \in 0 .. K : Met[i] \in Members}
  <2>1. 0 \in S
    BY <1>2, <1>3, ContextsCount
  <2>2. ASSUME NEW i \in 0 .. K - 1, i \in S PROVE i + 1 \in S
    <3>1. i + 1 \in 1 .. K /\ i + 1 \in 0 .. K /\ (i + 1) - 1 = i
      BY ContextsCount
    <3>2. Met[i + 1] = ctx[Met[i]].next
      BY <1>3, <3>1
    <3> QED BY <1>9, <2>2, <3>1, <3>2
  <2>3. 0 .. K \subseteq S
    <3> HIDE DEF S
    <3> QED BY <2>1, <2>2, ContextsCount, IntervalInduction
  <2> QED BY <2>3
<1>11. \A i \in DOMAIN Met : Met[i] \notin freed
  BY <1>3, <1>10 DEF Members
<1>12. ring \notin freed
  BY <1>1, SchedulerAssumption DEF RingInv, Members, Typed
<1> QED BY <1>7, <1>8, <1>11, <1>12

\* The frames of the stacks, written out.
LEMMA StackTyped ==
  ASSUME Typed
  PROVE  \A c \in Contexts : \A i \in DOMAIN stack[c] :
           stack[c][i] \in [at : {"body", "down", "end", "pick", "go", "away"}, to : Ptr]
<1> SUFFICES ASSUME NEW c \in Contexts, NEW i \in DOMAIN stack[c]
             PROVE  stack[c][i] \in Frames
  BY DEF Frames
<1>1. stack[c] \in Seq(Frames)
  BY DEF Typed
<1> QED BY <1>1

\* Both invariants hold.
LEMMA ApartInvariant == ApartSpec => [](SchedInv /\ RingInv)
<1>1. [CalmNext /\ FreesApart]_schedVars => [CalmNext]_schedVars
  OBVIOUS
<1> QED BY <1>1, SchedInvInit, SchedInvNext, RingInvInit, RingInvNext, PTL DEF ApartSpec

\* The loop of yield always ends, and the program is in a state the code knows.
THEOREM SchedTyped == ApartSpec => []SchedTypeOK
<1>1. SchedInv /\ RingInv => SchedTypeOK
  <2> SUFFICES ASSUME SchedInv, RingInv PROVE SchedTypeOK
    OBVIOUS
  <2>1. Typed /\ freed \subseteq Mortal /\ mode \in {"setup", "runs", "exit", "fault"}
    BY DEF SchedInv, RingInv, EtatInv, Typed
  <2> QED BY <2>1, StackTyped DEF SchedTypeOK, Typed
<1> QED BY <1>1, ApartInvariant, PTL

\* The ring yield walks comes back to the current context, passes every context that
\* has not ended, and no freed one; nor is ctx_ring freed.
THEOREM RingStaysSound == ApartSpec => []RingSound
<1>1. SchedInv /\ RingInv => RingSound
  BY RingWalked
<1> QED BY <1>1, ApartInvariant, PTL

---------------------------------------------------------------------------
(* How the program ends. *)

\* The loop of yield comes back to a current context that may not run only after
\* it has passed all the others, and meets none that is freed.
LEMMA ChooseEnds ==
  ASSUME SchedInv, RingInv, Choose
  PROVE  /\ mode' \in {"runs", "exit"}
         /\ mode' = "exit" => \A c \in Contexts : ~Runnable(ctx'[c].etat)
<1>1. Typed /\ StartInv /\ EtatInv
  BY DEF SchedInv
<1>2. mode = "runs" /\ current # NoCtx /\ current \in Contexts
  BY ChooseParts DEF Running, RingInv, Members
<1>3. PICK n \in 1 .. K : \E f \in [0 .. n -> Members] :
        Cycle(f, n, current, Members, NextOf) /\ \A i \in 0 .. n : Met[i] = f[i]
  BY <1>1, <1>2, MetRound
<1>4. PICK f \in [0 .. n -> Members] :
        Cycle(f, n, current, Members, NextOf) /\ \A i \in 0 .. n : Met[i] = f[i]
  BY <1>3
<1>5. /\ f[0] = current /\ f[n] = current
      /\ \A i, j \in 0 .. n - 1 : f[i] = f[j] => i = j
      /\ \A c \in Members : \E i \in 0 .. n - 1 : f[i] = c
  BY <1>4 DEF Cycle
<1>6. n \in Nat \ {0} /\ K \in Nat /\ n <= K
  BY ContextsCount
<1>7. DOMAIN Met = 0 .. K
  BY <1>1, <1>2, MetContexts
<1>8. n \in Rounds
  <2>1. Met[n] = Met[0] /\ n \in DOMAIN Met /\ n # 0
    BY <1>4, <1>5, <1>6, <1>7
  <2> QED BY <2>1 DEF Rounds, Ends
<1>9. Last \in 1 .. n /\ Last \in Rounds /\ \A m \in Rounds : Last <= m
  <2>1. Rounds # {} /\ mode # "setup"
    BY <1>2, <1>8
  <2>2. Last \in 1 .. K /\ Last \in Rounds /\ \A m \in Rounds : Last <= m
    BY <1>1, <1>2, <2>1, LastRound
  <2> QED BY <1>6, <1>8, <2>2
<1>10. /\ ctx' = Unlinked(Met, Gone)
       /\ mode' = IF Runnable(ctx[Met[Last]].etat) THEN mode
                  ELSE IF Met[Last] = current THEN "exit" ELSE "fault"
  BY <1>8, ChooseParts
<1>11. Met[Last] = f[Last] /\ Met[Last] \in Members /\ Met[0] = current
  BY <1>4, <1>5, <1>6, <1>9
<1>12. Runnable(ctx[Met[Last]].etat) \/ Met[Last] = current
  <2>1. Ends(Met, Last) /\ Met[Last] \notin freed
    BY <1>9, <1>11 DEF Rounds, Members
  <2> QED BY <1>11, <2>1 DEF Ends
<1>13. mode' \in {"runs", "exit"}
  BY <1>2, <1>10, <1>12
<1>14. ASSUME mode' = "exit", NEW c \in Contexts PROVE ~Runnable(ctx'[c].etat)
  <2>1. Met[Last] = current /\ ~Runnable(ctx[current].etat)
    BY <1>2, <1>10, <1>12, <1>14
  <2>2. Last = n
    <3>1. 0 \in 0 .. n - 1 /\ Last # 0
      BY <1>6, <1>9
    <3>2. Last \notin 0 .. n - 1
      BY <1>5, <1>11, <2>1, <3>1
    <3> QED BY <1>6, <1>9, <3>2
  <2>3. ctx'[c].etat = ctx[c].etat
    BY <1>1, <1>2, <1>10, UnlinkedSets
  <2>4. CASE c \in Members
    <3>1. PICK i \in 0 .. n - 1 : f[i] = c
      BY <1>5, <2>4
    <3>2. CASE i = 0
      BY <1>5, <2>1, <2>3, <3>1, <3>2
    <3>3. CASE i # 0
      <4>1. i \in DOMAIN Met \ {0} /\ Met[i] = c /\ ~(Last <= i)
        BY <1>4, <1>6, <1>7, <2>2, <3>1, <3>3
      <4>2. i \notin Rounds
        BY <1>9, <4>1
      <4> QED BY <2>3, <4>1, <4>2 DEF Rounds, Ends
    <3> QED BY <3>2, <3>3
  <2>5. CASE c \notin Members
    BY <1>1, <2>3, <2>5 DEF Members, EtatInv, Runnable
  <2> QED BY <2>4, <2>5
<1> QED BY <1>13, <1>14

\* yield calls exit only when no context may run,
THEOREM ExitIsLastResort == ApartSpec => []ExitsWhenNoneCanRun
<1>1. SchedInit => ExitsWhenNoneCanRun
  BY DEF SchedInit, ExitsWhenNoneCanRun
<1>2. SchedInv /\ RingInv /\ ExitsWhenNoneCanRun /\ [CalmNext /\ FreesApart]_schedVars
        => ExitsWhenNoneCanRun'
  <2> SUFFICES ASSUME SchedInv, RingInv, ExitsWhenNoneCanRun, [CalmNext]_schedVars
               PROVE  ExitsWhenNoneCanRun'
    OBVIOUS
  <2>1. ASSUME mode' # "exit" PROVE ExitsWhenNoneCanRun'
    BY <2>1 DEF ExitsWhenNoneCanRun
  <2>2. CASE UNCHANGED schedVars
    BY <2>2 DEF schedVars, ExitsWhenNoneCanRun, Runnable
  <2>3. CASE Setup
    BY <2>1, <2>3 DEF Setup, Launch, Create
  <2>4. CASE Choose
    BY <2>4, ChooseEnds DEF ExitsWhenNoneCanRun
  <2>5. CASE Go \/ FirstTick
    <3>1. mode' = mode /\ mode = "runs"
      BY <2>5, GoKeeps, FirstTickKeeps DEF Go, FirstTick, Running
    <3> QED BY <2>1, <3>1
  <2>6. CASE End \/ SemDown \/ SemUp \/ CalmTick
    <3>1. mode = "runs" /\ mode' \in {mode, "fault"}
      BY <2>6 DEF End, SemDown, SemUp, CalmTick, Tick, Running
    <3> QED BY <2>1, <3>1
  <2> QED BY <2>2, <2>3, <2>4, <2>5, <2>6 DEF CalmNext, Code
<1> QED BY <1>1, <1>2, ApartInvariant, PTL DEF ApartSpec

\* and no step but one of sem_up ends the program by a fault: no yield frees a context
\* twice, comes to a freed one, or returns below the last yield of one that ended.
THEOREM FaultsFromSemUp == ApartSpec => YieldNeverFaults
<1>1. ASSUME SchedInv, RingInv, CalmNext, mode # "fault", mode' = "fault" PROVE SemUp
  <2>1. ~Choose
    BY <1>1, ChooseEnds
  <2>2. ~Go /\ ~FirstTick
    BY <1>1, GoKeeps, FirstTickKeeps
  <2>3. ~Setup /\ ~End /\ ~SemDown /\ ~CalmTick
    BY <1>1 DEF Setup, Launch, Create, End, SemDown, CalmTick, Tick
  <2> QED BY <1>1, <2>1, <2>2, <2>3 DEF CalmNext, Code
<1>2. SchedInv /\ RingInv /\ [CalmNext /\ FreesApart]_schedVars
        => [mode # "fault" /\ mode' = "fault" => SemUp]_schedVars
  BY <1>1
<1> QED BY <1>2, ApartInvariant, PTL DEF ApartSpec, YieldNeverFaults

---------------------------------------------------------------------------
(* Two contexts, as main creates them. *)

\* A yield frees no context but the other one.
LEMMA TwoApart ==
  ASSUME NEW a \in Contexts, NEW b \in Contexts, Contexts = {a, b}, SchedInv, CalmNext
  PROVE  FreesApart
<1>1. Typed /\ StartInv
  BY DEF SchedInv
<1>2. ASSUME Choose, NEW c \in freed' \ freed PROVE c \in Contexts \ {current}
  <2>1. mode = "runs" /\ current # NoCtx
    BY <1>2, ChooseParts DEF Running
  <2>2. current \in Contexts
    BY <1>1, <2>1 DEF Typed, Ptr
  <2>3. Rounds # {} /\ freed' = freed \cup {Met[n] : n \in Gone}
    BY <1>2, ChooseParts
  <2>4. PICK n \in Gone : c = Met[n]
    BY <1>2, <2>3
  <2>5. /\ n \in 1 .. K - 1 /\ n < Last /\ Last \in 1 .. K /\ Met[n] \in Contexts
        /\ \A m \in Rounds : Last <= m
    BY <1>1, <2>1, <2>2, <2>3, LastRound
  <2>6. n \notin Rounds
    BY <2>5, ContextsCount
  <2>7. Met[0] = current /\ n \in DOMAIN Met \ {0}
    BY <1>1, <2>1, <2>2, <2>5, MetContexts, ContextsCount
  <2>8. Met[n] # current
    BY <2>6, <2>7 DEF Rounds, Ends
  <2> QED BY <2>4, <2>5, <2>8
<1>3. CASE Choose
  <2>1. current \in Contexts
    BY <1>1, <1>3, ChooseParts DEF Running, Typed, Ptr
  <2> QED BY <1>2, <1>3, <2>1 DEF FreesApart
<1>4. CASE ~Choose
  <2>1. freed' = freed
    BY <1>4 DEF CalmNext, Setup, Launch, Create, Code, Go, End, SemDown, SemUp, FirstTick,
                CalmTick, Tick
  <2> QED BY <2>1 DEF FreesApart
<1> QED BY <1>3, <1>4

\* With two contexts the ring stays sound, yield exits as a last resort and never
\* faults, whoever ends first, and nothing more is assumed.
THEOREM TwoContextsSound ==
  ASSUME NEW a \in Contexts, NEW b \in Contexts, Contexts = {a, b}
  PROVE  CalmSpec => [](SchedTypeOK /\ RingSound /\ ExitsWhenNoneCanRun) /\ YieldNeverFaults
<1>1. SchedInv /\ [CalmNext]_schedVars => [CalmNext /\ FreesApart]_schedVars
  BY TwoApart
<1>2. CalmSpec => ApartSpec
  BY <1>1, SchedInvariant, PTL DEF CalmSpec, ApartSpec
<1> QED BY <1>2, SchedTyped, RingStaysSound, ExitIsLastResort, FaultsFromSemUp, PTL
=============================================================================
