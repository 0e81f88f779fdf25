------------------------- MODULE GuestThreadsProofs -------------------------
(***************************************************************************)
(* For every set of threads, APCs and event names: calls into the guest    *)
(* nest, APCs are called once and in order, and slots and named events     *)
(* keep what was put into them.  The invariant says of each frame of the   *)
(* stack how it hangs on the one below it.                                 *)
(***************************************************************************)
EXTENDS ThreadObjects, SequenceTheorems, FiniteSetTheorems, TLAPS

Frames == [kind : {"thread", "drain", "apc"}, tid : AllTids,
           prev : AllTids \cup {None}, saved : AllTids \cup {None}]

\* The shape of the state, the stack and the queues being sequences.
Shape ==
    /\ frames \in Seq(Frames)
    /\ currentTid \in AllTids /\ regs \in AllTids
    /\ halted \in BOOLEAN /\ exited \in BOOLEAN
    /\ haltedBy \in AllTids \cup {None}
    /\ DOMAIN threads \subseteq Tids /\ threads \in [DOMAIN threads -> BOOLEAN]
    /\ apcs \in [AllTids -> Seq(Apcs)]
    /\ queued \in [AllTids -> Seq(Apcs)]
    /\ started \in [AllTids -> Seq(Apcs)]

\* The frame at k goes back to the one below it: a thread to its creator and its
\* creator's registers, a drain and an APC are their caller's own.
Hangs(k) ==
    LET f == frames[k]  below == frames[k - 1] IN
    IF f.kind = "thread" THEN f.prev = below.tid /\ f.saved = below.tid /\ f.tid \in DOMAIN threads
                         ELSE f.tid = below.tid

Stacked ==
    /\ frames # <<>> => frames[1] = Frame("thread", Main, None, None)
    /\ \A k \in 2..Len(frames) : Hangs(k)

\* A thread has one routine on the stack as long as it has not exited, and none later.
Routines(t) == {k \in DOMAIN frames : frames[k].kind = "thread" /\ frames[k].tid = t}
OneRoutine == frames # <<>> =>
    \A t \in DOMAIN threads : IF threads[t] THEN Routines(t) = {}
                                            ELSE \E k \in DOMAIN frames : Routines(t) = {k}

OnTop == frames # <<>> => currentTid = Top.tid /\ regs = Top.tid

OwnHalt == halted => currentTid = haltedBy

StackInv == Shape /\ Stacked /\ OneRoutine /\ OnTop /\ OwnHalt /\ ApcsInOrder

-----------------------------------------------------------------------------
(* Sequences.                                                              *)

\* Front keeps all elements but the last, where they are.
LEMMA FrontSeq ==
    ASSUME NEW S, NEW s \in Seq(S), s # <<>>
    PROVE  /\ Front(s) \in Seq(S)
           /\ Len(Front(s)) = Len(s) - 1
           /\ \A k \in 1..(Len(s) - 1) : Front(s)[k] = s[k]
<1> DEFINE n == Len(s) - 1
<1>1. n \in Nat /\ \A k \in 1..n : s[k] \in S
  BY EmptySeq, LenProperties, ElementOfSeq
<1>2. Front(s) = SubSeq(s, 1, n)
  BY DEF Front
<1>3. SubSeq(s, 1, n) = [k \in 1..n |-> s[k]]
  BY <1>1
<1> DEFINE f == [k \in 1..n |-> s[k]]
<1>4. f \in [1..n -> S] /\ f \in Seq(S) /\ \A k \in 1..n : f[k] = s[k]
  BY <1>1
<1>5. Len(f) = n
  <2> HIDE DEF f, n
  <2> QED BY <1>1, <1>4, LenProperties
<1> QED
  BY <1>2, <1>3, <1>4, <1>5

\* The first of a queue may as well be the last of what was taken from it.
LEMMA TakeOne ==
    ASSUME NEW S, NEW s \in Seq(S), NEW q \in Seq(S), q # <<>>
    PROVE  /\ Head(q) \in S /\ Tail(q) \in Seq(S) /\ Append(s, Head(q)) \in Seq(S)
           /\ Append(s, Head(q)) \o Tail(q) = s \o q
<1> DEFINE a == Append(s, Head(q))  b == Tail(q)
<1>1. /\ Head(q) \in S /\ Head(q) = q[1] /\ Len(q) \in Nat \ {0}
      /\ b \in Seq(S) /\ Len(b) = Len(q) - 1 /\ \A k \in 1..Len(b) : b[k] = q[k + 1]
  BY HeadTailProperties, EmptySeq, LenProperties
<1>2. /\ a \in Seq(S) /\ Len(a) = Len(s) + 1 /\ a[Len(s) + 1] = Head(q)
      /\ \A k \in 1..Len(s) : a[k] = s[k]
  BY <1>1, AppendProperties
<1> HIDE DEF a, b
<1>3. /\ a \o b \in Seq(S) /\ Len(a \o b) = Len(a) + Len(b)
      /\ \A k \in 1..(Len(a) + Len(b)) : (a \o b)[k] = IF k <= Len(a) THEN a[k] ELSE b[k - Len(a)]
  BY <1>1, <1>2, ConcatProperties
<1>4. /\ s \o q \in Seq(S) /\ Len(s \o q) = Len(s) + Len(q)
      /\ \A k \in 1..(Len(s) + Len(q)) : (s \o q)[k] = IF k <= Len(s) THEN s[k] ELSE q[k - Len(s)]
  BY ConcatProperties
<1>5. Len(s) \in Nat
  BY LenProperties
<1>6. Len(a \o b) = Len(s \o q)
  BY <1>1, <1>2, <1>3, <1>4, <1>5
<1>7. ASSUME NEW k \in 1..Len(s \o q)
      PROVE  (a \o b)[k] = (s \o q)[k]
  <2>1. CASE k <= Len(s)
    BY <2>1, <1>1, <1>2, <1>3, <1>4, <1>5
  <2>2. CASE k = Len(s) + 1
    BY <2>2, <1>1, <1>2, <1>3, <1>4, <1>5
  <2>3. CASE ~(k <= Len(s)) /\ k # Len(s) + 1
    <3>1. k - Len(a) \in 1..Len(b) /\ ~(k <= Len(a)) /\ ~(k <= Len(s)) /\ (k - Len(a)) + 1 = k - Len(s)
      BY <2>3, <1>1, <1>2, <1>4, <1>5
    <3> QED BY <3>1, <1>1, <1>2, <1>3, <1>4, <1>5, <1>6
  <2> QED BY <2>1, <2>2, <2>3
<1>8. a \o b = s \o q
  BY <1>3, <1>4, <1>6, <1>7, SeqEqual
<1> QED
  BY <1>1, <1>2, <1>8 DEF a, b

\* Adding at the end of a queue adds at the end of what was ever in it.
LEMMA AddOne ==
    ASSUME NEW S, NEW s \in Seq(S), NEW q \in Seq(S), NEW e \in S
    PROVE  s \o Append(q, e) = Append(s \o q, e)
<1>1. /\ Append(q, e) = q \o <<e>> /\ Append(s \o q, e) = (s \o q) \o <<e>> /\ <<e>> \in Seq(S)
  BY ConcatProperties, AppendIsConcat
<1> QED
  BY <1>1, ConcatAssociative

-----------------------------------------------------------------------------
(* The stack.                                                              *)

\* A call puts a frame on top of the others.
LEMMA Pushed ==
    ASSUME frames \in Seq(Frames), NEW f \in Frames, Push(f)
    PROVE  /\ frames' \in Seq(Frames) /\ frames' # <<>>
           /\ Len(frames') = Len(frames) + 1
           /\ \A k \in 1..Len(frames) : frames'[k] = frames[k]
           /\ frames'[Len(frames) + 1] = f /\ Last(frames') = f
BY AppendProperties DEF Push, Last

\* A return takes the top frame and no other.
LEMMA Popped ==
    ASSUME frames \in Seq(Frames), frames # <<>>, Pop
    PROVE  /\ frames' \in Seq(Frames)
           /\ Len(frames') = Len(frames) - 1
           /\ \A k \in 1..(Len(frames) - 1) : frames'[k] = frames[k]
           /\ frames' # <<>> => Len(frames) > 1 /\ Last(frames') = frames[Len(frames) - 1]
<1>1. Len(frames) \in Nat \ {0}
  BY EmptySeq, LenProperties
<1>2. /\ frames' \in Seq(Frames) /\ Len(frames') = Len(frames) - 1
      /\ \A k \in 1..(Len(frames) - 1) : frames'[k] = frames[k]
  BY FrontSeq DEF Pop
<1>3. frames' # <<>> => Len(frames') \in 1..(Len(frames) - 1)
  BY <1>1, <1>2, EmptySeq
<1> QED
  BY <1>1, <1>2, <1>3 DEF Last

\* What is on top.
LEMMA TopFrame ==
    ASSUME frames \in Seq(Frames), frames # <<>>
    PROVE  /\ Len(frames) \in Nat \ {0} /\ Top = frames[Len(frames)] /\ Top \in Frames
           /\ DOMAIN frames = 1..Len(frames)
BY EmptySeq, LenProperties, ElementOfSeq DEF Top, Last

-----------------------------------------------------------------------------
(* What the guest calls.                                                   *)

LEMMA InitStack == ASSUME ThreadsAssumption, Init PROVE StackInv
<1> USE ThreadsAssumption DEF Init, AllTids
<1>1. Frame("thread", Main, None, None) \in Frames
  BY DEF Frame, Frames
<1>2. /\ frames \in Seq(Frames) /\ Len(frames) = 1 /\ frames[1] = Frame("thread", Main, None, None)
  BY <1>1
<1>3. Shape
  <2>1. DOMAIN threads \subseteq Tids /\ threads \in [DOMAIN threads -> BOOLEAN]
    OBVIOUS
  <2>2. [t \in AllTids |-> <<>>] \in [AllTids -> Seq(Apcs)]
    OBVIOUS
  <2> QED BY <2>1, <2>2, <1>2 DEF Shape
<1>4. Stacked
  BY <1>2 DEF Stacked
<1>5. OneRoutine /\ OwnHalt
  BY DEF OneRoutine, OwnHalt
<1>6. OnTop
  BY <1>2 DEF OnTop, Top, Last, Frame
<1>7. ApcsInOrder
  BY DEF ApcsInOrder
<1> QED
  BY <1>3, <1>4, <1>5, <1>6, <1>7 DEF StackInv

LEMMA CreateThreadStack ==
    ASSUME ThreadsAssumption, StackInv, NEW t \in Tids, CreateThread(t)
    PROVE  StackInv'
<1> USE ThreadsAssumption DEF CreateThread, StackInv
<1> DEFINE f == Frame("thread", t, currentTid, regs)  n == Len(frames)
<1>1. f \in Frames /\ f.kind = "thread" /\ f.tid = t /\ f.prev = currentTid /\ f.saved = regs
  BY DEF Frame, Frames, Shape, AllTids
<1>2. /\ n \in Nat \ {0} /\ Top = frames[n] /\ DOMAIN frames = 1..n
      /\ \A k \in 1..n : frames[k] \in Frames
  BY TopFrame, ElementOfSeq DEF Shape, GuestRuns
<1> HIDE DEF f
<1>3. /\ frames' \in Seq(Frames) /\ frames' # <<>> /\ Len(frames') = n + 1
      /\ \A k \in 1..n : frames'[k] = frames[k]
      /\ frames'[n + 1] = f /\ Last(frames') = f /\ DOMAIN frames' = 1..(n + 1)
  <2>1. Push(f)
    BY DEF f
  <2> QED BY <2>1, <1>1, Pushed, LenProperties DEF Shape
<1> HIDE DEF n
<1>4. DOMAIN threads' = DOMAIN threads \cup {t} /\ t \notin DOMAIN threads
      /\ threads'[t] = FALSE /\ \A u \in DOMAIN threads : threads'[u] = threads[u]
  OBVIOUS
<1>5. Shape'
  BY <1>3 DEF Shape, AllTids
<1>6. Stacked'
  <2>1. frames'[1] = Frame("thread", Main, None, None)
    BY <1>2, <1>3 DEF Stacked, GuestRuns
  <2>2. ASSUME NEW k \in 2..(n + 1) PROVE Hangs(k)'
    <3>1. CASE k = n + 1
      BY <3>1, <1>1, <1>2, <1>3, <1>4 DEF Hangs, OnTop, GuestRuns
    <3>2. CASE k # n + 1
      <4>1. k \in 2..n /\ k \in 1..n /\ k - 1 \in 1..n
        BY <3>2, <1>2
      <4>2. Hangs(k)
        BY <4>1 DEF Stacked, n
      <4> QED BY <4>1, <4>2, <1>3, <1>4 DEF Hangs
    <3> QED BY <3>1, <3>2
  <2> QED BY <2>1, <2>2, <1>3 DEF Stacked
<1>7. OneRoutine'
  <2>1. ASSUME NEW k \in 1..n PROVE frames[k].kind = "thread" => frames[k].tid # t
    <3>1. CASE k = 1
      BY <3>1 DEF Stacked, GuestRuns, Frame
    <3>2. CASE k # 1
      <4>1. Hangs(k)
        BY <3>2, <1>2 DEF Stacked, n
      <4> QED BY <4>1, <1>4 DEF Hangs
    <3> QED BY <3>1, <3>2
  <2>2. Routines(t)' = {n + 1}
    BY <2>1, <1>1, <1>2, <1>3 DEF Routines
  <2>3. ASSUME NEW u \in DOMAIN threads PROVE Routines(u)' = Routines(u)
    BY <1>1, <1>2, <1>3, <1>4 DEF Routines
  <2>4. ASSUME NEW u \in DOMAIN threads
        PROVE  IF threads'[u] THEN Routines(u)' = {}
                              ELSE \E k \in DOMAIN frames' : Routines(u)' = {k}
    BY <2>3, <1>2, <1>3, <1>4 DEF OneRoutine, GuestRuns
  <2>5. n + 1 \in DOMAIN frames'
    BY <1>2, <1>3
  <2> QED BY <2>2, <2>4, <2>5, <1>4 DEF OneRoutine
<1>8. OnTop'
  BY <1>1, <1>3 DEF OnTop, Top
<1>9. OwnHalt' /\ ApcsInOrder'
  BY DEF OwnHalt, ApcsInOrder, GuestRuns
<1> QED
  BY <1>5, <1>6, <1>7, <1>8, <1>9 DEF StackInv

\* A frame that is its caller's own, a drain or an APC, changes nothing below it.
LEMMA InnerFrame ==
    ASSUME Shape, Stacked, OneRoutine, OnTop, frames # <<>>,
           NEW kind \in {"drain", "apc"}, Push(Frame(kind, currentTid, None, None)),
           UNCHANGED <<currentTid, regs, threads>>
    PROVE  frames' \in Seq(Frames) /\ Stacked' /\ OneRoutine' /\ OnTop'
<1> DEFINE f == Frame(kind, currentTid, None, None)  n == Len(frames)
<1>1. f \in Frames /\ f.kind # "thread" /\ f.tid = currentTid
  BY DEF Frame, Frames, Shape
<1>2. /\ n \in Nat \ {0} /\ Top = frames[n] /\ DOMAIN frames = 1..n
      /\ \A k \in 1..n : frames[k] \in Frames
  BY TopFrame, ElementOfSeq DEF Shape
<1>3. Push(f)
  OBVIOUS
<1> HIDE DEF f
<1>4. /\ frames' \in Seq(Frames) /\ frames' # <<>> /\ Len(frames') = n + 1
      /\ \A k \in 1..n : frames'[k] = frames[k]
      /\ frames'[n + 1] = f /\ Last(frames') = f /\ DOMAIN frames' = 1..(n + 1)
  BY <1>1, <1>3, Pushed, LenProperties DEF Shape
<1> HIDE DEF n
<1>5. Stacked'
  <2>1. frames'[1] = Frame("thread", Main, None, None)
    BY <1>2, <1>4 DEF Stacked
  <2>2. ASSUME NEW k \in 2..(n + 1) PROVE Hangs(k)'
    <3>1. CASE k = n + 1
      BY <3>1, <1>1, <1>2, <1>4 DEF Hangs, OnTop
    <3>2. CASE k # n + 1
      <4>1. k \in 2..n /\ k \in 1..n /\ k - 1 \in 1..n
        BY <3>2, <1>2
      <4>2. Hangs(k)
        BY <4>1 DEF Stacked, n
      <4> QED BY <4>1, <4>2, <1>4 DEF Hangs
    <3> QED BY <3>1, <3>2
  <2> QED BY <2>1, <2>2, <1>4 DEF Stacked
<1>6. OneRoutine'
  <2>1. ASSUME NEW u \in DOMAIN threads PROVE Routines(u)' = Routines(u)
    BY <1>1, <1>2, <1>4 DEF Routines
  <2> QED BY <2>1, <1>2, <1>4 DEF OneRoutine
<1>7. OnTop'
  BY <1>1, <1>4 DEF OnTop, Top
<1> QED
  BY <1>4, <1>5, <1>6, <1>7

\* Nor does its return.
LEMMA InnerReturn ==
    ASSUME ThreadsAssumption, Shape, Stacked, OneRoutine, OnTop,
           frames # <<>>, Top.kind # "thread", Pop, UNCHANGED <<currentTid, regs, threads>>
    PROVE  frames' \in Seq(Frames) /\ Stacked' /\ OneRoutine' /\ OnTop'
<1> DEFINE n == Len(frames)
<1>1. /\ n \in Nat \ {0} /\ Top = frames[n] /\ DOMAIN frames = 1..n
      /\ \A k \in 1..n : frames[k] \in Frames
  BY TopFrame, ElementOfSeq DEF Shape
<1>2. /\ frames' \in Seq(Frames) /\ Len(frames') = n - 1
      /\ \A k \in 1..(n - 1) : frames'[k] = frames[k]
      /\ frames' # <<>> => n > 1 /\ Last(frames') = frames[n - 1]
  BY Popped DEF Shape
<1>3. DOMAIN frames' = 1..(n - 1)
  BY <1>2, LenProperties
<1>4. n > 1 /\ Hangs(n)
  BY <1>1 DEF Stacked, Frame
<1>5. frames' # <<>>
  BY <1>1, <1>3, <1>4
<1> HIDE DEF n
<1>6. Stacked'
  <2>1. ASSUME NEW k \in 2..(n - 1) PROVE Hangs(k)'
    <3>1. Hangs(k) /\ k \in 1..(n - 1) /\ k - 1 \in 1..(n - 1)
      BY <1>1 DEF Stacked, n
    <3> QED BY <3>1, <1>2 DEF Hangs
  <2>2. frames'[1] = Frame("thread", Main, None, None)
    BY <1>1, <1>2, <1>4 DEF Stacked
  <2> QED BY <2>1, <2>2, <1>2 DEF Stacked
<1>7. OneRoutine'
  <2>1. ASSUME NEW u \in DOMAIN threads PROVE Routines(u)' = Routines(u)
    BY <1>1, <1>2, <1>3 DEF Routines
  <2>2. ASSUME NEW u \in DOMAIN threads PROVE Routines(u) \subseteq DOMAIN frames'
    BY <1>1, <1>3 DEF Routines
  <2> QED BY <2>1, <2>2 DEF OneRoutine
<1>8. OnTop'
  BY <1>1, <1>2, <1>4, <1>5 DEF OnTop, Top, Hangs
<1> QED
  BY <1>2, <1>6, <1>7, <1>8

LEMMA ExitStack ==
    ASSUME StackInv, ExitThread \/ ExitProcess
    PROVE  StackInv'
<1> USE DEF StackInv, ExitThread, ExitProcess
<1>1. UNCHANGED <<frames, currentTid, regs, threads, apcs, queued, started>>
  OBVIOUS
<1>2. Shape'
  BY DEF Shape
<1>3. Stacked'
  BY <1>1 DEF Stacked, Hangs
<1>4. OneRoutine'
  BY <1>1 DEF OneRoutine, Routines
<1>5. OnTop' /\ OwnHalt' /\ ApcsInOrder'
  BY DEF OnTop, Top, OwnHalt, ApcsInOrder
<1> QED
  BY <1>2, <1>3, <1>4, <1>5

LEMMA QueueUserAPCStack ==
    ASSUME StackInv, NEW a \in Apcs, NEW h \in Tids \cup {None}, QueueUserAPC(a, h)
    PROVE  StackInv'
<1> USE DEF StackInv
<1>1. PICK t \in AllTids : /\ apcs' = [apcs EXCEPT ![t] = Append(@, a)]
                           /\ queued' = [queued EXCEPT ![t] = Append(@, a)]
  BY DEF QueueUserAPC, Shape, AllTids
<1>2. UNCHANGED <<frames, currentTid, regs, halted, haltedBy, exited, threads, started>>
  BY DEF QueueUserAPC
<1>3. Shape'
  BY <1>1, <1>2 DEF Shape
<1>4. Stacked'
  BY <1>2 DEF Stacked, Hangs
<1>5. OneRoutine'
  BY <1>2 DEF OneRoutine, Routines
<1>6. OnTop' /\ OwnHalt'
  BY <1>2 DEF OnTop, Top, OwnHalt
<1>7. ApcsInOrder'
  <2> SUFFICES ASSUME NEW u \in AllTids PROVE started[u] \o apcs'[u] = queued'[u]
    BY <1>2 DEF ApcsInOrder
  <2>1. started[u] \o apcs[u] = queued[u] /\ started[u] \in Seq(Apcs) /\ apcs[u] \in Seq(Apcs)
    BY DEF ApcsInOrder, Shape
  <2>2. CASE u = t
    <3>1. apcs'[u] = Append(apcs[u], a) /\ queued'[u] = Append(queued[u], a)
      BY <2>2, <1>1 DEF Shape
    <3>2. ASSUME NEW s \in Seq(Apcs), NEW q \in Seq(Apcs)
          PROVE  s \o Append(q, a) = Append(s \o q, a)
      BY AddOne
    <3> QED BY <2>1, <3>1, <3>2, Zenon
  <2>3. CASE u # t
    BY <2>1, <2>3, <1>1 DEF Shape
  <2> QED BY <2>2, <2>3
<1> QED
  BY <1>3, <1>4, <1>5, <1>6, <1>7

LEMMA AlertableWaitStack == ASSUME StackInv, AlertableWait PROVE StackInv'
<1> USE DEF StackInv, AlertableWait
<1>1. frames' \in Seq(Frames) /\ Stacked' /\ OneRoutine' /\ OnTop'
  BY InnerFrame DEF GuestRuns
<1>2. Shape' /\ OwnHalt' /\ ApcsInOrder'
  BY <1>1 DEF Shape, OwnHalt, ApcsInOrder
<1> QED
  BY <1>1, <1>2

-----------------------------------------------------------------------------
(* What the harness does.                                                  *)

LEMMA DrainNextStack == ASSUME StackInv, DrainNext PROVE StackInv'
<1> USE DEF StackInv
<1> DEFINE t == currentTid
<1>1. Top.tid = t /\ t \in AllTids
  BY DEF OnTop, DrainNext, Shape
<1>2. /\ apcs[t] # <<>>
      /\ apcs' = [apcs EXCEPT ![t] = Tail(@)]
      /\ started' = [started EXCEPT ![t] = Append(@, Head(apcs[t]))]
      /\ UNCHANGED <<currentTid, regs, haltedBy, exited, threads, queued>>
  BY <1>1 DEF DrainNext
<1>3. /\ apcs[t] \in Seq(Apcs) /\ started[t] \in Seq(Apcs) /\ Tail(apcs[t]) \in Seq(Apcs)
      /\ Append(started[t], Head(apcs[t])) \in Seq(Apcs)
      /\ Append(started[t], Head(apcs[t])) \o Tail(apcs[t]) = started[t] \o apcs[t]
  <2>1. apcs[t] \in Seq(Apcs) /\ started[t] \in Seq(Apcs)
    BY <1>1 DEF Shape
  <2> QED BY ONLY <2>1, <1>2, TakeOne, Zenon
<1>4. frames' \in Seq(Frames) /\ Stacked' /\ OneRoutine' /\ OnTop'
  <2>1. CASE Push(Frame("apc", currentTid, None, None))
    BY <2>1, <1>2, InnerFrame DEF DrainNext
  <2>2. CASE UNCHANGED frames
    <3>1. Stacked'
      BY <2>2, <1>2 DEF Stacked, Hangs
    <3>2. OneRoutine'
      BY <2>2, <1>2 DEF OneRoutine, Routines
    <3> QED BY <3>1, <3>2, <2>2, <1>2 DEF Shape, OnTop, Top
  <2> QED BY <2>1, <2>2 DEF DrainNext
<1>5. halted' \in BOOLEAN /\ (halted' => halted)
  BY DEF DrainNext, Shape
<1>6. Shape'
  BY <1>2, <1>3, <1>4, <1>5 DEF Shape
<1>7. OwnHalt'
  BY <1>2, <1>5 DEF OwnHalt
<1>8. ApcsInOrder'
  BY <1>1, <1>2, <1>3 DEF ApcsInOrder, Shape
<1> QED
  BY <1>4, <1>6, <1>7, <1>8

LEMMA InnerEndsStack == ASSUME ThreadsAssumption, StackInv, DrainDone \/ ApcEnds PROVE StackInv'
<1> USE DEF StackInv, DrainDone, ApcEnds
<1>1. frames' \in Seq(Frames) /\ Stacked' /\ OneRoutine' /\ OnTop'
  BY InnerReturn
<1>2. UNCHANGED <<currentTid, regs, halted, haltedBy, exited, threads, apcs, queued, started>>
  OBVIOUS
<1>3. Shape'
  BY <1>1, <1>2 DEF Shape
<1>4. OwnHalt' /\ ApcsInOrder'
  BY <1>2 DEF OwnHalt, ApcsInOrder
<1> QED
  BY <1>1, <1>3, <1>4

LEMMA ThreadEndsStack == ASSUME ThreadsAssumption, StackInv, ThreadEnds PROVE StackInv'
<1> USE DEF StackInv, ThreadEnds
<1>t. PICK t : t = Top.tid
  OBVIOUS
<1> DEFINE n == Len(frames)
<1>1. /\ n \in Nat \ {0} /\ Top = frames[n] /\ DOMAIN frames = 1..n /\ Top \in Frames
      /\ \A k \in 1..n : frames[k] \in Frames
  BY TopFrame, ElementOfSeq, EmptySeq DEF Shape
<1>2. /\ frames' \in Seq(Frames) /\ Len(frames') = n - 1
      /\ \A k \in 1..(n - 1) : frames'[k] = frames[k]
      /\ frames' # <<>> => n > 1 /\ Last(frames') = frames[n - 1]
  BY Popped, EmptySeq DEF Shape
<1>3. DOMAIN frames' = 1..(n - 1) /\ frames' # <<>>
  BY <1>1, <1>2, LenProperties, EmptySeq
<1>4. /\ Top.prev = frames[n - 1].tid /\ Top.saved = frames[n - 1].tid
      /\ t \in DOMAIN threads /\ frames[n - 1].tid \in AllTids
  BY <1>1, <1>t DEF Stacked, Hangs, Frames
<1> HIDE DEF n
<1>5. threads' = [threads EXCEPT ![t] = TRUE] /\ UNCHANGED <<haltedBy, exited, apcs, queued, started>>
  BY <1>t
<1>6. Shape'
  BY <1>2, <1>4, <1>5 DEF Shape
<1>7. Stacked'
  <2>1. ASSUME NEW k \in 2..(n - 1) PROVE Hangs(k)'
    <3>1. Hangs(k) /\ k \in 1..(n - 1) /\ k - 1 \in 1..(n - 1)
      BY <1>1 DEF Stacked, n
    <3> QED BY <3>1, <1>2, <1>5 DEF Hangs, Shape
  <2>2. frames'[1] = Frame("thread", Main, None, None)
    BY <1>1, <1>2, <1>3 DEF Stacked
  <2> QED BY <2>1, <2>2, <1>2 DEF Stacked
<1>8. OneRoutine'
  <2>1. n \in Routines(t)
    BY <1>1, <1>t DEF Routines
  <2>2. Routines(t) = {n}
    BY <2>1, <1>1, <1>4 DEF OneRoutine
  <2>3. Routines(t)' = {}
    BY <2>2, <1>1, <1>2, <1>3 DEF Routines
  <2>4. ASSUME NEW u \in DOMAIN threads, u # t
        PROVE  Routines(u)' = Routines(u) /\ Routines(u) \subseteq DOMAIN frames'
    BY <2>4, <1>t, <1>1, <1>2, <1>3 DEF Routines
  <2>5. /\ DOMAIN threads' = DOMAIN threads /\ threads'[t] = TRUE
        /\ \A u \in DOMAIN threads : u # t => threads'[u] = threads[u]
    BY <1>4, <1>5
  <2> SUFFICES ASSUME NEW u \in DOMAIN threads'
               PROVE  IF threads'[u] THEN Routines(u)' = {}
                                     ELSE \E k \in DOMAIN frames' : Routines(u)' = {k}
    BY DEF OneRoutine
  <2>6. CASE u = t
    BY <2>6, <2>3, <2>5
  <2>7. CASE u # t
    <3>1. IF threads[u] THEN Routines(u) = {} ELSE \E k \in DOMAIN frames : Routines(u) = {k}
      BY <2>5, <1>1 DEF OneRoutine
    <3> QED BY <3>1, <2>7, <2>4, <2>5
  <2> QED BY <2>6, <2>7
<1>9. OnTop' /\ OwnHalt' /\ ApcsInOrder'
  BY <1>2, <1>3, <1>4, <1>5 DEF OnTop, Top, OwnHalt, ApcsInOrder
<1> QED
  BY <1>6, <1>7, <1>8, <1>9

LEMMA MainEndsStack == ASSUME StackInv, MainEnds PROVE StackInv'
<1> USE DEF StackInv, MainEnds
<1>1. frames' \in Seq(Frames) /\ Len(frames') = 0
  BY EmptySeq
<1>2. Shape' /\ Stacked' /\ OneRoutine' /\ OnTop'
  BY <1>1 DEF Shape, Stacked, OneRoutine, OnTop
<1> QED
  BY <1>2 DEF OwnHalt, ApcsInOrder

\* Every step of the threads keeps the invariant.
LEMMA NextStack == ASSUME ThreadsAssumption, StackInv, [Next]_vars PROVE StackInv'
<1>1. CASE \E t \in Tids : CreateThread(t)
  BY <1>1, CreateThreadStack
<1>2. CASE \E a \in Apcs, h \in Tids \cup {None} : QueueUserAPC(a, h)
  BY <1>2, QueueUserAPCStack
<1>3. CASE ExitThread \/ ExitProcess
  BY <1>3, ExitStack
<1>4. CASE AlertableWait
  BY <1>4, AlertableWaitStack
<1>5. CASE DrainNext
  BY <1>5, DrainNextStack
<1>6. CASE DrainDone \/ ApcEnds
  BY <1>6, InnerEndsStack
<1>7. CASE ThreadEnds
  BY <1>7, ThreadEndsStack
<1>8. CASE MainEnds
  BY <1>8, MainEndsStack
<1>9. CASE UNCHANGED vars
  <2> USE <1>9 DEF vars, StackInv
  <2>1. Stacked'
    BY DEF Stacked, Hangs
  <2>2. OneRoutine'
    BY DEF OneRoutine, Routines
  <2> QED BY <2>1, <2>2 DEF Shape, OnTop, Top, OwnHalt, ApcsInOrder
<1> QED
  BY <1>1, <1>2, <1>3, <1>4, <1>5, <1>6, <1>7, <1>8, <1>9 DEF Next, GuestCalls, HarnessSteps

\* What the runs check of the stack follows.
LEMMA StackImplies == ASSUME ThreadsAssumption, StackInv PROVE TypeOK /\ CallsNest
<1> USE DEF StackInv
<1>1. TypeOK
  <2>1. \A k \in DOMAIN frames : frames[k] \in Frames
    BY LenProperties, ElementOfSeq DEF Shape
  <2>2. ASSUME NEW t \in AllTids, NEW k \in DOMAIN apcs[t] PROVE apcs[t][k] \in Apcs
    BY LenProperties, ElementOfSeq DEF Shape
  <2> QED BY <2>1, <2>2 DEF TypeOK, Shape, Stacked, Frames
<1>2. EagerNesting
  BY DEF EagerNesting, OneRoutine, Routines, OnTop
<1> QED
  BY <1>1, <1>2 DEF CallsNest, ExitStaysInThread, OwnHalt

-----------------------------------------------------------------------------
(* Slots, events and mutexes.                                              *)

Slots ==
    /\ IsFiniteSet(DOMAIN slots) /\ DOMAIN slots \subseteq Nat
    /\ slots \in [DOMAIN slots -> SUBSET AllTids] /\ stored \in [DOMAIN slots -> SUBSET AllTids]
    /\ gap \in BOOLEAN

\* As long as slots are freed from the top, those in use are the first ones, so that
\* their number is the index of none of them.
NoGap == ~gap => \E n \in Nat : DOMAIN slots = 0..(n - 1)

Events ==
    /\ events \in Seq(BOOLEAN) /\ mutexes \in Seq(AllTids \cup {None})
    /\ names \in [Names -> 0..Len(events)] /\ said \in [Names -> BOOLEAN]

Budget == IsFiniteSet(QueuedApcs) /\ calls \in 0..MaxCalls

ObjInv == StackInv /\ Slots /\ NoGap /\ SlotsKept /\ Events /\ NamedEventsShared /\ Budget

\* The index of a new slot is a slot's only when one was freed under another.
LEMMA NewIndex ==
    ASSUME Slots, NoGap
    PROVE  /\ NextIndex \in Nat
           /\ ~gap => NextIndex \notin DOMAIN slots /\ DOMAIN slots = 0..(NextIndex - 1)
<1>1. NextIndex \in Nat
  BY FS_CardinalityType DEF Slots, NextIndex
<1>2. ASSUME NEW n \in Nat, DOMAIN slots = 0..(n - 1)
      PROVE  NextIndex = n
  <2>1. Cardinality(0..(n - 1)) = IF 0 > n - 1 THEN 0 ELSE (n - 1) - 0 + 1
    BY FS_Interval
  <2> QED BY <2>1, <1>2 DEF NextIndex
<1>3. ~gap => DOMAIN slots = 0..(NextIndex - 1)
  BY <1>2 DEF NoGap
<1>4. NextIndex \notin 0..(NextIndex - 1)
  BY <1>1
<1> QED
  BY <1>1, <1>3, <1>4

\* A call counts against the budget.
LEMMA CallCounts ==
    ASSUME ThreadsAssumption, ObjectsAssumption, Budget, StackInv, Call
    PROVE  Budget' /\ StackInv'
<1>1. QueuedApcs' = QueuedApcs /\ UNCHANGED vars
  BY DEF Call, vars, QueuedApcs
<1>2. Cardinality(QueuedApcs) \in Nat
  BY FS_CardinalityType DEF Budget
<1>3. calls' \in 0..MaxCalls
  BY <1>2 DEF Budget, Call, InBudget, ObjectsAssumption
<1>4. Budget'
  BY <1>1, <1>3 DEF Budget
<1> QED
  BY <1>1, <1>4, NextStack

LEMMA InitObjects == ASSUME ThreadsAssumption, ObjectsAssumption, ObjInit PROVE ObjInv
<1> USE DEF ObjInit
<1>1. StackInv
  BY InitStack
<1>2. DOMAIN slots = {} /\ slots = stored /\ slots \in [{} -> SUBSET AllTids]
  OBVIOUS
<1>3. Slots
  BY <1>2, FS_EmptySet DEF Slots
<1>4. NoGap /\ SlotsKept
  <2>1. 0..(0 - 1) = {}
    OBVIOUS
  <2> QED BY <2>1, <1>2 DEF NoGap, SlotsKept
<1>5. Events /\ NamedEventsShared
  <2>1. <<>> \in Seq(BOOLEAN) /\ <<>> \in Seq(AllTids \cup {None}) /\ Len(<<>>) = 0
    OBVIOUS
  <2> QED BY <2>1 DEF Events, NamedEventsShared
<1>6. Budget
  <2>1. QueuedApcs = {}
    BY DEF Init, QueuedApcs, ToSet
  <2> QED BY <2>1, FS_EmptySet DEF Budget, ObjectsAssumption
<1> QED
  BY <1>1, <1>3, <1>4, <1>5, <1>6 DEF ObjInv

LEMMA TlsAllocObjects ==
    ASSUME ThreadsAssumption, ObjectsAssumption, ObjInv, TlsAlloc
    PROVE  ObjInv'
<1> USE DEF ObjInv, TlsAlloc
<1>1. Budget' /\ StackInv' /\ UNCHANGED <<events, names, mutexes, gap, said>>
  BY CallCounts
<1>2. PICK i \in Nat : i = NextIndex
  BY NewIndex
<1>3. /\ slots' = With(slots, i, {})
      /\ stored' = IF i \in DOMAIN stored THEN stored ELSE With(stored, i, {})
      /\ ~gap => i \notin DOMAIN slots /\ DOMAIN slots = 0..(i - 1)
      /\ reissued' = reissued \cup ({i} \cap DOMAIN slots)
  BY <1>2, NewIndex
<1>4. /\ DOMAIN slots' = DOMAIN slots \cup {i} /\ slots' \in [DOMAIN slots' -> SUBSET AllTids]
      /\ stored' \in [DOMAIN slots' -> SUBSET AllTids]
  BY <1>3 DEF With, Slots
<1>5. Slots'
  BY <1>1, <1>4, FS_AddElement DEF Slots
<1>6. NoGap'
  <2>1. 0..((i + 1) - 1) = 0..(i - 1) \cup {i}
    BY <1>2
  <2>2. ~gap => DOMAIN slots' = 0..((i + 1) - 1)
    BY <2>1, <1>3, <1>4
  <2> QED BY <2>2, <1>1 DEF NoGap
<1>7. SlotsKept'
  <2>1. DOMAIN slots' = DOMAIN stored'
    BY <1>4
  <2>2. ASSUME NEW j \in DOMAIN slots' \ reissued' PROVE slots'[j] = stored'[j]
    <3>1. CASE j = i
      <4>1. i \notin DOMAIN slots /\ i \notin DOMAIN stored
        BY <1>3, <2>2, <3>1 DEF SlotsKept
      <4> QED
        BY <1>3, <3>1, <4>1 DEF With
    <3>2. CASE j # i
      <4>1. j \in DOMAIN slots \ reissued /\ slots'[j] = slots[j] /\ stored'[j] = stored[j]
        BY <1>3, <1>4, <2>2, <3>2 DEF With, SlotsKept
      <4> QED
        BY <4>1 DEF SlotsKept
    <3> QED
      BY <3>1, <3>2
  <2>3. reissued' # {} => gap'
    BY <1>1, <1>3 DEF SlotsKept
  <2> QED
    BY <2>1, <2>2, <2>3 DEF SlotsKept
<1>8. Events' /\ NamedEventsShared'
  BY <1>1 DEF Events, NamedEventsShared, Signalled
<1> QED
  BY <1>1, <1>5, <1>6, <1>7, <1>8

LEMMA TlsSetValueObjects ==
    ASSUME ThreadsAssumption, ObjectsAssumption, ObjInv, NEW i \in DOMAIN slots, TlsSetValue(i)
    PROVE  ObjInv'
<1> USE DEF ObjInv, TlsSetValue
<1>1. Budget' /\ StackInv' /\ UNCHANGED <<events, names, mutexes, gap, reissued, said>>
  BY CallCounts
<1>2. currentTid \in AllTids
  BY DEF StackInv, Shape
<1>3. DOMAIN slots' = DOMAIN slots /\ Slots'
  BY <1>1, <1>2 DEF Slots
<1>4. NoGap'
  BY <1>1, <1>3 DEF NoGap
<1>5. SlotsKept'
  BY <1>1 DEF SlotsKept
<1>6. Events' /\ NamedEventsShared'
  BY <1>1 DEF Events, NamedEventsShared, Signalled
<1> QED
  BY <1>1, <1>3, <1>4, <1>5, <1>6

LEMMA TlsFreeObjects ==
    ASSUME ThreadsAssumption, ObjectsAssumption, ObjInv, NEW i \in DOMAIN slots, TlsFree(i)
    PROVE  ObjInv'
<1> USE DEF ObjInv, TlsFree
<1>1. Budget' /\ StackInv' /\ UNCHANGED <<events, names, mutexes, said>>
  BY CallCounts
<1>2. /\ DOMAIN slots' = DOMAIN slots \ {i} /\ slots' \in [DOMAIN slots' -> SUBSET AllTids]
      /\ stored' \in [DOMAIN slots' -> SUBSET AllTids]
  BY DEF Without, Slots
<1>3. Slots'
  BY <1>2, FS_RemoveElement DEF Slots
<1>4. NoGap'
  <2> SUFFICES ASSUME ~gap' PROVE \E n \in Nat : DOMAIN slots' = 0..(n - 1)
    BY DEF NoGap
  <2>1. ~gap /\ \A j \in DOMAIN slots : ~(j > i)
    BY DEF Slots
  <2>2. PICK n \in Nat : DOMAIN slots = 0..(n - 1)
    BY <2>1 DEF NoGap
  <2>3. i \in 0..(n - 1)
    BY <2>2
  <2>4. n - 1 \in Nat /\ n - 1 \in DOMAIN slots
    BY <2>2, <2>3
  <2>5. i = n - 1
    BY <2>1, <2>3, <2>4
  <2>6. DOMAIN slots' = 0..((n - 1) - 1)
    BY <1>2, <2>2, <2>3, <2>5
  <2> QED BY <2>4, <2>6
<1>5. SlotsKept'
  <2>1. DOMAIN slots' = DOMAIN stored'
    BY <1>2
  <2>2. ASSUME NEW j \in DOMAIN slots' \ reissued' PROVE slots'[j] = stored'[j]
    <3>1. j \in DOMAIN slots \ reissued /\ j # i
      BY <1>2, <2>2
    <3>2. slots'[j] = slots[j] /\ stored'[j] = stored[j]
      BY <3>1 DEF Without, SlotsKept
    <3> QED
      BY <3>1, <3>2 DEF SlotsKept
  <2>3. reissued' # {} => gap'
    BY DEF SlotsKept
  <2> QED
    BY <2>1, <2>2, <2>3 DEF SlotsKept
<1>6. Events' /\ NamedEventsShared'
  BY <1>1 DEF Events, NamedEventsShared, Signalled
<1> QED
  BY <1>1, <1>3, <1>4, <1>5, <1>6

LEMMA CreateEventObjects ==
    ASSUME ThreadsAssumption, ObjectsAssumption, ObjInv,
           NEW n \in Names \cup {None}, NEW on \in BOOLEAN, CreateEvent(n, on)
    PROVE  ObjInv'
<1> USE DEF ObjInv, CreateEvent
<1>1. Budget' /\ StackInv' /\ UNCHANGED <<slots, mutexes, stored, gap, reissued>>
  BY CallCounts
<1>2. Slots' /\ NoGap' /\ SlotsKept'
  BY <1>1 DEF Slots, NoGap, SlotsKept
<1>3. CASE UNCHANGED <<events, names, said>>
  BY <1>1, <1>2, <1>3 DEF Events, NamedEventsShared, Signalled
<1>4. CASE /\ Existing(n) = 0
           /\ events' = Append(events, on)
           /\ names' = IF n = None THEN names ELSE [names EXCEPT ![n] = Len(events')]
           /\ said' = IF n = None \/ names[n] # 0 THEN said ELSE [said EXCEPT ![n] = on]
  <2>1. /\ Len(events) \in Nat /\ events' \in Seq(BOOLEAN) /\ Len(events') = Len(events) + 1
        /\ \A k \in 1..Len(events) : events'[k] = events[k]
        /\ events'[Len(events) + 1] = on
    BY <1>4, AppendProperties, LenProperties DEF Events
  <2>2. n # None => names[n] = 0
    BY <1>4 DEF Existing
  <2>3. names' \in [Names -> 0..Len(events')] /\ said' \in [Names -> BOOLEAN]
    BY <1>4, <2>1 DEF Events
  <2>4. Events'
    BY <1>1, <2>1, <2>3 DEF Events
  <2>5. NamedEventsShared'
    <3> SUFFICES ASSUME NEW m \in Names, names'[m] # 0 PROVE events'[names'[m]] = said'[m]
      BY DEF NamedEventsShared, Signalled
    <3>1. CASE n # None /\ m = n
      BY <3>1, <1>4, <2>1, <2>2 DEF Events
    <3>2. CASE ~(n # None /\ m = n)
      <4>1. names'[m] = names[m] /\ said'[m] = said[m]
        BY <3>2, <1>4, <2>2 DEF Events
      <4>2. names[m] \in 1..Len(events) /\ events[names[m]] = said[m]
        BY <4>1, <2>1 DEF Events, NamedEventsShared, Signalled
      <4> QED BY <4>1, <4>2, <2>1
    <3> QED BY <3>1, <3>2
  <2> QED BY <1>1, <1>2, <2>4, <2>5
<1> QED
  BY <1>3, <1>4

LEMMA SignalEventObjects ==
    ASSUME ThreadsAssumption, ObjectsAssumption, ObjInv,
           NEW e \in DOMAIN events, NEW on \in BOOLEAN, SignalEvent(e, on)
    PROVE  ObjInv'
<1> USE DEF ObjInv, SignalEvent
<1>1. Budget' /\ StackInv' /\ UNCHANGED <<slots, names, mutexes, stored, gap, reissued>>
  BY CallCounts
<1>2. Slots' /\ NoGap' /\ SlotsKept'
  BY <1>1 DEF Slots, NoGap, SlotsKept
<1>3. /\ e \in 1..Len(events) /\ DOMAIN events = 1..Len(events) /\ Len(events) \in Nat
      /\ events' \in Seq(BOOLEAN) /\ Len(events') = Len(events)
      /\ \A k \in 1..Len(events) : events'[k] = IF k = e THEN on ELSE events[k]
  <2>1. e \in 1..Len(events) /\ DOMAIN events = 1..Len(events) /\ Len(events) \in Nat
    BY LenProperties DEF Events
  <2> QED BY <2>1, ExceptSeq DEF Events
<1>4. Events'
  BY <1>1, <1>3 DEF Events
<1>5. NamedEventsShared'
  BY <1>1, <1>3 DEF Events, NamedEventsShared, Signalled
<1> QED
  BY <1>1, <1>2, <1>4, <1>5

LEMMA MutexObjects ==
    ASSUME ThreadsAssumption, ObjectsAssumption, ObjInv,
           \/ \E owned \in BOOLEAN : CreateMutex(owned)
           \/ \E m \in DOMAIN mutexes : ReleaseMutex(m)
    PROVE  ObjInv'
<1> USE DEF ObjInv
<1>1. Budget' /\ StackInv' /\ UNCHANGED <<slots, events, names, stored, gap, reissued, said>>
  BY CallCounts DEF CreateMutex, ReleaseMutex
<1>2. Slots' /\ NoGap' /\ SlotsKept' /\ NamedEventsShared'
  BY <1>1 DEF Slots, NoGap, SlotsKept, NamedEventsShared, Signalled
<1>3. mutexes' \in Seq(AllTids \cup {None})
  <2>1. currentTid \in AllTids
    BY DEF StackInv, Shape
  <2>2. ASSUME NEW owned \in BOOLEAN, CreateMutex(owned) PROVE mutexes' \in Seq(AllTids \cup {None})
    BY <2>1, <2>2, AppendProperties DEF CreateMutex, Events
  <2>3. ASSUME NEW m \in DOMAIN mutexes, ReleaseMutex(m) PROVE mutexes' \in Seq(AllTids \cup {None})
    <3>1. m \in 1..Len(mutexes)
      BY LenProperties DEF Events
    <3> QED BY <2>3, <3>1, ExceptSeq DEF ReleaseMutex, Events
  <2> QED BY <2>2, <2>3
<1> QED
  BY <1>1, <1>2, <1>3 DEF Events

\* A step of the threads leaves the objects alone, and queues at most one APC.
LEMMA ThreadObjectsStep ==
    ASSUME ThreadsAssumption, ObjectsAssumption, ObjInv, [Next]_vars, UNCHANGED ovars
    PROVE  ObjInv'
<1> USE DEF ObjInv, ovars
<1>1. StackInv'
  BY NextStack
<1>2. Slots' /\ NoGap' /\ SlotsKept'
  BY DEF Slots, NoGap, SlotsKept
<1>3. Events' /\ NamedEventsShared'
  BY DEF Events, NamedEventsShared, Signalled
<1>4. IsFiniteSet(QueuedApcs')
  <2>1. CASE UNCHANGED queued
    BY <2>1 DEF QueuedApcs, Budget
  <2>2. CASE \E a \in Apcs, h \in Tids \cup {None} : QueueUserAPC(a, h)
    <3>1. PICK a \in Apcs, t \in AllTids : queued' = [queued EXCEPT ![t] = Append(@, a)]
      BY <2>2 DEF QueueUserAPC, StackInv, Shape, AllTids
    <3>2. QueuedApcs' \subseteq QueuedApcs \cup {a}
      <4> SUFFICES ASSUME NEW u \in AllTids, NEW b \in ToSet(queued'[u])
                   PROVE  b \in QueuedApcs \cup {a}
        BY DEF QueuedApcs
      <4>1. ASSUME u = t PROVE ToSet(queued'[u]) \subseteq ToSet(queued[u]) \cup {a}
        <5>1. queued[u] \in Seq(Apcs) /\ queued'[u] = Append(queued[u], a)
          BY <4>1, <3>1 DEF StackInv, Shape
        <5>2. /\ Append(queued[u], a) \in Seq(Apcs) /\ Len(queued[u]) \in Nat
              /\ Len(Append(queued[u], a)) = Len(queued[u]) + 1
              /\ \A k \in 1..Len(queued[u]) : Append(queued[u], a)[k] = queued[u][k]
              /\ Append(queued[u], a)[Len(queued[u]) + 1] = a
              /\ DOMAIN queued[u] = 1..Len(queued[u])
          BY <5>1, AppendProperties, LenProperties
        <5>3. DOMAIN Append(queued[u], a) = 1..(Len(queued[u]) + 1)
          BY <5>2, LenProperties
        <5> QED BY <5>1, <5>2, <5>3 DEF ToSet
      <4>2. ASSUME u # t PROVE queued'[u] = queued[u]
        BY <4>2, <3>1 DEF StackInv, Shape
      <4> QED BY <4>1, <4>2 DEF QueuedApcs
    <3>3. IsFiniteSet(QueuedApcs \cup {a})
      BY FS_AddElement DEF Budget
    <3> QED BY <3>2, <3>3, FS_Subset
  <2> QED BY <2>1, <2>2 DEF Next, GuestCalls, HarnessSteps, vars, CreateThread, ExitThread,
          ExitProcess, AlertableWait, DrainNext, DrainDone, ApcEnds, ThreadEnds, MainEnds
<1> QED
  BY <1>1, <1>2, <1>3, <1>4 DEF Budget

LEMMA NextObjects ==
    ASSUME ThreadsAssumption, ObjectsAssumption, ObjInv, [ObjNext]_allVars
    PROVE  ObjInv'
<1>1. CASE TlsAlloc
  BY <1>1, TlsAllocObjects
<1>2. CASE \E i \in DOMAIN slots : TlsSetValue(i) \/ TlsFree(i)
  BY <1>2, TlsSetValueObjects, TlsFreeObjects
<1>3. CASE \E n \in Names \cup {None}, on \in BOOLEAN : CreateEvent(n, on)
  BY <1>3, CreateEventObjects
<1>4. CASE \E e \in DOMAIN events, on \in BOOLEAN : SignalEvent(e, on)
  BY <1>4, SignalEventObjects
<1>5. CASE \/ \E owned \in BOOLEAN : CreateMutex(owned)
           \/ \E m \in DOMAIN mutexes : ReleaseMutex(m)
  BY <1>5, MutexObjects
<1>6. CASE [Next]_vars /\ UNCHANGED ovars
  BY <1>6, ThreadObjectsStep
<1> QED
  BY <1>1, <1>2, <1>3, <1>4, <1>5, <1>6 DEF ObjNext, ObjectCalls, allVars

-----------------------------------------------------------------------------
(* The theorems.                                                           *)

\* The state has its shape: who is on the stack, what is queued, in which slot what.
THEOREM ObjTypeCorrect == ObjSpec => []ObjTypeOK
<1>1. ObjInit => ObjInv
  BY InitObjects, ThreadsAssumption, ObjectsAssumption
<1>2. ObjInv /\ [ObjNext]_allVars => ObjInv'
  BY NextObjects, ThreadsAssumption, ObjectsAssumption
<1>3. ObjInv => ObjTypeOK
  BY StackImplies, ThreadsAssumption DEF ObjInv, Slots, Events, Budget, ObjTypeOK
<1> QED
  BY <1>1, <1>2, <1>3, PTL DEF ObjSpec

\* Calls into the guest nest: a thread runs to its end inside CreateThread, an exit halts
\* the thread that exits and no other, APCs are called once, in order, as their thread.
THEOREM CallsAlwaysNest == ObjSpec => []CallsNest
<1>1. ObjInit => ObjInv
  BY InitObjects, ThreadsAssumption, ObjectsAssumption
<1>2. ObjInv /\ [ObjNext]_allVars => ObjInv'
  BY NextObjects, ThreadsAssumption, ObjectsAssumption
<1>3. ObjInv => CallsNest
  BY StackImplies, ThreadsAssumption DEF ObjInv
<1> QED
  BY <1>1, <1>2, <1>3, PTL DEF ObjSpec

\* For any number of threads, slots and events: a slot keeps what each thread stored until
\* TlsAlloc gives it out again, which needs a slot freed under another, and a named event is
\* one for all who ask for it, signalled as the last of them said.
THEOREM ObjectsAlwaysKeep == ObjSpec => []ObjectsKeepState
<1>1. ObjInit => ObjInv
  BY InitObjects, ThreadsAssumption, ObjectsAssumption
<1>2. ObjInv /\ [ObjNext]_allVars => ObjInv'
  BY NextObjects, ThreadsAssumption, ObjectsAssumption
<1>3. ObjInv => ObjectsKeepState
  BY DEF ObjInv, ObjectsKeepState
<1> QED
  BY <1>1, <1>2, <1>3, PTL DEF ObjSpec

=============================================================================
