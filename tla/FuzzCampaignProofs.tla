-------------------------- MODULE FuzzCampaignProofs --------------------------
(***************************************************************************)
(* Proofs about FuzzCampaign, for all buffers, seeds, blocks, budgets and  *)
(* caps: every input runs on the kernel the campaign found, and no input   *)
(* ends the campaign.                                                      *)
(*                                                                         *)
(* And about ConcolicShadow, the engine that finds inputs by solving what  *)
(* a run says of its own, for all widths, operations and orders of hooks:  *)
(* an expression that is kept has the value it is kept for, and an answer  *)
(* takes the path it was asked for.  They share no state.                  *)
(***************************************************************************)
EXTENDS FuzzCampaign, ConcolicShadow, SequenceTheorems, FiniteSetTheorems, WellFoundedInduction, TLAPS

OwnEngine == [regs |-> "own", rest |-> "own"]

\* The kernel as the campaign found it, but for its queue, and its snapshot.
Own(q) == FreshKernel(Engines, "real", q)
OwnSnap == [mem |-> "own", logLen |-> 1, dead |-> FALSE, engine |-> OwnEngine]

\* A kernel on which driver code has run since: the logs only grew.
Touched(k) ==
    /\ k \in [mem : Values, log : Seq(Values), dead : BOOLEAN, queue : BOOLEAN,
              cpu : {"real"}, engine : [{"real"} -> [regs : Values, rest : Values]]]
    /\ Len(k.log) >= 1 /\ k.log[1] = "own"

RunInv == snap = OwnSnap /\ Touched(kernel) /\ tracker = [enabled |-> TRUE, blocks |-> ran]
RestInv == kernel = Own(kernel.queue) /\ kernel.queue \in BOOLEAN

\* The inductive invariant.
Inv ==
    /\ pc \in {"seed", "loop", "seedrun", "childrun", "done"}
    /\ first = OwnSnap
    /\ Between => RestInv
    /\ ~Between => RunInv
    /\ iters \in Nat /\ iters <= Iterations
    /\ pc = "done" => iters = Iterations

-----------------------------------------------------------------------------
(* Snapshots.                                                              *)

\* The untouched kernel is one on which code may have run, and is alive.
LEMMA OwnTouched ==
    ASSUME NEW q \in BOOLEAN
    PROVE  Touched(Own(q)) /\ Own(q).queue = q /\ Own(q).dead = FALSE
  <1>1. [e \in {"real"} |-> OwnEngine] \in [{"real"} -> [regs : Values, rest : Values]]
    BY DEF OwnEngine, Values
  <1>2. <<"own">> \in Seq(Values) /\ Len(<<"own">>) = 1 /\ <<"own">>[1] = "own"
    BY DEF Values
  <1> QED  BY <1>1, <1>2 DEF Touched, Values, Own, FreshKernel, Engines, OwnEngine

\* captureSnapshot of an untouched kernel does not depend on its queue.
LEMMA CaptureOwn ==
    ASSUME NEW q \in BOOLEAN
    PROVE  Capture(Own(q)) = OwnSnap
  BY DEF Capture, OwnSnap, Own, FreshKernel, Engines, OwnEngine

\* Whatever driver code did, restoreSnapshot brings back all but the queue.
LEMMA RestoreOwn ==
    ASSUME NEW k, Touched(k)
    PROVE  Restore(k, OwnSnap) = Own(k.queue) /\ k.queue \in BOOLEAN
  <1>1. k.queue \in BOOLEAN /\ k.cpu = "real"
    BY DEF Touched
  <1>2. SubSeq(k.log, 1, 1) = <<"own">>
    <2>1. k.log \in Seq(Values) /\ Len(k.log) >= 1 /\ k.log[1] = "own"
      BY DEF Touched
    <2>2. /\ SubSeq(k.log, 1, 1) \in Seq(Values)
          /\ Len(SubSeq(k.log, 1, 1)) = 1
          /\ SubSeq(k.log, 1, 1)[1] = "own"
      BY <2>1
    <2>3. <<"own">> \in Seq(Values) /\ Len(<<"own">>) = 1 /\ <<"own">>[1] = "own"
      BY DEF Values
    <2>4. \A i \in 1..1 : SubSeq(k.log, 1, 1)[i] = <<"own">>[i]
      BY <2>2, <2>3
    <2> QED  BY <2>2, <2>3, <2>4, SeqEqual
  <1>3. [k.engine EXCEPT !["real"] = OwnEngine] = [e \in {"real"} |-> OwnEngine]
    BY DEF Touched
  <1> QED  BY <1>1, <1>2, <1>3 DEF Restore, OwnSnap, Own, FreshKernel, Engines, OwnEngine

\* Driver code touches nothing else of the kernel.
LEMMA RanTouched ==
    ASSUME NEW k, Touched(k), NEW l \in DriverRan(k, MaxLog)
    PROVE  Touched(l)
  <1> DEFINE ranEngine == [k.engine EXCEPT !["real"] = [regs |-> "run", rest |-> "run"]]
  <1>1. /\ l.mem = "run" /\ l.cpu = "real" /\ l.engine = ranEngine
        /\ l.dead \in BOOLEAN /\ l.queue \in BOOLEAN
        /\ l.log \in {k.log, Append(k.log, "run")}
        /\ l = [mem |-> l.mem, log |-> l.log, dead |-> l.dead, queue |-> l.queue,
                cpu |-> l.cpu, engine |-> l.engine]
    BY DEF DriverRan, Touched
  <1>2. l.log \in Seq(Values) /\ Len(l.log) >= 1 /\ l.log[1] = "own"
    <2>1. k.log \in Seq(Values) /\ Len(k.log) >= 1 /\ k.log[1] = "own"
      BY DEF Touched
    <2> QED  BY <1>1, <2>1, SMTT(20) DEF Values
  <1>3. ranEngine \in [{"real"} -> [regs : Values, rest : Values]]
    BY DEF Touched, Values
  <1> QED  BY <1>1, <1>2, <1>3 DEF Touched, Values

-----------------------------------------------------------------------------
(* The invariant.                                                          *)

LEMMA InitInv == Init => Inv
  <1> SUFFICES ASSUME Init PROVE Inv
    OBVIOUS
  <1>1. kernel = Own(FALSE)
    BY DEF Init, Own
  <1>2. kernel.queue = FALSE
    BY <1>1, OwnTouched
  <1>3. first = OwnSnap
    BY <1>1, CaptureOwn DEF Init
  <1>4. RestInv
    BY <1>1, <1>2 DEF RestInv
  <1>5. iters \in Nat /\ iters <= Iterations
    BY CampaignAssumption DEF Init
  <1> QED  BY <1>3, <1>4, <1>5 DEF Init, Inv, Between

\* Starting an input takes the snapshot of an untouched kernel.
LEMMA BeginInv ==
    ASSUME NEW buf, RestInv, BeginRun(buf)
    PROVE  RunInv'
  <1>1. snap' = OwnSnap
    BY CaptureOwn DEF BeginRun, RestInv
  <1>2. Touched(kernel')
    BY OwnTouched DEF BeginRun, RestInv
  <1> QED  BY <1>1, <1>2 DEF BeginRun, RunInv, Recording

\* Ending one leaves an untouched kernel that is alive.
LEMMA EndInv ==
    ASSUME RunInv, EndRun
    PROVE  RestInv' /\ ~kernel'.dead
  <1>1. kernel' = Own(kernel.queue) /\ kernel.queue \in BOOLEAN
    BY RestoreOwn DEF RunInv, EndRun
  <1>2. kernel'.queue = kernel.queue /\ ~kernel'.dead
    BY <1>1, OwnTouched
  <1> QED  BY <1>1, <1>2 DEF RestInv

LEMMA NextInv == Inv /\ [Next]_vars => Inv'
  <1> SUFFICES ASSUME Inv, [Next]_vars PROVE Inv'
    OBVIOUS
  <1>1. CASE StartSeed
    BY <1>1, BeginInv DEF StartSeed, Inv, Between, BeginRun
  <1>2. CASE StartChild
    <2>1. PICK buf : BeginRun(buf)
      BY <1>2 DEF StartChild
    <2>2. RunInv'
      BY <1>2, <2>1, BeginInv DEF StartChild, Inv, Between
    <2>3. iters' \in Nat /\ iters' <= Iterations
      BY <1>2, CampaignAssumption DEF StartChild, Inv
    <2> QED  BY <1>2, <2>1, <2>2, <2>3 DEF StartChild, Inv, Between, BeginRun
  <1>3. CASE RunBlock
    <2>1. Touched(kernel')
      BY <1>3, RanTouched DEF RunBlock, Inv, Between, RunInv
    <2>2. PICK b \in Blocks \cup {Outside} :
            tracker' = Hooked(tracker, b) /\ ran' = ran \cup ({b} \cap Blocks)
      BY <1>3 DEF RunBlock
    <2>3. tracker = [enabled |-> TRUE, blocks |-> ran]
      BY <1>3 DEF RunBlock, Inv, Between, RunInv
    <2>4. tracker' = [enabled |-> TRUE, blocks |-> ran']
      <3>1. CASE b \in Blocks
        <4>1. {b} \cap Blocks = {b}
          BY <3>1
        <4> QED  BY <2>2, <2>3, <3>1, <4>1 DEF Hooked
      <3>2. CASE b \notin Blocks
        <4>1. ran' = ran
          BY <2>2, <3>2
        <4> QED  BY <2>2, <2>3, <3>2, <4>1 DEF Hooked
      <3> QED  BY <3>1, <3>2
    <2> QED  BY <1>3, <2>1, <2>4 DEF RunBlock, Inv, Between, RunInv
  <1>4. CASE EndSeed
    <2>1. RestInv'
      BY <1>4, EndInv DEF EndSeed, Inv, Between
    <2>2. pc' \in {"seed", "loop"}
      BY <1>4 DEF EndSeed
    <2> QED  BY <1>4, <2>1, <2>2 DEF EndSeed, EndRun, Inv, Between
  <1>5. CASE EndChild
    <2>1. RestInv'
      BY <1>5, EndInv DEF EndChild, Inv, Between
    <2> QED  BY <1>5, <2>1 DEF EndChild, EndRun, Inv, Between
  <1>6. CASE Finish
    <2>1. RestInv
      BY <1>6 DEF Finish, Inv, Between
    <2>2. Touched(kernel) /\ ~kernel.dead
      BY <2>1, OwnTouched DEF RestInv
    <2>3. kernel' = Own(kernel.queue)
      BY <1>6, <2>2, RestoreOwn DEF Finish, Inv
    <2>4. RestInv'
      BY <2>1, <2>3, OwnTouched DEF RestInv
    <2> QED  BY <1>6, <2>2, <2>4 DEF Finish, Inv, Between
  <1>7. CASE UNCHANGED vars
    BY <1>7 DEF vars, Inv, Between, RestInv, RunInv, Touched
  <1> QED  BY <1>1, <1>2, <1>3, <1>4, <1>5, <1>6, <1>7 DEF Next

\* Every reachable state of the campaign satisfies the invariant.
THEOREM Invariance == Spec => []Inv
  <1> QED  BY InitInv, NextInv, PTL DEF Spec

\* snapshot.mjs: each input runs on the kernel the campaign found, and its
\* coverage is its own.
THEOREM RunsAreClean == Spec => []CleanRuns
  <1>1. Inv => CleanRuns
    <2> SUFFICES ASSUME Inv PROVE CleanRuns
      OBVIOUS
    <2>1. pc \in {"seedrun", "childrun"} => tracker.blocks = ran
      BY DEF Inv, Between, RunInv
    <2> QED  BY <2>1 DEF CleanRuns, Inv, RestInv, Own
  <1> QED  BY <1>1, Invariance, PTL

\* An input that stops the kernel costs one run of the budget, not the campaign.
THEOREM Survives == Spec => []CampaignSurvives
  <1>1. Inv => CampaignSurvives
    BY OwnTouched DEF Inv, CampaignSurvives, Between, RestInv
  <1> QED  BY <1>1, Invariance, PTL

-----------------------------------------------------------------------------
(* What the campaign keeps.                                                *)

\* The counts the scheduling works on.
Scheduled ==
    \/ hits = Counts(corpus)
    \/ /\ Len(corpus) = Cap /\ \A i \in DOMAIN corpus : ~corpus[i].won
       /\ hits = Counts(Front(corpus))

Shape ==
    /\ Len(kernel.log) <= MaxLog
    /\ tracker \in [enabled : BOOLEAN, blocks : SUBSET Blocks]
    /\ next \in 0..SeedCount /\ (pc = "seed" => next < SeedCount)
    /\ input \in Inputs \cup {None} /\ (~Between => input \in Inputs)
    /\ corpus \in Seq(EntryType)
    /\ seen \subseteq Blocks /\ ran \subseteq Blocks
    /\ hits \in [Blocks -> Nat]
    /\ best \in EntryType \cup {None}

\* The second layer of the invariant: in a run, too, all coverage of the runs before is seen,
\* and that of the entries is; the seed phase has room, exact counts and no success.
Kept ==
    /\ seen = covered
    /\ \A i \in DOMAIN corpus : corpus[i].cov \subseteq seen
    /\ CorpusSound
    /\ pc \in {"seed", "seedrun"} => /\ Len(corpus) < Cap /\ hits = Counts(corpus)
                                     /\ \A i \in DOMAIN corpus : ~corpus[i].won
    /\ pc \in {"loop", "childrun"} => Scheduled
    /\ BestIsLargest

\* A set of numbers has a least one.
LEMMA LeastNumber ==
    ASSUME NEW T \in SUBSET Nat, T # {}
    PROVE  \E x \in T : \A y \in T : x <= y
<1>1. \E x \in T : \A y \in T : ~(<<y, x>> \in OpToRel(<, Nat))
  <2> HIDE DEF OpToRel
  <2> QED
    BY NatLessThanWellFounded, WFMin
<1>2. ASSUME NEW x \in Nat, NEW y \in Nat, ~(<<y, x>> \in OpToRel(<, Nat)) PROVE x <= y
  BY <1>2 DEF OpToRel
<1> QED
  BY <1>1, <1>2

\* Induction on a set of numbers.
LEMMA SetInduction ==
    ASSUME NEW S, 0 \in S, \A n \in Nat : n \in S => n + 1 \in S
    PROVE  Nat \subseteq S
<1> DEFINE T == Nat \ S
<1> SUFFICES ASSUME T # {} PROVE FALSE
  OBVIOUS
<1>1. T \in SUBSET Nat
  OBVIOUS
<1> HIDE DEF T
<1>2. PICK x \in T : \A y \in T : x <= y
  BY <1>1, LeastNumber
<1>3. x # 0 /\ x - 1 \in Nat
  BY <1>2 DEF T
<1>4. x - 1 \in S
  BY <1>2, <1>3 DEF T
<1> QED
  BY <1>2, <1>3, <1>4 DEF T

-----------------------------------------------------------------------------
(* Scores: fractions with a positive denominator.                          *)

Scores == Nat \X (Nat \ {0})

\* A product keeps the order, and strictly so.
LEMMA TimesOrder ==
    ASSUME NEW a \in Nat, NEW b \in Nat, NEW n \in Nat
    PROVE  /\ a <= b => a * n <= b * n
           /\ n # 0 /\ a < b => a * n < b * n
           /\ a * n \in Nat /\ b * n \in Nat
<1>1. a * n \in Nat /\ b * n \in Nat
  OBVIOUS
<1>2. ASSUME a <= b PROVE a * n <= b * n
  <2>1. PICK d \in Nat : b = a + d
    <3>1. b - a \in Nat /\ b = a + (b - a)
      BY <1>2
    <3> QED
      BY <3>1
  <2>2. b * n = a * n + d * n /\ d * n \in Nat
    BY <2>1
  <2> QED
    BY <1>1, <2>2
<1>3. ASSUME n # 0, a < b PROVE a * n < b * n
  <2>1. PICK d \in Nat : b = a + 1 + d
    <3>1. b - a - 1 \in Nat /\ b = a + 1 + (b - a - 1)
      BY <1>3
    <3> QED
      BY <3>1
  <2>2. b * n = a * n + n + d * n /\ d * n \in Nat /\ n > 0
    BY <1>3, <2>1
  <2> QED
    BY <1>1, <2>2
<1> QED
  BY <1>1, <1>2, <1>3

\* What is not below x is not below anything x is not above.
LEMMA BelowFollows ==
    ASSUME NEW x \in Scores, NEW y \in Scores, NEW z \in Scores, ~Below(y, x), Below(y, z)
    PROVE  Below(x, z)
<1> PICK a \in Nat, b \in Nat, c \in Nat, p \in Nat \ {0}, q \in Nat \ {0}, r \in Nat \ {0} :
      x = <<a, p>> /\ y = <<b, q>> /\ z = <<c, r>>
  BY SMTT(20) DEF Scores
<1>1. a * q <= b * p /\ b * r < c * q
  BY DEF Below
<1>2. /\ a * q \in Nat /\ b * p \in Nat /\ b * r \in Nat /\ c * q \in Nat /\ a * r \in Nat /\ c * p \in Nat
  BY TimesOrder
<1>3. (a * q) * r <= (b * p) * r
  BY <1>1, <1>2, TimesOrder
<1>4. (b * r) * p < (c * q) * p
  BY <1>1, <1>2, TimesOrder
<1>5. (a * r) * q = (a * q) * r /\ (b * p) * r = (b * r) * p /\ (c * p) * q = (c * q) * p
  OBVIOUS
<1>6. (a * r) * q < (c * p) * q
  BY <1>3, <1>4, <1>5, <1>2, TimesOrder
<1>7. ~(c * p <= a * r)
  BY <1>2, <1>6, TimesOrder
<1> QED
  BY <1>2, <1>7 DEF Below

\* Of scores in a row there is a first with the highest.
LEMMA FirstHighest ==
    ASSUME NEW n \in Nat \ {0}, NEW s \in [1..n -> Scores]
    PROVE  \E i \in 1..n : \A j \in 1..n : ~Below(s[i], s[j]) /\ (j < i => Below(s[j], s[i]))
<1> DEFINE High(i, m) == \A j \in 1..m : ~Below(s[i], s[j]) /\ (j < i => Below(s[j], s[i]))
           T == {m \in Nat : m + 1 <= n => \E i \in 1..(m + 1) : High(i, m + 1)}
<1>1. ASSUME NEW x \in Scores PROVE ~Below(x, x)
  <2>1. x[1] * x[2] \in Nat
    BY TimesOrder DEF Scores
  <2> QED
    BY <2>1 DEF Below
<1>2. 0 \in T
  <2>1. High(1, 1)
    BY <1>1
  <2> QED
    BY <2>1
<1>3. ASSUME NEW m \in Nat, m \in T PROVE m + 1 \in T
  <2> SUFFICES ASSUME m + 2 <= n PROVE \E i \in 1..(m + 2) : High(i, m + 2)
    OBVIOUS
  <2>1. PICK i \in 1..(m + 1) : High(i, m + 1)
    BY <1>3
  <2>2. /\ m + 2 \in 1..n /\ i \in 1..n /\ i \in 1..(m + 2) /\ i < m + 2
        /\ \A j \in 1..(m + 2) : j \in 1..n /\ (j = m + 2 \/ j \in 1..(m + 1))
    BY <2>1
  <2>3. CASE Below(s[i], s[m + 2])
    <3>1. ASSUME NEW j \in 1..(m + 1) PROVE Below(s[j], s[m + 2]) /\ ~Below(s[m + 2], s[j])
      <4>1. ~Below(s[i], s[j]) /\ s[i] \in Scores /\ s[j] \in Scores /\ s[m + 2] \in Scores
        BY <2>1, <2>2
      <4>2. Below(s[j], s[m + 2])
        BY <4>1, <2>3, BelowFollows
      <4>3. \A p, q \in Scores : Below(p, q) => ~Below(q, p)
        <5> TAKE p, q \in Scores
        <5>1. p[1] * q[2] \in Nat /\ q[1] * p[2] \in Nat
          BY TimesOrder DEF Scores
        <5> QED
          BY <5>1 DEF Below
      <4> QED
        BY <4>1, <4>2, <4>3
    <3>2. High(m + 2, m + 2)
      BY <1>1, <2>2, <3>1
    <3> QED
      BY <3>2
  <2>4. CASE ~Below(s[i], s[m + 2])
    <3>1. High(i, m + 2)
      BY <2>1, <2>2, <2>4
    <3> QED
      BY <2>2, <3>1
  <2> QED
    BY <2>3, <2>4
<1>4. n - 1 \in T
  <2> HIDE DEF T
  <2> QED
    BY <1>2, <1>3, SetInduction
<1> QED
  BY <1>4

LEMMA HitsAreFinite ==
    ASSUME NEW cov \in SUBSET Blocks, NEW h \in [Blocks -> Nat]
    PROVE  IsFiniteSet(cov) /\ IsFiniteSet(HitsOf(cov, h))
<1> DEFINE Own1(b) == {b} \X (1..(IF h[b] = 0 THEN 1 ELSE h[b]))
           f == [b \in cov |-> Own1(b)]
           S == {Own1(b) : b \in cov}
<1>1. IsFiniteSet(cov)
  BY CorpusAssumption, FS_Subset
<1>2. f \in Surjection(cov, S)
  BY DEF Surjection
<1>3. IsFiniteSet(S)
  <2> HIDE DEF f, S
  <2> QED
    BY <1>1, <1>2, FS_Surjection
<1>4. ASSUME NEW b \in cov PROVE IsFiniteSet(Own1(b))
  <2>1. IsFiniteSet({b})
    BY FS_Singleton
  <2>2. PICK n \in Int : n = IF h[b] = 0 THEN 1 ELSE h[b]
    <3>1. h[b] \in Nat
      OBVIOUS
    <3> QED
      BY <3>1
  <2>3. IsFiniteSet(1..n)
    BY FS_Interval
  <2> QED
    BY <2>1, <2>2, <2>3, FS_Product
<1>5. \A t \in S : IsFiniteSet(t)
  BY <1>4
<1>6. IsFiniteSet(UNION S)
  <2> HIDE DEF S
  <2> QED
    BY <1>3, <1>5, FS_UNION
<1> QED
  BY <1>1, <1>6 DEF HitsOf

LEMMA ScoreIsFraction ==
    ASSUME NEW cov \in SUBSET Blocks, NEW h \in [Blocks -> Nat]
    PROVE  Score(cov, h, 0) \in Scores
<1>1. IsFiniteSet(cov) /\ IsFiniteSet(HitsOf(cov, h))
  BY HitsAreFinite
<1>2. Cardinality(HitsOf(cov, h)) \in Nat /\ Cardinality(cov) \in Nat
  BY <1>1, FS_CardinalityType
<1>3. cov # {} => Cardinality(cov) # 0
  BY <1>1, FS_EmptySet
<1> QED
  BY <1>2, <1>3 DEF Score, Scores

-----------------------------------------------------------------------------
(* Corpora.                                                                *)

\* buildGlobalHitCounts counts.
LEMMA CountsAreNumbers ==
    ASSUME NEW c \in Seq(EntryType)
    PROVE  Counts(c) \in [Blocks -> Nat]
<1>1. ASSUME NEW b \in Blocks PROVE Cardinality(Covers(c, b)) \in Nat
  <2>1. DOMAIN c = 1..Len(c) /\ Len(c) \in Nat /\ 1 \in Int /\ Len(c) \in Int
    OBVIOUS
  <2>2. IsFiniteSet(DOMAIN c)
    BY <2>1, FS_Interval
  <2>3. Covers(c, b) \in SUBSET DOMAIN c
    BY DEF Covers
  <2> QED
    BY <2>2, <2>3, FS_Subset, FS_CardinalityType
<1> QED
  BY <1>1 DEF Counts

\* An eviction drops an entry there is.
LEMMA WorstIsEntry ==
    ASSUME NEW c \in Seq(EntryType), c # <<>>, NEW h \in [Blocks -> Nat]
    PROVE  Worst(c, h) \in DOMAIN c
<1> DEFINE Sc(j) == Score(c[j].cov, h, 0)
           s == [j \in 1..Len(c) |-> Sc(j)]
<1>1. DOMAIN c = 1..Len(c) /\ Len(c) \in Nat \ {0}
  OBVIOUS
<1>2. ASSUME NEW j \in 1..Len(c) PROVE Sc(j) \in Scores
  <2>1. c[j] \in EntryType
    BY <1>1
  <2>2. c[j].cov \in SUBSET Blocks
    BY <2>1 DEF EntryType
  <2> QED
    BY <2>2, ScoreIsFraction
<1>3. s \in [1..Len(c) -> Scores]
  BY <1>2
<1> DEFINE n == Len(c)
<1>4. \E i \in 1..n : \A j \in 1..n : ~Below(s[i], s[j]) /\ (j < i => Below(s[j], s[i]))
  <2>1. n \in Nat \ {0} /\ s \in [1..n -> Scores]
    BY <1>1, <1>3
  <2> HIDE DEF s, n
  <2> QED
    BY <2>1, FirstHighest
<1>5. \E i \in DOMAIN c : \A j \in DOMAIN c : ~Below(Sc(i), Sc(j)) /\ (j < i => Below(Sc(j), Sc(i)))
  <2>1. \A j \in 1..n : s[j] = Sc(j)
    OBVIOUS
  <2> HIDE DEF s, Sc
  <2> QED
    BY <1>1, <1>4, <2>1
<1> QED
  BY <1>5 DEF Worst

\* What is left is what was there, each entry once.
LEMMA RemovesOne ==
    ASSUME NEW c \in Seq(EntryType), NEW i \in DOMAIN c
    PROVE  /\ RemoveAt(c, i) \in Seq(EntryType)
           /\ Len(RemoveAt(c, i)) = Len(c) - 1
           /\ \A k \in DOMAIN RemoveAt(c, i) :
                 LET j == IF k < i THEN k ELSE k + 1 IN j \in DOMAIN c /\ RemoveAt(c, i)[k] = c[j]
<1> DEFINE l == SubSeq(c, 1, i - 1)
           r == SubSeq(c, i + 1, Len(c))
<1>1. i \in 1..Len(c) /\ Len(c) \in Nat /\ DOMAIN c = 1..Len(c)
  OBVIOUS
<1>2. l \in Seq(EntryType) /\ Len(l) = i - 1 /\ \A k \in 1..(i - 1) : l[k] = c[k]
  BY <1>1
<1>3. r \in Seq(EntryType) /\ Len(r) = Len(c) - i /\ \A k \in 1..(Len(c) - i) : r[k] = c[i + k]
  BY <1>1
<1>4. RemoveAt(c, i) = l \o r
  BY DEF RemoveAt
<1> HIDE DEF l, r
<1>5. /\ l \o r \in Seq(EntryType) /\ Len(l \o r) = Len(l) + Len(r)
      /\ \A k \in 1..(Len(l) + Len(r)) : (l \o r)[k] = IF k <= Len(l) THEN l[k] ELSE r[k - Len(l)]
  BY <1>2, <1>3, ConcatProperties
<1>6. ASSUME NEW k \in 1..(Len(c) - 1)
      PROVE  LET j == IF k < i THEN k ELSE k + 1 IN j \in DOMAIN c /\ (l \o r)[k] = c[j]
  <2>1. CASE k < i
    BY <2>1, <1>1, <1>2, <1>3, <1>5
  <2>2. CASE ~(k < i)
    <3>1. k - (i - 1) \in 1..(Len(c) - i) /\ i + (k - (i - 1)) = k + 1 /\ ~(k <= i - 1)
      BY <2>2, <1>1
    <3>2. k \in 1..(Len(l) + Len(r)) /\ ~(k <= Len(l)) /\ k - Len(l) = k - (i - 1)
      BY <2>2, <1>1, <1>2, <1>3
    <3>3. (l \o r)[k] = r[k - (i - 1)]
      BY <3>2, <1>5
    <3>4. r[k - (i - 1)] = c[k + 1]
      BY <3>1, <1>3
    <3>5. k + 1 \in DOMAIN c
      BY <2>2, <1>1
    <3> QED
      BY <2>2, <3>3, <3>4, <3>5
  <2> QED
    BY <2>1, <2>2
<1>7. Len(l \o r) = Len(c) - 1
  BY <1>1, <1>2, <1>3, <1>5
<1>8. DOMAIN (l \o r) = 1..(Len(c) - 1)
  BY <1>5, <1>7
<1> QED
  BY <1>4, <1>5, <1>6, <1>7, <1>8

LEMMA FrontOfAppend ==
    ASSUME NEW c \in Seq(EntryType), NEW e \in EntryType
    PROVE  Front(Append(c, e)) = c
<1>1. Front(Append(c, e)) = SubSeq(Append(c, e), 1, Len(c))
  BY DEF Front
<1>2. /\ SubSeq(Append(c, e), 1, Len(c)) \in Seq(EntryType)
      /\ Len(SubSeq(Append(c, e), 1, Len(c))) = Len(c)
      /\ \A k \in 1..Len(c) : SubSeq(Append(c, e), 1, Len(c))[k] = c[k]
  OBVIOUS
<1> QED
  BY <1>1, <1>2, SeqEqual

-----------------------------------------------------------------------------
(* The second layer.                                                       *)

LEMMA MinOfSome ==
    ASSUME NEW S \in SUBSET Nat, S # {}
    PROVE  Min(S) \in S
  BY LeastNumber DEF Min

LEMMA SeedsThereAre == SeedCount \in Nat \ {0} /\ SeedCount <= Len(Seeds)
<1>1. Len(Seeds) \in Nat \ {0} /\ 2 * Cap \in Nat \ {0}
  BY CampaignAssumption, CorpusAssumption
<1>2. SeedCount = IF Len(Seeds) <= 2 * Cap THEN Len(Seeds) ELSE 2 * Cap
  BY <1>1 DEF SeedCount, Min
<1> QED
  BY <1>1, <1>2

LEMMA KeptInitially == Init => Shape /\ Kept
<1> SUFFICES ASSUME Init PROVE Shape /\ Kept
  OBVIOUS
<1>1. Len(kernel.log) <= MaxLog
  <2>1. kernel.log = <<"own">>
    BY DEF Init, FreshKernel
  <2> QED
    BY <2>1, CampaignAssumption
<1>2. corpus = <<>> /\ <<>> \in Seq(EntryType) /\ DOMAIN corpus = {} /\ Len(corpus) = 0
  BY DEF Init
<1>3. Shape
  <2>1. next \in 0..SeedCount /\ next < SeedCount /\ Between /\ input = None
    BY SeedsThereAre DEF Init, Between
  <2>2. tracker \in [enabled : BOOLEAN, blocks : SUBSET Blocks]
    BY DEF Init, Recording
  <2>3. hits \in [Blocks -> Nat] /\ best = None /\ seen = {} /\ ran = {}
    BY DEF Init
  <2> QED
    BY <1>1, <1>2, <2>1, <2>2, <2>3 DEF Shape
<1>4. hits = Counts(corpus)
  <2>1. \A b \in Blocks : Covers(corpus, b) = {}
    BY <1>2 DEF Covers
  <2> QED
    BY <2>1, FS_EmptySet DEF Init, Counts
<1>5. seen = UNION {corpus[i].cov : i \in DOMAIN corpus}
  BY <1>2 DEF Init
<1>6. CorpusSound
  BY <1>2, <1>5, CorpusAssumption DEF CorpusSound
<1> QED
  BY <1>2, <1>3, <1>4, <1>6, CorpusAssumption DEF Init, Kept, BestIsLargest

\* The corpus with one entry more.
Appended(c, e) ==
    /\ c \in Seq(EntryType) /\ Len(c) = Len(corpus) + 1 /\ c # <<>> /\ c # corpus
    /\ \A i \in DOMAIN c : (i \in DOMAIN corpus /\ c[i] = corpus[i]) \/ (i = Len(c) /\ c[i] = e)
    /\ \A i \in DOMAIN c : c[i].cov \subseteq seen \cup e.cov
    /\ \A i, j \in DOMAIN c : i # j => c[i].buf # c[j].buf \/ c[i].cov # c[j].cov
    /\ UNION {c[i].cov : i \in DOMAIN c} = (UNION {corpus[i].cov : i \in DOMAIN corpus}) \cup e.cov

\* A new entry whose coverage or buffer is new.
LEMMA AppendKept ==
    ASSUME corpus \in Seq(EntryType), NEW e \in EntryType, seen \subseteq Blocks,
           \A i \in DOMAIN corpus : corpus[i].cov \subseteq seen,
           \A i, j \in DOMAIN corpus :
              i # j => corpus[i].buf # corpus[j].buf \/ corpus[i].cov # corpus[j].cov,
           \A i \in DOMAIN corpus : corpus[i].buf # e.buf \/ corpus[i].cov # e.cov
    PROVE  Appended(Append(corpus, e), e)
<1>1. PICK c : c = Append(corpus, e)
  OBVIOUS
<1>2. /\ c \in Seq(EntryType) /\ Len(corpus) \in Nat /\ Len(c) = Len(corpus) + 1 /\ c # <<>> /\ c # corpus
      /\ DOMAIN corpus = 1..Len(corpus) /\ DOMAIN c = DOMAIN corpus \cup {Len(c)}
      /\ Len(c) \notin DOMAIN corpus
      /\ \A i \in DOMAIN corpus : c[i] = corpus[i]
      /\ c[Len(c)] = e
  BY <1>1
<1>3. ASSUME NEW i \in DOMAIN c
      PROVE  (i \in DOMAIN corpus /\ c[i] = corpus[i]) \/ (i = Len(c) /\ c[i] = e)
  <2>1. i \in DOMAIN corpus \/ i = Len(c)
    BY <1>2
  <2> QED
    BY <2>1, <1>2
<1>4. \A i \in DOMAIN c : c[i].cov \subseteq seen \cup e.cov
  BY <1>3
<1>5. \A i, j \in DOMAIN c : i # j => c[i].buf # c[j].buf \/ c[i].cov # c[j].cov
  BY <1>3
<1>6. UNION {c[i].cov : i \in DOMAIN c} = (UNION {corpus[i].cov : i \in DOMAIN corpus}) \cup e.cov
  BY <1>2
<1>7. Appended(c, e)
  BY <1>2, <1>3, <1>4, <1>5, <1>6 DEF Appended
<1> QED
  BY <1>1, <1>7

\* A step that leaves the corpus and what goes with it alone.
LEMMA KeptSame ==
    ASSUME Kept, UNCHANGED <<corpus, seen, hits, best, covered>>,
           pc' \in {"seed", "seedrun"} => pc \in {"seed", "seedrun"},
           pc' \in {"loop", "childrun"} => pc \in {"loop", "childrun"}
    PROVE  Kept'
<1>1. CorpusSound' /\ BestIsLargest' /\ (Scheduled' <=> Scheduled)
  BY DEF Kept, CorpusSound, BestIsLargest, Scheduled
<1> QED
  BY <1>1 DEF Kept

\* What an input's entry is, and that it is new if the campaign keeps it.
LEMMA EntryIsOwn ==
    ASSUME Inv, Shape, ~Between, NEW zero \in BOOLEAN, NEW won \in BOOLEAN
    PROVE  /\ Entry(zero, won) \in EntryType /\ Entry(zero, won) # None
           /\ Entry(zero, won).cov = ran /\ Entry(zero, won).buf = input
           /\ Entry(zero, won).won = won
           /\ tracker.blocks = ran
<1>1. tracker.blocks = ran /\ input \in Inputs /\ ran \in SUBSET Blocks
  BY DEF Inv, RunInv, Shape
<1>2. Entry(zero, won) \in EntryType
  BY <1>1 DEF Entry, EntryType
<1> QED
  BY <1>1, <1>2, CampaignAssumption DEF Entry

LEMMA NewEntryAppends ==
    ASSUME Inv, Shape, Kept, ~Between, NEW zero \in BOOLEAN, NEW won \in BOOLEAN,
           ~AlreadyHave
    PROVE  Appended(Append(corpus, Entry(zero, won)), Entry(zero, won))
<1>1. PICK e : e = Entry(zero, won)
  OBVIOUS
<1>2. e \in EntryType /\ e.cov = tracker.blocks /\ e.buf = input
  BY <1>1, EntryIsOwn
<1>3. \A i \in DOMAIN corpus : corpus[i].buf # e.buf \/ corpus[i].cov # e.cov
  BY <1>2 DEF AlreadyHave
<1>4. /\ corpus \in Seq(EntryType) /\ seen \subseteq Blocks
      /\ \A i \in DOMAIN corpus : corpus[i].cov \subseteq seen
      /\ \A i, j \in DOMAIN corpus :
            i # j => corpus[i].buf # corpus[j].buf \/ corpus[i].cov # corpus[j].cov
  BY DEF Shape, Kept, CorpusSound
<1>5. Appended(Append(corpus, e), e)
  BY <1>2, <1>3, <1>4, AppendKept
<1> QED
  BY <1>1, <1>5

\* An input with new blocks, or the first of all, is not in the corpus yet.
LEMMA NewBlocksAreNew ==
    ASSUME Kept, NewBlocks # {} \/ corpus = <<>>
    PROVE  ~AlreadyHave
<1>1. CASE NewBlocks # {}
  BY <1>1 DEF Kept, NewBlocks, AlreadyHave
<1>2. CASE corpus = <<>>
  <2>1. DOMAIN corpus = {}
    BY <1>2
  <2> QED
    BY <2>1 DEF AlreadyHave
<1> QED
  BY <1>1, <1>2

\* The log of an untouched kernel has one record.
LEMMA OwnLog == ASSUME RestInv' PROVE Len(kernel.log)' <= MaxLog
<1>1. kernel'.log = <<"own">>
  BY DEF RestInv, Own, FreshKernel
<1> QED
  BY <1>1, CampaignAssumption

LEMMA SeedKept ==
    ASSUME Inv, Shape, Kept, EndSeed, RestInv', ~kernel'.dead
    PROVE  Shape' /\ Kept'
<1>1. /\ ~Between /\ pc = "seedrun" /\ tracker.blocks = ran /\ ran \subseteq Blocks
      /\ tracker' = Paused /\ input' = None /\ ran' = {} /\ covered' = covered \cup ran
      /\ next' = next /\ Between'
  BY EntryIsOwn DEF EndSeed, EndRun, Between, Shape
<1>2. PICK zero \in BOOLEAN :
         corpus' = IF NewBlocks # {} \/ corpus = <<>> THEN Append(corpus, Entry(zero, FALSE))
                   ELSE corpus
  BY DEF EndSeed
<1>3. /\ Entry(zero, FALSE) \in EntryType /\ Entry(zero, FALSE).cov = ran
      /\ Entry(zero, FALSE).won = FALSE
  BY <1>1, EntryIsOwn
<1> DEFINE end == Len(corpus') >= Cap
<1>4. /\ seen' = seen \cup (IF corpus' # corpus THEN ran ELSE {})
      /\ hits' = IF end THEN hits ELSE Counts(corpus')
      /\ pc' = IF end \/ next = SeedCount THEN "loop" ELSE "seed"
      /\ \/ best' = None
         \/ /\ {i \in DOMAIN corpus' : corpus'[i].zero} # {}
            /\ best' = corpus'[Min({i \in DOMAIN corpus' : corpus'[i].zero})]
  BY <1>1 DEF EndSeed
<1>5. /\ corpus \in Seq(EntryType) /\ Len(corpus) \in Nat /\ Len(corpus) < Cap
      /\ hits = Counts(corpus) /\ \A i \in DOMAIN corpus : ~corpus[i].won
      /\ seen = covered /\ seen \subseteq Blocks /\ hits \in [Blocks -> Nat]
  BY <1>1 DEF Shape, Kept
<1>6. ASSUME NewBlocks # {} \/ corpus = <<>>
      PROVE  Kept' /\ corpus' \in Seq(EntryType) /\ seen' \subseteq Blocks
  <2>1. corpus' = Append(corpus, Entry(zero, FALSE))
    BY <1>2, <1>6
  <2>2. Appended(corpus', Entry(zero, FALSE))
    BY <1>1, <1>6, <2>1, NewBlocksAreNew, NewEntryAppends
  <2>3. /\ corpus' \in Seq(EntryType) /\ Len(corpus') = Len(corpus) + 1
        /\ \A i \in DOMAIN corpus' : ~corpus'[i].won
        /\ \A i \in DOMAIN corpus' : corpus'[i].cov \subseteq seen'
        /\ seen' = seen \cup ran
        /\ \A i, j \in DOMAIN corpus' :
              i # j => corpus'[i].buf # corpus'[j].buf \/ corpus'[i].cov # corpus'[j].cov
        /\ UNION {corpus'[i].cov : i \in DOMAIN corpus'}
             = (UNION {corpus[i].cov : i \in DOMAIN corpus}) \cup ran
    <3>1. seen' = seen \cup ran
      BY <1>4, <2>2 DEF Appended
    <3>2. \A i \in DOMAIN corpus' : ~corpus'[i].won
      BY <1>3, <1>5, <2>2 DEF Appended
    <3> QED
      BY <1>3, <2>2, <3>1, <3>2 DEF Appended
  <2>4. Len(corpus') <= Cap /\ (end => Len(corpus') = Cap)
    BY <1>5, <2>3, CorpusAssumption
  <2>5. seen = UNION {corpus[i].cov : i \in DOMAIN corpus}
    BY <1>5 DEF Kept, CorpusSound
  <2>6. CorpusSound'
    BY <2>3, <2>4, <2>5 DEF CorpusSound
  <2>7. hits' = IF end THEN Counts(Front(corpus')) ELSE Counts(corpus')
    BY <1>3, <1>4, <1>5, <2>1, FrontOfAppend
  <2>8. Scheduled'
    BY <2>3, <2>4, <2>7 DEF Scheduled
  <2>9. pc' = "seed" => Len(corpus') < Cap /\ hits' = Counts(corpus')
    BY <1>4, <2>3, <2>7, <1>5, CorpusAssumption
  <2>10. BestIsLargest'
    BY <2>3 DEF BestIsLargest
  <2>11. seen' = covered' /\ seen' \subseteq Blocks
    BY <1>1, <1>5, <2>3
  <2>12. Kept'
    BY <1>4, <2>3, <2>6, <2>8, <2>9, <2>10, <2>11 DEF Kept
  <2> QED
    BY <2>3, <2>11, <2>12
<1>7. ASSUME ~(NewBlocks # {} \/ corpus = <<>>)
      PROVE  Kept' /\ corpus' \in Seq(EntryType) /\ seen' \subseteq Blocks
  <2>1. corpus' = corpus /\ ran \subseteq seen
    BY <1>1, <1>2, <1>7 DEF NewBlocks
  <2>2. ~end
    BY <1>5, <2>1, CorpusAssumption
  <2>3. seen' = seen /\ hits' = Counts(corpus)
    BY <1>4, <2>1, <2>2
  <2>4. seen' = covered'
    BY <1>1, <1>5, <2>1, <2>3
  <2>5. CorpusSound'
    BY <2>1, <2>3 DEF Kept, CorpusSound
  <2>6. BestIsLargest'
    BY <1>5, <2>1 DEF BestIsLargest
  <2>7. Kept'
    BY <1>4, <1>5, <2>1, <2>3, <2>4, <2>5, <2>6 DEF Kept, Scheduled
  <2> QED
    BY <1>5, <2>1, <2>3, <2>7
<1>8. Kept' /\ corpus' \in Seq(EntryType) /\ seen' \subseteq Blocks
  BY <1>6, <1>7
<1>9. hits' \in [Blocks -> Nat]
  <2>1. Counts(corpus') \in [Blocks -> Nat]
    BY <1>8, CountsAreNumbers
  <2> QED
    BY <1>4, <1>5, <2>1
<1>10. best' \in EntryType \cup {None}
  <2>1. PICK w : w = {i \in DOMAIN corpus' : corpus'[i].zero}
    OBVIOUS
  <2>2. w \subseteq DOMAIN corpus' /\ DOMAIN corpus' \subseteq Nat
    BY <1>8, <2>1
  <2>3. w # {} => Min(w) \in DOMAIN corpus'
    BY <2>2, MinOfSome
  <2>4. best' = None \/ (w # {} /\ best' = corpus'[Min(w)])
    BY <1>4, <2>1
  <2>5. \A i \in DOMAIN corpus' : corpus'[i] \in EntryType
    BY <1>8
  <2> QED
    BY <2>3, <2>4, <2>5
<1>11. next \in 0..SeedCount /\ (pc' = "seed" => next < SeedCount)
  BY <1>4, SeedsThereAre DEF Shape
<1>12. tracker' \in [enabled : BOOLEAN, blocks : SUBSET Blocks]
  BY <1>1 DEF Paused
<1>13. Len(kernel'.log) <= MaxLog
  BY OwnLog
<1>14. SeedCount' = SeedCount
  BY DEF SeedCount
<1>15. Shape'
  BY <1>1, <1>8, <1>9, <1>10, <1>11, <1>12, <1>13, <1>14 DEF Shape
<1> QED
  BY <1>8, <1>15

LEMMA ChildKept ==
    ASSUME Inv, Shape, Kept, EndChild, RestInv'
    PROVE  Shape' /\ Kept'
<1>1. /\ ~Between /\ pc = "childrun" /\ pc' = "loop" /\ tracker.blocks = ran /\ ran \subseteq Blocks
      /\ tracker' = Paused /\ input' = None /\ ran' = {} /\ covered' = covered \cup ran
      /\ next' = next /\ Between'
  BY EntryIsOwn DEF EndChild, EndRun, Between, Shape
<1>2. PICK success \in BOOLEAN, zero \in BOOLEAN :
         /\ IF Keeps(success)
            THEN /\ seen' = seen \cup tracker.blocks
                 /\ corpus' = Evict(Append(corpus, Entry(zero, success)), hits)
                 /\ hits' = Rescored(corpus')
            ELSE UNCHANGED <<seen, corpus, hits>>
         /\ best' = IF success /\ Better(Keeps(success)) THEN Entry(zero, success) ELSE best
  BY DEF EndChild
<1>3. PICK e : e = Entry(zero, success)
  OBVIOUS
<1>4. e \in EntryType /\ e # None /\ e.cov = ran /\ e.won = success
  BY <1>1, <1>3, EntryIsOwn
<1>5. /\ corpus \in Seq(EntryType) /\ Len(corpus) \in Nat /\ Len(corpus) <= Cap
      /\ seen = covered /\ seen \subseteq Blocks /\ hits \in [Blocks -> Nat]
      /\ best \in EntryType \cup {None}
      /\ \A i \in DOMAIN corpus : corpus[i].cov \subseteq seen
      /\ Len(corpus) < Cap => seen = UNION {corpus[i].cov : i \in DOMAIN corpus}
  BY DEF Shape, Kept, CorpusSound
<1>6. ASSUME NEW x \in EntryType PROVE Cardinality(x.cov) \in Nat
  BY CorpusAssumption, FS_Subset, FS_CardinalityType DEF EntryType
<1>7. ASSUME ~Keeps(success)
      PROVE  Kept' /\ corpus' \in Seq(EntryType) /\ seen' \subseteq Blocks /\ hits' \in [Blocks -> Nat]
  <2>1. UNCHANGED <<seen, corpus, hits>>
    BY <1>2, <1>7
  <2>2. ran \subseteq seen
    BY <1>1, <1>5, <1>7 DEF Keeps, AlreadyHave, NewBlocks
  <2>3. seen' = covered'
    BY <1>1, <1>5, <2>1, <2>2
  <2>4. CorpusSound' /\ (Scheduled' <=> Scheduled)
    BY <2>1 DEF Kept, CorpusSound, Scheduled
  <2>5. BestIsLargest'
    <3>1. best' = best \/ best = None
      BY <1>2, <1>7 DEF Better
    <3> QED
      BY <2>1, <3>1 DEF Kept, BestIsLargest
  <2> QED
    BY <1>1, <1>5, <2>1, <2>3, <2>4, <2>5 DEF Kept
<1>8. ASSUME Keeps(success)
      PROVE  Kept' /\ corpus' \in Seq(EntryType) /\ seen' \subseteq Blocks /\ hits' \in [Blocks -> Nat]
  <2>1. PICK c : c = Append(corpus, e)
    OBVIOUS
  <2>2. /\ seen' = seen \cup ran /\ corpus' = Evict(c, hits) /\ hits' = Counts(corpus')
        /\ best' = IF success /\ Better(TRUE) THEN e ELSE best
    <3>1. Better(Keeps(success)) <=> Better(TRUE)
      BY <1>8 DEF Better
    <3> QED
      BY <1>1, <1>2, <1>3, <1>8, <2>1, <3>1 DEF Rescored
  <2>3. Appended(c, e)
    BY <1>1, <1>3, <1>8, <2>1, NewEntryAppends DEF Keeps
  <2>4. /\ c \in Seq(EntryType) /\ Len(c) = Len(corpus) + 1 /\ c # <<>>
        /\ \A i \in DOMAIN c : (i \in DOMAIN corpus /\ c[i] = corpus[i]) \/ c[i] = e
        /\ \A i \in DOMAIN c : c[i].cov \subseteq seen'
        /\ \A i, j \in DOMAIN c : i # j => c[i].buf # c[j].buf \/ c[i].cov # c[j].cov
        /\ UNION {c[i].cov : i \in DOMAIN c}
             = (UNION {corpus[i].cov : i \in DOMAIN corpus}) \cup ran
    BY <1>4, <2>2, <2>3 DEF Appended
  \* No entry of c covers more than the best.
  <2>5. ASSUME NEW i \in DOMAIN c, c[i].won
        PROVE  best' # None /\ Cardinality(c[i].cov) <= Cardinality(best'.cov)
    <3>1. ASSUME best # None
          PROVE  best \in EntryType /\ Cardinality(best.cov) \in Nat
      BY <1>5, <1>6, <3>1
    <3>2. Cardinality(ran) \in Nat
      BY <1>4, <1>6
    <3>3. CASE c[i] = e
      <4>1. success
        BY <1>4, <2>5, <3>3
      <4>2. CASE Better(TRUE)
        BY <1>4, <2>2, <3>2, <3>3, <4>1, <4>2
      <4>3. CASE ~Better(TRUE)
        <5>1. best' = best /\ best # None /\ ~(Cardinality(ran) > Cardinality(best.cov))
          BY <1>1, <2>2, <4>3 DEF Better
        <5> QED
          BY <1>4, <3>1, <3>2, <3>3, <5>1
      <4> QED
        BY <4>2, <4>3
    <3>4. CASE i \in DOMAIN corpus /\ c[i] = corpus[i]
      <4>1. best # None /\ Cardinality(corpus[i].cov) <= Cardinality(best.cov)
        BY <2>5, <3>4 DEF Kept, BestIsLargest
      <4>2. corpus[i] \in EntryType /\ Cardinality(corpus[i].cov) \in Nat
        BY <1>5, <1>6, <3>4
      <4>3. best' = best \/ (best' = e /\ Cardinality(ran) > Cardinality(best.cov))
        BY <1>1, <2>2, <4>1 DEF Better
      <4> QED
        BY <1>4, <3>1, <3>2, <3>4, <4>1, <4>2, <4>3
    <3> QED
      BY <2>4, <3>3, <3>4
  <2>6. seen' = covered' /\ seen' \subseteq Blocks
    BY <1>1, <1>5, <2>2
  <2>7. CASE Len(c) > Cap
    <3>1. PICK w : w = Worst(c, hits)
      OBVIOUS
    <3>2. w \in DOMAIN c /\ corpus' = RemoveAt(c, w)
      BY <1>5, <2>2, <2>4, <2>7, <3>1, WorstIsEntry DEF Evict
    <3>3. PICK f : f = [k \in DOMAIN corpus' |-> IF k < w THEN k ELSE k + 1]
      OBVIOUS
    <3>4. /\ corpus' \in Seq(EntryType) /\ Len(corpus') = Len(c) - 1
          /\ \A k \in DOMAIN corpus' : f[k] \in DOMAIN c /\ corpus'[k] = c[f[k]]
      BY <2>4, <3>2, <3>3, RemovesOne
    <3>5. \A j, k \in DOMAIN corpus' : j # k => f[j] # f[k]
      <4>1. DOMAIN corpus' \subseteq Nat /\ w \in Nat
        BY <2>4, <3>2, <3>4
      <4> QED
        BY <3>3, <4>1
    <3>6. Len(corpus') = Cap
      BY <1>5, <2>4, <2>7, <3>4, CorpusAssumption
    <3>7. CorpusSound'
      BY <2>4, <3>4, <3>5, <3>6, CorpusAssumption, SMTT(20) DEF CorpusSound
    <3>8. BestIsLargest'
      BY <2>5, <3>4 DEF BestIsLargest
    <3>9. \A k \in DOMAIN corpus' : corpus'[k].cov \subseteq seen'
      BY <2>4, <3>4
    <3>10. hits' \in [Blocks -> Nat]
      BY <2>2, <3>4, CountsAreNumbers
    <3> QED
      BY <1>1, <2>2, <2>6, <3>4, <3>7, <3>8, <3>9, <3>10 DEF Kept, Scheduled
  <2>8. CASE ~(Len(c) > Cap)
    <3>1. corpus' = c /\ Len(c) <= Cap /\ Len(corpus) < Cap
      BY <1>5, <2>2, <2>4, <2>8, CorpusAssumption DEF Evict
    <3>2. seen' = UNION {c[i].cov : i \in DOMAIN c}
      BY <1>5, <2>2, <2>4, <3>1
    <3>3. CorpusSound'
      BY <2>4, <3>1, <3>2 DEF CorpusSound
    <3>4. BestIsLargest'
      BY <2>5, <3>1 DEF BestIsLargest
    <3>5. hits' \in [Blocks -> Nat]
      BY <2>2, <2>4, <3>1, CountsAreNumbers
    <3> QED
      BY <1>1, <2>2, <2>4, <2>6, <3>1, <3>3, <3>4, <3>5 DEF Kept, Scheduled
  <2> QED
    BY <2>7, <2>8
<1>9. Kept' /\ corpus' \in Seq(EntryType) /\ seen' \subseteq Blocks /\ hits' \in [Blocks -> Nat]
  BY <1>7, <1>8
<1>10. best' \in EntryType \cup {None}
  BY <1>2, <1>3, <1>4, <1>5
<1>11. next \in 0..SeedCount /\ pc' # "seed" /\ SeedCount' = SeedCount
  BY <1>1 DEF Shape, SeedCount
<1>12. tracker' \in [enabled : BOOLEAN, blocks : SUBSET Blocks]
  BY <1>1 DEF Paused
<1>13. Len(kernel'.log) <= MaxLog
  BY OwnLog
<1>14. Shape'
  BY <1>1, <1>9, <1>10, <1>11, <1>12, <1>13 DEF Shape
<1> QED
  BY <1>9, <1>14

\* Driver code has run; its log is not longer than the bound.
LEMMA RanLog ==
    ASSUME NEW k, Touched(k), Len(k.log) <= MaxLog, NEW l \in DriverRan(k, MaxLog)
    PROVE  Len(l.log) <= MaxLog
  BY DEF DriverRan

LEMMA KeptStep == Inv /\ Shape /\ Kept /\ [Next]_vars /\ Inv' => Shape' /\ Kept'
<1> SUFFICES ASSUME Inv, Shape, Kept, [Next]_vars, Inv' PROVE Shape' /\ Kept'
  OBVIOUS
<1>1. SeedCount' = SeedCount
  BY DEF SeedCount
<1>2. ASSUME NEW buf \in Inputs, BeginRun(buf), next' \in 0..SeedCount, ~Between'
      PROVE  Shape'
  <2>1. /\ kernel' = kernel /\ tracker' = Recording /\ input' = buf /\ ran' = {}
        /\ UNCHANGED <<corpus, seen, hits, best>>
    BY <1>2 DEF BeginRun
  <2>2. tracker' \in [enabled : BOOLEAN, blocks : SUBSET Blocks]
    BY <2>1 DEF Recording
  <2>3. pc' # "seed"
    BY <1>2 DEF Between
  <2> QED
    BY <1>1, <1>2, <2>1, <2>2, <2>3 DEF Shape
<1>3. CASE StartSeed
  <2>1. next \in 0..SeedCount /\ next < SeedCount /\ SeedCount <= Len(Seeds)
    BY <1>3, SeedsThereAre DEF StartSeed, Shape
  <2>2. Seeds[next + 1] \in Inputs /\ next + 1 \in 0..SeedCount
    <3>1. next + 1 \in 1..Len(Seeds) /\ next + 1 \in 0..SeedCount
      BY <2>1, SeedsThereAre, CampaignAssumption
    <3> QED
      BY <3>1, CampaignAssumption
  <2>3. PICK buf \in Inputs : BeginRun(buf)
    BY <1>3, <2>2 DEF StartSeed
  <2>4. Shape'
    BY <1>2, <1>3, <2>2, <2>3 DEF StartSeed, Between
  <2>5. Kept'
    BY <1>3, <2>3, KeptSame DEF StartSeed, BeginRun
  <2> QED
    BY <2>4, <2>5
<1>4. CASE StartChild
  <2>1. PICK parent \in Pool(corpus, hits) : \E child \in Mutants(corpus[parent].buf) : BeginRun(child)
    BY <1>4 DEF StartChild
  <2>2. PICK buf \in Mutants(corpus[parent].buf) : BeginRun(buf)
    BY <2>1
  <2>3. corpus[parent] \in EntryType
    <3>1. parent \in DOMAIN corpus /\ corpus \in Seq(EntryType)
      BY <2>1 DEF Pool, Shape
    <3> QED
      BY <3>1
  <2>4. buf \in Inputs
    BY <2>2, <2>3, CampaignAssumption DEF Mutants, EntryType
  <2>5. next' \in 0..SeedCount /\ ~Between'
    BY <1>4 DEF StartChild, Shape, Between
  <2>6. Shape'
    BY <1>2, <2>2, <2>4, <2>5
  <2>7. Kept'
    BY <1>4, <2>2, KeptSame DEF StartChild, BeginRun
  <2> QED
    BY <2>6, <2>7
<1>5. CASE RunBlock
  <2>1. UNCHANGED <<pc, next, input, corpus, seen, hits, best, covered>>
    BY <1>5 DEF RunBlock
  <2>2. Kept'
    BY <2>1, KeptSame
  <2>3. Len(kernel'.log) <= MaxLog
    BY <1>5, RanLog DEF RunBlock, Inv, RunInv, Shape, Between
  <2>4. PICK b \in Blocks \cup {Outside} :
          tracker' = Hooked(tracker, b) /\ ran' = ran \cup ({b} \cap Blocks)
    BY <1>5 DEF RunBlock
  <2>5. ran' \subseteq Blocks /\ tracker' \in [enabled : BOOLEAN, blocks : SUBSET Blocks]
    BY <2>4 DEF Hooked, Shape
  <2>6. Between' <=> Between
    BY <2>1 DEF Between
  <2> QED
    BY <1>1, <2>1, <2>2, <2>3, <2>5, <2>6 DEF Shape
<1>6. CASE EndSeed
  <2>1. RestInv' /\ ~kernel'.dead
    BY <1>6, EndInv DEF EndSeed, Inv, Between
  <2> QED
    BY <1>6, <2>1, SeedKept
<1>7. CASE EndChild
  <2>1. RestInv'
    BY <1>7, EndInv DEF EndChild, Inv, Between
  <2> QED
    BY <1>7, <2>1, ChildKept
<1>8. CASE Finish
  <2>1. UNCHANGED <<next, input, corpus, seen, hits, best, ran, covered>> /\ pc' = "done"
    BY <1>8 DEF Finish
  <2>2. Kept'
    BY <2>1, KeptSame
  <2>3. RestInv'
    BY <2>1 DEF Inv, Between
  <2>4. Len(kernel'.log) <= MaxLog
    BY <2>3, OwnLog
  <2>5. tracker' \in [enabled : BOOLEAN, blocks : SUBSET Blocks]
    BY <1>8 DEF Finish, Shape
  <2>6. Between'
    BY <2>1 DEF Between
  <2> QED
    BY <1>1, <2>1, <2>2, <2>4, <2>5, <2>6 DEF Shape
<1>9. CASE UNCHANGED vars
  <2>1. Kept'
    BY <1>9, KeptSame DEF vars
  <2> QED
    BY <1>1, <1>9, <2>1 DEF vars, Shape, Between
<1> QED
  BY <1>3, <1>4, <1>5, <1>6, <1>7, <1>8, <1>9 DEF Next

\* What the campaign keeps satisfies the second layer, which rests on the first: that a run
\* has a kernel and a coverage of its own.
THEOREM KeptInvariance == Spec => [](Inv /\ Shape /\ Kept)
<1>1. Init => Inv /\ Shape /\ Kept
  BY InitInv, KeptInitially
<1>2. (Inv /\ Shape /\ Kept) /\ [Next]_vars => (Inv /\ Shape /\ Kept)'
  BY NextInv, KeptStep
<1> QED
  BY <1>1, <1>2, PTL DEF Spec

\* The state of a campaign keeps its shape: entries of inputs and image blocks, counts that
\* are numbers, no more runs than the budget.
THEOREM TypeCorrect == Spec => []TypeOK
<1>1. Inv /\ Shape /\ Kept => TypeOK
  <2> SUFFICES ASSUME Inv, Shape, Kept PROVE TypeOK
    OBVIOUS
  <2>1. Touched(kernel)
    BY OwnTouched DEF Inv, RestInv, RunInv
  <2>2. kernel \in KernelType(Engines, MaxLog)
    <3>1. kernel.log \in Seq(Values) /\ Len(kernel.log) \in 0..MaxLog
      BY <2>1, CampaignAssumption DEF Touched, Shape
    <3>2. kernel.log \in [1..Len(kernel.log) -> Values]
      BY <3>1
    <3>3. kernel.log \in UNION {[1..n -> Values] : n \in 0..MaxLog}
      BY <3>1, <3>2
    <3> QED
      BY <2>1, <3>3 DEF Touched, KernelType, Engines
  <2>3. iters \in 0..Iterations
    BY CampaignAssumption DEF Inv
  <2> QED
    BY <2>2, <2>3 DEF TypeOK, Inv, Shape, Kept
<1> QED
  BY <1>1, KeptInvariance, PTL

\* What the campaign keeps of its inputs agrees with what they executed: no coverage is
\* forgotten, the corpus keeps its cap and never has an entry twice, scheduling works on its
\* counts, and no success in it covers more than the best one.
THEOREM NothingIsLost == Spec => []CorpusTellsAll
<1>1. Kept => CorpusTellsAll
  BY DEF Kept, CorpusTellsAll, NothingForgotten, HitsFollowCorpus, Scheduled
<1> QED
  BY <1>1, KeptInvariance, PTL

-----------------------------------------------------------------------------
(* Functions defined by recursion, and powers of two.                      *)

Recursive(g, s0, N, F) == g = [n \in 0..N |-> IF n = 0 THEN s0 ELSE F[<<g[n - 1], n>>]]

\* A function defined by recursion from 0 to N exists.
LEMMA RecursionExists ==
    ASSUME NEW S, NEW s0 \in S, NEW N \in Nat, NEW F,
           \A n \in 1..N : \A s \in S : F[<<s, n>>] \in S
    PROVE  \E g \in [0..N -> S] : Recursive(g, s0, N, F)
<1> DEFINE Upto(g, m) == /\ g \in [0..m -> S]
                         /\ \A n \in 0..m : g[n] = IF n = 0 THEN s0 ELSE F[<<g[n - 1], n>>]
           T == {m \in Nat : m <= N => \E g : Upto(g, m)}
<1>1. 0 \in T
  <2> DEFINE g == [n \in 0..0 |-> s0]
  <2>1. Upto(g, 0)
    OBVIOUS
  <2> QED
    BY <2>1
<1>2. ASSUME NEW m \in Nat, m \in T PROVE m + 1 \in T
  <2> SUFFICES ASSUME m + 1 <= N PROVE \E g : Upto(g, m + 1)
    OBVIOUS
  <2>1. PICK g : Upto(g, m)
    BY <1>2
  <2> DEFINE h == [n \in 0..(m + 1) |-> IF n = m + 1 THEN F[<<g[m], m + 1>>] ELSE g[n]]
  <2>2. F[<<g[m], m + 1>>] \in S
    BY <2>1
  <2>3. h \in [0..(m + 1) -> S]
    BY <2>1, <2>2
  <2>4. ASSUME NEW n \in 0..(m + 1) PROVE h[n] = IF n = 0 THEN s0 ELSE F[<<h[n - 1], n>>]
    <3>1. CASE n = m + 1
      BY <3>1, <2>1
    <3>2. CASE n # m + 1 /\ n # 0
      <4>1. n \in 0..m /\ n - 1 \in 0..(m + 1) /\ n - 1 # m + 1
        BY <3>2
      <4>2. h[n] = g[n] /\ h[n - 1] = g[n - 1]
        BY <3>2, <4>1
      <4> HIDE DEF h
      <4> QED
        BY <3>2, <4>1, <4>2, <2>1
    <3>3. CASE n = 0
      <4>1. 0 \in 0..m /\ 0 \in 0..(m + 1) /\ 0 # m + 1
        OBVIOUS
      <4>2. g[0] = s0
        BY <2>1, <4>1
      <4>3. h[0] = g[0]
        BY <4>1
      <4> HIDE DEF h
      <4> QED
        BY <3>3, <4>2, <4>3
    <3> QED
      BY <3>1, <3>2, <3>3
  <2> QED
    BY <2>3, <2>4
<1>3. N \in T
  <2> HIDE DEF T
  <2> QED
    BY <1>1, <1>2, SetInduction
<1>4. PICK g : Upto(g, N)
  BY <1>3
<1>5. Recursive(g, s0, N, F)
  BY <1>4 DEF Recursive
<1> QED
  BY <1>4, <1>5

OnNumbers(g, s0, F) == g = [n \in Nat |-> IF n = 0 THEN s0 ELSE F[<<g[n - 1], n>>]]

\* A function defined by recursion from 0 on exists.
LEMMA RecursionOnNumbers ==
    ASSUME NEW S, NEW s0 \in S, NEW F,
           \A n \in Nat \ {0} : \A s \in S : F[<<s, n>>] \in S
    PROVE  \E g \in [Nat -> S] : OnNumbers(g, s0, F)
<1> DEFINE G(N) == CHOOSE g \in [0..N -> S] : Recursive(g, s0, N, F)
           h == [n \in Nat |-> G(n)[n]]
<1>1. ASSUME NEW N \in Nat PROVE G(N) \in [0..N -> S] /\ Recursive(G(N), s0, N, F)
  <2>1. ASSUME NEW n \in 1..N, NEW s \in S PROVE F[<<s, n>>] \in S
    <3>1. n \in Nat \ {0}
      OBVIOUS
    <3> QED
      BY <3>1
  <2>2. \E g \in [0..N -> S] : Recursive(g, s0, N, F)
    BY <2>1, RecursionExists
  <2> QED
    BY <2>2
<1>2. ASSUME NEW N \in Nat
      PROVE  /\ G(N) \in [0..N -> S]
             /\ \A n \in 0..N : G(N)[n] = IF n = 0 THEN s0 ELSE F[<<G(N)[n - 1], n>>]
  <2> HIDE DEF G
  <2>1. G(N) = [n \in 0..N |-> IF n = 0 THEN s0 ELSE F[<<G(N)[n - 1], n>>]]
    BY <1>1 DEF Recursive
  <2>2. \A n \in 0..N : [m \in 0..N |-> IF m = 0 THEN s0 ELSE F[<<G(N)[m - 1], m>>]][n]
                          = IF n = 0 THEN s0 ELSE F[<<G(N)[n - 1], n>>]
    OBVIOUS
  <2> QED
    BY <1>1, <2>1, <2>2
<1> HIDE DEF G
<1>3. ASSUME NEW N \in Nat, NEW n \in Nat, n <= N PROVE G(N + 1)[n] = G(N)[n]
  <2> DEFINE T == {m \in Nat : m <= N => G(N + 1)[m] = G(N)[m]}
  <2>1. 0 \in T
    <3>1. 0 \in 0..N /\ 0 \in 0..(N + 1) /\ N + 1 \in Nat
      OBVIOUS
    <3>2. G(N + 1)[0] = s0 /\ G(N)[0] = s0
      BY <3>1, <1>2
    <3> QED
      BY <3>2
  <2>2. ASSUME NEW m \in Nat, m \in T PROVE m + 1 \in T
    <3> SUFFICES ASSUME m + 1 <= N PROVE G(N + 1)[m + 1] = G(N)[m + 1]
      OBVIOUS
    <3>1. m + 1 \in 0..N /\ m + 1 \in 0..(N + 1) /\ m + 1 # 0 /\ (m + 1) - 1 = m /\ N + 1 \in Nat
      OBVIOUS
    <3>2. G(N + 1)[m] = G(N)[m]
      BY <2>2
    <3>3. G(N + 1)[m + 1] = F[<<G(N + 1)[(m + 1) - 1], m + 1>>]
      BY <3>1, <1>2
    <3>4. G(N)[m + 1] = F[<<G(N)[(m + 1) - 1], m + 1>>]
      BY <3>1, <1>2
    <3> QED
      BY <3>1, <3>2, <3>3, <3>4
  <2>3. n \in T
    <3> HIDE DEF T
    <3> QED
      BY <2>1, <2>2, SetInduction
  <2> QED
    BY <2>3, <1>3
<1>4. h \in [Nat -> S]
  BY <1>2
<1>5. ASSUME NEW n \in Nat PROVE h[n] = IF n = 0 THEN s0 ELSE F[<<h[n - 1], n>>]
  <2>1. CASE n = 0
    <3>1. 0 \in Nat /\ 0 \in 0..0
      OBVIOUS
    <3>2. \A k \in 0..0 : G(0)[k] = IF k = 0 THEN s0 ELSE F[<<G(0)[k - 1], k>>]
      BY <3>1, <1>2
    <3> QED
      BY <2>1, <3>1, <3>2
  <2>2. CASE n # 0
    <3>1. n - 1 \in Nat /\ n \in 0..n /\ (n - 1) + 1 = n /\ n - 1 <= n - 1
      BY <2>2
    <3>2. G(n)[n] = F[<<G(n)[n - 1], n>>]
      BY <2>2, <3>1, <1>2
    <3>3. G((n - 1) + 1)[n - 1] = G(n - 1)[n - 1]
      BY <1>3, <3>1
    <3> QED
      BY <2>2, <3>1, <3>2, <3>3
  <2> QED
    BY <2>1, <2>2
<1>6. h = [n \in Nat |-> IF n = 0 THEN s0 ELSE F[<<h[n - 1], n>>]]
  <2> HIDE DEF h
  <2>1. h = [n \in Nat |-> h[n]]
    BY <1>4
  <2> QED
    BY <2>1, <1>5
<1> QED
  BY <1>4, <1>6 DEF OnNumbers

\* Two is the function that its recursion describes.
LEMMA TwoRecursion ==
    /\ Two[0] = 1
    /\ \A n \in Nat : Two[n + 1] = 2 * Two[n]
    /\ \A n \in Nat : Two[n] \in Nat \ {0}
<1> DEFINE S == Nat \ {0}
           F == [q \in S \X (Nat \ {0}) |-> 2 * q[1]]
           body(g) == [n \in Nat |-> IF n = 0 THEN 1 ELSE 2 * g[n - 1]]
<1>1. \A n \in Nat \ {0} : \A s \in S : F[<<s, n>>] \in S
  OBVIOUS
<1>2. PICK g \in [Nat -> S] : OnNumbers(g, 1, F)
  <2>1. 1 \in S
    OBVIOUS
  <2> HIDE DEF S, F
  <2> QED
    BY <1>1, <2>1, RecursionOnNumbers
<1>3. ASSUME NEW n \in Nat PROVE g[n] = IF n = 0 THEN 1 ELSE 2 * g[n - 1]
  <2>1. g[n] = IF n = 0 THEN 1 ELSE F[<<g[n - 1], n>>]
    <3> HIDE DEF F
    <3>1. [m \in Nat |-> IF m = 0 THEN 1 ELSE F[<<g[m - 1], m>>]][n] = IF n = 0 THEN 1 ELSE F[<<g[n - 1], n>>]
      OBVIOUS
    <3> QED
      BY <3>1, <1>2 DEF OnNumbers
  <2>2. n # 0 => F[<<g[n - 1], n>>] = 2 * g[n - 1]
    <3> SUFFICES ASSUME n # 0 PROVE F[<<g[n - 1], n>>] = 2 * g[n - 1]
      OBVIOUS
    <3>1. g[n - 1] \in S /\ n \in Nat \ {0}
      BY <1>2
    <3> HIDE DEF S
    <3> QED
      BY <3>1
  <2> QED
    BY <2>1, <2>2
<1>4. g = body(g)
  <2>1. g = [n \in Nat |-> g[n]]
    BY <1>2
  <2> QED
    BY <2>1, <1>3
<1>5. Two = body(Two)
  <2>1. Two = CHOOSE f : f = body(f)
    BY DEF Two
  <2> HIDE DEF body
  <2> QED
    BY <2>1, <1>4
<1>6. \A n \in Nat : Two[n] = IF n = 0 THEN 1 ELSE 2 * Two[n - 1]
  <2> TAKE n \in Nat
  <2>1. body(Two)[n] = IF n = 0 THEN 1 ELSE 2 * Two[n - 1]
    OBVIOUS
  <2> HIDE DEF body
  <2> QED
    BY <2>1, <1>5
<1>7. Two[0] = 1
  BY <1>6
<1>8. ASSUME NEW n \in Nat PROVE Two[n + 1] = 2 * Two[n]
  <2>1. n + 1 \in Nat /\ n + 1 # 0 /\ (n + 1) - 1 = n
    OBVIOUS
  <2> QED
    BY <2>1, <1>6
<1>9. \A n \in Nat : Two[n] \in Nat \ {0}
  <2> DEFINE T == {n \in Nat : Two[n] \in Nat \ {0}}
  <2>1. 0 \in T
    BY <1>7
  <2>2. ASSUME NEW n \in Nat, n \in T PROVE n + 1 \in T
    BY <2>2, <1>8
  <2>3. Nat \subseteq T
    <3> HIDE DEF T
    <3> QED
      BY <2>1, <2>2, SetInduction
  <2> QED
    BY <2>3
<1> QED
  BY <1>7, <1>8, <1>9

LEMMA TwoSum ==
    ASSUME NEW m \in Nat, NEW n \in Nat
    PROVE  Two[m + n] = Two[m] * Two[n]
<1> DEFINE T == {k \in Nat : Two[m + k] = Two[m] * Two[k]}
<1>1. 0 \in T
  BY TwoRecursion
<1>2. ASSUME NEW k \in Nat, k \in T PROVE k + 1 \in T
  <2>1. m + k \in Nat /\ m + (k + 1) = (m + k) + 1
    OBVIOUS
  <2>2. Two[m + (k + 1)] = 2 * Two[m + k] /\ Two[k + 1] = 2 * Two[k]
    BY <2>1, TwoRecursion
  <2>3. Two[m] \in Nat /\ Two[k] \in Nat
    BY TwoRecursion
  <2>4. 2 * (Two[m] * Two[k]) = Two[m] * (2 * Two[k])
    BY <2>3
  <2> QED
    BY <1>2, <2>2, <2>4
<1>3. Nat \subseteq T
  <2> HIDE DEF T
  <2> QED
    BY <1>1, <1>2, SetInduction
<1> QED
  BY <1>3

\* Of two powers, the larger one is a multiple of the smaller one.
LEMMA TwoMultiple ==
    ASSUME NEW m \in Nat, NEW n \in Nat, m <= n
    PROVE  n - m \in Nat /\ Two[n] = Two[m] * Two[n - m] /\ Two[m] <= Two[n]
<1>1. n - m \in Nat /\ m + (n - m) = n
  OBVIOUS
<1>2. Two[n] = Two[m] * Two[n - m]
  BY <1>1, TwoSum
<1>3. Two[m] \in Nat \ {0} /\ Two[n - m] \in Nat \ {0}
  BY <1>1, TwoRecursion
<1>4. ASSUME NEW a \in Nat \ {0}, NEW b \in Nat \ {0} PROVE a <= a * b
  OBVIOUS
<1> QED
  BY <1>1, <1>2, <1>3, <1>4

-----------------------------------------------------------------------------
(* Quotients and remainders.                                               *)

LEMMA DivMod ==
    ASSUME NEW a \in Int, NEW b \in Nat \ {0}
    PROVE  a % b \in 0..(b - 1) /\ a \div b \in Int /\ a = b * (a \div b) + (a % b)
OBVIOUS

LEMMA DivModUnique ==
    ASSUME NEW b \in Nat \ {0}, NEW q \in Int, NEW r \in 0..(b - 1)
    PROVE  (b * q + r) % b = r /\ (b * q + r) \div b = q
OBVIOUS

LEMMA DivNat ==
    ASSUME NEW a \in Nat, NEW b \in Nat \ {0}
    PROVE  a \div b \in Nat /\ a \div b <= a
OBVIOUS

\* A remainder of a remainder by a multiple, and its quotient.
LEMMA ModOfMod ==
    ASSUME NEW a \in Int, NEW b \in Nat \ {0}, NEW c \in Nat \ {0}
    PROVE  (a % (b * c)) % b = a % b
<1>1. PICK d \in Nat \ {0} : d = b * c
  OBVIOUS
<1>2. PICK q \in Int, r \in Int : r = a % d /\ a = d * q + r
  <2>1. a = d * (a \div d) + (a % d) /\ a \div d \in Int /\ a % d \in Int
    BY DivMod
  <2> QED
    BY <2>1
<1>3. PICK k \in Int, m \in Int : m = r % b /\ r = b * k + m /\ m \in 0..(b - 1)
  <2>1. r = b * (r \div b) + (r % b) /\ r \div b \in Int /\ r % b \in 0..(b - 1)
    BY DivMod
  <2>2. r % b \in Int
    BY <2>1
  <2> QED
    BY <2>1, <2>2
<1>4. a = b * (c * q + k) + m /\ c * q + k \in Int
  BY <1>1, <1>2, <1>3
<1>6. a % b = r % b
  BY <1>3, <1>4, DivModUnique
<1> QED
  BY <1>6, <1>2, <1>1

LEMMA ModOfMultiple ==
    ASSUME NEW b \in Nat \ {0}, NEW q \in Int, NEW x \in Int
    PROVE  (b * q + x) % b = x % b
<1>1. x = b * (x \div b) + (x % b) /\ x \div b \in Int /\ x % b \in 0..(b - 1)
  BY DivMod
<1>2. b * q + x = b * (q + (x \div b)) + (x % b) /\ q + (x \div b) \in Int
  BY <1>1
<1> QED
  BY <1>1, <1>2, DivModUnique

LEMMA ModOfSmall ==
    ASSUME NEW b \in Nat \ {0}, NEW x \in 0..(b - 1)
    PROVE  x % b = x /\ x \div b = 0
OBVIOUS

\* A number below a product has a quotient below a factor.
LEMMA DivOfProduct ==
    ASSUME NEW b \in Nat \ {0}, NEW c \in Nat \ {0}, NEW x \in 0..(b * c - 1)
    PROVE  x \div b \in 0..(c - 1)
<1>1. x \in Nat /\ x < b * c
  OBVIOUS
<1>2. x = b * (x \div b) + (x % b) /\ x \div b \in Nat /\ x % b \in 0..(b - 1)
  BY <1>1, DivMod, DivNat
<1>3. CASE x \div b >= c
  <2>1. ASSUME NEW q \in Nat, q >= c PROVE b * q >= b * c
    BY <2>1
  <2>2. b * (x \div b) >= b * c
    BY <1>2, <1>3, <2>1
  <2> QED
    BY <1>1, <1>2, <2>2
<1> QED
  BY <1>2, <1>3

(***************************************************************************)
(* The concolic engine: an expression that is kept denotes, for the input  *)
(* that runs, the value it is kept beside.                                 *)
(***************************************************************************)
RegValues == 0..(Two[Bits(RegWidth)] - 1)

\* An expression's value depends on the bytes it names only.
Depends(e) ==
    \A in1, in2 \in AllInputs :
        (\A i \in e.ids : in1[i + 1] = in2[i + 1]) => e.val[in1] = e.val[in2]

\* An expression of a word, and of a predicate.
OfWord(e) ==
    /\ e \in Exprs /\ Depends(e)
    /\ e.bits \in 1..Bits(RegWidth)
    /\ \A in \in AllInputs : e.val[in] < Two[e.bits]

OfTruth(e) ==
    /\ e \in Exprs /\ Depends(e)
    /\ e.bits \in {0, 1}
    /\ \A in \in AllInputs : e.val[in] \in {0, 1}

KeptWord(e) == e = Nil \/ (OfWord(e) /\ ~e.const)

FlagNames == {"zf", "cf", "sf"}
FlagValues == [zf : {0, 1}, cf : {0, 1}, sf : {0, 1}, of : {0, 1}]

CpuStates == [mem : [Memory -> ByteValues], regs : [Registers -> RegValues],
              flags : FlagValues, value : Nat]

CpuTyped ==
    /\ buffer \in AllInputs
    /\ cpu \in CpuStates
    /\ meant \in [load : Nat \cup {NoValue}, pending : Nat \cup {NoValue}]
    /\ trusted \in BOOLEAN

ShadowTyped ==
    /\ shadow \in [mem : [Memory -> Exprs \cup {Nil}], regs : [Registers -> Exprs \cup {Nil}],
                   flags : [zf : Exprs \cup {Nil}, cf : Exprs \cup {Nil}, sf : Exprs \cup {Nil}]]
    /\ \A a \in Memory : KeptWord(shadow.mem[a])
                           /\ (shadow.mem[a] # Nil => shadow.mem[a].bits = ByteBits)
    /\ \A r \in Registers : KeptWord(shadow.regs[r])
    /\ shadow.flags = NoFlags \/ \A f \in FlagNames : OfTruth(shadow.flags[f])
    /\ KeptWord(lastLoad) /\ KeptWord(pendingSym)

PathTyped ==
    /\ pathConstraints \in Seq([pred : Exprs, taken : BOOLEAN, cc : Codes])
    /\ \A i \in DOMAIN pathConstraints : OfTruth(pathConstraints[i].pred)

\* What is kept beside a value has it, the constant expressions of flags as well.
MemHolds ==
    \A a \in Memory : shadow.mem[a] # Nil => shadow.mem[a].val[buffer] = cpu.mem[a]

RegsHold ==
    \A r \in Registers : shadow.regs[r] # Nil =>
        shadow.regs[r].val[buffer] = Low(cpu.regs[r], shadow.regs[r].bits)

FlagsHold ==
    shadow.flags # NoFlags => \A f \in FlagNames : shadow.flags[f].val[buffer] = cpu.flags[f]

PendingHold ==
    /\ lastLoad # Nil /\ meant.load # NoValue => lastLoad.val[buffer] = meant.load
    /\ pendingSym # Nil /\ meant.pending # NoValue => pendingSym.val[buffer] = meant.pending

PathHolds ==
    \A i \in DOMAIN pathConstraints :
        pathConstraints[i].cc \notin Signed => SaysOf(pathConstraints[i], buffer)

ShadowInv ==
    /\ CpuTyped /\ ShadowTyped /\ PathTyped
    /\ trusted => MemHolds /\ RegsHold /\ FlagsHold /\ PendingHold /\ PathHolds

-----------------------------------------------------------------------------
(* Bits and bytes.                                                         *)

LEMMA LowRange ==
    ASSUME NEW v \in Int, NEW n \in Nat
    PROVE  Low(v, n) \in 0..(Two[n] - 1) /\ Low(v, n) \in Nat /\ Low(v, n) < Two[n]
<1>1. Two[n] \in Nat \ {0}
  BY TwoRecursion
<1>2. v % Two[n] \in 0..(Two[n] - 1)
  BY <1>1, DivMod
<1> QED
  BY <1>1, <1>2 DEF Low

LEMMA LowSmall ==
    ASSUME NEW n \in Nat, NEW v \in 0..(Two[n] - 1)
    PROVE  Low(v, n) = v
<1>1. Two[n] \in Nat \ {0}
  BY TwoRecursion
<1> QED
  BY <1>1, ModOfSmall DEF Low

LEMMA LowOfLow ==
    ASSUME NEW v \in Int, NEW n \in Nat, NEW m \in Nat, m <= n
    PROVE  Low(Low(v, n), m) = Low(v, m)
<1>1. Two[n] = Two[m] * Two[n - m] /\ Two[m] \in Nat \ {0} /\ Two[n - m] \in Nat \ {0}
  BY TwoMultiple, TwoRecursion
<1>2. PICK b \in Nat \ {0}, c \in Nat \ {0} : b = Two[m] /\ c = Two[n - m] /\ Two[n] = b * c
  BY <1>1
<1>3. (v % (b * c)) % b = v % b
  BY ModOfMod
<1> QED
  BY <1>2, <1>3 DEF Low

LEMMA LowOfSum ==
    ASSUME NEW v \in Int, NEW q \in Int, NEW n \in Nat
    PROVE  Low(Two[n] * q + v, n) = Low(v, n)
<1>1. Two[n] \in Nat \ {0}
  BY TwoRecursion
<1> QED
  BY <1>1, ModOfMultiple DEF Low

LEMMA BitsOf ==
    /\ \A n \in Nat : Bits(n) \in Nat
    /\ \A n \in 1..RegWidth : Bits(n) \in 1..Bits(RegWidth) /\ Bits(n) \in Nat
    /\ Bits(1) = ByteBits /\ ByteBits \in 1..Bits(RegWidth) /\ 1 \in 1..Bits(RegWidth)
    /\ Bits(0) = 0 /\ ByteBits \in Nat \ {0} /\ RegWidth \in Nat \ {0}
    /\ OperandSizes \subseteq 1..RegWidth
<1>1. ByteBits \in Nat \ {0} /\ RegWidth \in Nat \ {0} /\ OperandSizes \subseteq 1..RegWidth
  BY ShadowAssumption
<1>2. ASSUME NEW b \in Nat \ {0}, NEW w \in Nat \ {0}, NEW n \in 1..w PROVE b * n <= b * w /\ b * n >= 1 /\ b * n \in Nat
  <2>1. b * w = b * n + b * (w - n) /\ b * (w - n) >= 0
    OBVIOUS
  <2> QED
    BY <2>1
<1>3. \A n \in 1..RegWidth : Bits(n) \in 1..Bits(RegWidth) /\ Bits(n) \in Nat
  BY <1>1, <1>2 DEF Bits
<1>4. Bits(1) = ByteBits /\ 1 \in 1..RegWidth /\ Bits(0) = 0
  BY <1>1 DEF Bits
<1>5. \A n \in Nat : Bits(n) \in Nat
  BY <1>1 DEF Bits
<1>6. ByteBits \in 1..Bits(RegWidth) /\ Bits(RegWidth) \in Nat
  <2> HIDE DEF Bits
  <2> QED
    BY <1>1, <1>3, <1>4, <1>5
<1>7. 1 \in 1..Bits(RegWidth)
  BY <1>6, <1>1
<1> QED
  BY <1>1, <1>3, <1>4, <1>5, <1>6, <1>7

\* The equations of Number, and that it has as many bits as its digits.
LEMMA NumberOf ==
    ASSUME NEW n \in Nat, NEW bits \in Nat, NEW digit \in [0..(n - 1) -> 0..(Two[bits] - 1)]
    PROVE  \E s \in [0..n -> Nat] :
              /\ s[0] = 0
              /\ \A i \in 1..n : s[i] = s[i - 1] + digit[i - 1] * Two[bits * (i - 1)]
              /\ \A i \in 0..n : s[i] < Two[bits * i]
              /\ Number(digit, n, bits) = s[n]
<1> DEFINE F == [q \in Nat \X (1..n) |-> q[1] + digit[q[2] - 1] * Two[bits * (q[2] - 1)]]
           body(g) == [i \in 0..n |-> IF i = 0 THEN 0
                                      ELSE g[i - 1] + digit[i - 1] * Two[bits * (i - 1)]]
           ch == CHOOSE g : g = body(g)
<1>1. ASSUME NEW i \in 1..n
      PROVE  i - 1 \in 0..(n - 1) /\ digit[i - 1] \in Nat /\ digit[i - 1] <= Two[bits] - 1
             /\ bits * (i - 1) \in Nat /\ Two[bits * (i - 1)] \in Nat \ {0}
  <2>1. i - 1 \in 0..(n - 1) /\ i - 1 \in Nat
    OBVIOUS
  <2>2. digit[i - 1] \in 0..(Two[bits] - 1) /\ Two[bits] \in Nat \ {0}
    BY <2>1, TwoRecursion
  <2>3. bits * (i - 1) \in Nat
    BY <2>1
  <2>4. Two[bits * (i - 1)] \in Nat \ {0}
    <3> DEFINE e == bits * (i - 1)
    <3> HIDE DEF e
    <3>1. e \in Nat
      BY <2>3 DEF e
    <3>2. Two[e] \in Nat \ {0}
      BY <3>1, TwoRecursion
    <3> QED
      BY <3>2 DEF e
  <2>5. digit[i - 1] \in Nat /\ digit[i - 1] <= Two[bits] - 1
    BY <2>2
  <2> QED
    BY <2>1, <2>3, <2>4, <2>5
<1>2. ASSUME NEW i \in 1..n, NEW x \in Nat
      PROVE  F[<<x, i>>] = x + digit[i - 1] * Two[bits * (i - 1)] /\ F[<<x, i>>] \in Nat
  <2>1. F[<<x, i>>] = x + digit[i - 1] * Two[bits * (i - 1)]
    OBVIOUS
  <2>2. ASSUME NEW a \in Nat, NEW b \in Nat PROVE x + a * b \in Nat
    OBVIOUS
  <2> HIDE DEF F
  <2> QED
    BY <2>1, <2>2, <1>1
<1>3. PICK g \in [0..n -> Nat] : Recursive(g, 0, n, F)
  <2>1. \A i \in 1..n : \A x \in Nat : F[<<x, i>>] \in Nat
    BY <1>2
  <2> HIDE DEF F
  <2> QED
    BY <2>1, RecursionExists
<1>4. g[0] = 0 /\ \A i \in 1..n : g[i] = g[i - 1] + digit[i - 1] * Two[bits * (i - 1)]
  <2>1. g = [i \in 0..n |-> IF i = 0 THEN 0 ELSE F[<<g[i - 1], i>>]]
    BY <1>3 DEF Recursive
  <2> HIDE DEF F
  <2>2. g[0] = 0
    BY <2>1
  <2>3. ASSUME NEW i \in 1..n PROVE g[i] = g[i - 1] + digit[i - 1] * Two[bits * (i - 1)]
    <3>1. i \in 0..n /\ i # 0 /\ i - 1 \in 0..n /\ g[i - 1] \in Nat
      OBVIOUS
    <3>2. g[i] = F[<<g[i - 1], i>>]
      BY <2>1, <3>1
    <3> QED
      BY <3>1, <3>2, <1>2
  <2> QED
    BY <2>2, <2>3
<1>5. g = body(g)
  <2>1. g = [i \in 0..n |-> g[i]]
    OBVIOUS
  <2>2. \A i \in 0..n : g[i] = IF i = 0 THEN 0 ELSE g[i - 1] + digit[i - 1] * Two[bits * (i - 1)]
    <3>1. \A i \in 0..n : i # 0 => i \in 1..n
      OBVIOUS
    <3> QED
      BY <3>1, <1>4
  <2> QED
    BY <2>1, <2>2
<1>6. ch = body(ch)
  <2> HIDE DEF body
  <2> QED
    BY <1>5
<1>7. Number(digit, n, bits) = ch[n]
  BY DEF Number
<1> HIDE DEF ch
<1>8. ch[0] = 0 /\ \A i \in 1..n : ch[i] = ch[i - 1] + digit[i - 1] * Two[bits * (i - 1)]
  <2>1. ch[0] = 0
    BY <1>6
  <2>2. ASSUME NEW i \in 1..n PROVE ch[i] = ch[i - 1] + digit[i - 1] * Two[bits * (i - 1)]
    <3>1. i \in 0..n /\ i # 0
      OBVIOUS
    <3>2. body(ch)[i] = ch[i - 1] + digit[i - 1] * Two[bits * (i - 1)]
      BY <3>1
    <3> HIDE DEF body
    <3> QED
      BY <3>2, <1>6
  <2> QED
    BY <2>1, <2>2
<1>9. ASSUME NEW i \in Nat, i <= n PROVE ch[i] = g[i] /\ g[i] < Two[bits * i]
  <2> DEFINE T == {k \in Nat : k <= n => ch[k] = g[k] /\ g[k] < Two[bits * k]}
  <2>1. 0 \in T
    <3>1. bits * 0 = 0 /\ Two[0] = 1
      BY TwoRecursion
    <3> QED
      BY <3>1, <1>4, <1>8
  <2>2. ASSUME NEW k \in Nat, k \in T PROVE k + 1 \in T
    <3> SUFFICES ASSUME k + 1 <= n PROVE ch[k + 1] = g[k + 1] /\ g[k + 1] < Two[bits * (k + 1)]
      OBVIOUS
    <3>1. k + 1 \in 1..n /\ (k + 1) - 1 = k /\ k \in 0..n
      OBVIOUS
    <3>2. ch[k] = g[k] /\ g[k] < Two[bits * k] /\ g[k] \in Nat
      BY <2>2, <3>1
    <3>3. ch[k + 1] = ch[k] + digit[k] * Two[bits * k] /\ g[k + 1] = g[k] + digit[k] * Two[bits * k]
      BY <3>1, <1>4, <1>8
    <3>4. digit[k] \in Nat /\ digit[k] <= Two[bits] - 1 /\ bits * k \in Nat /\ Two[bits * k] \in Nat \ {0}
      BY <3>1, <1>1
    <3>5. Two[bits * (k + 1)] = Two[bits * k] * Two[bits] /\ Two[bits] \in Nat \ {0}
      <4>1. bits * (k + 1) = bits * k + bits
        OBVIOUS
      <4>2. PICK e \in Nat : e = bits * k
        BY <3>4
      <4>3. Two[e + bits] = Two[e] * Two[bits]
        BY TwoSum
      <4>4. Two[bits] \in Nat \ {0}
        BY TwoRecursion
      <4> QED
        BY <4>1, <4>2, <4>3, <4>4
    <3>6. ASSUME NEW x \in Nat, NEW d \in Nat, NEW A \in Nat \ {0}, NEW B \in Nat \ {0}, x < A, d <= B - 1
          PROVE  x + d * A < A * B
      <4>1. d * A <= (B - 1) * A
        <5>1. (B - 1) * A = d * A + (B - 1 - d) * A /\ (B - 1 - d) * A >= 0
          BY <3>6
        <5> QED
          BY <5>1
      <4>2. (B - 1) * A = A * B - A
        OBVIOUS
      <4>3. PICK p \in Int, q \in Int : p = d * A /\ q = A * B
        OBVIOUS
      <4>4. p <= q - A
        BY <4>1, <4>2, <4>3
      <4>5. x + p < q
        BY <4>4, <3>6
      <4> QED
        BY <4>3, <4>5
    <3> QED
      BY <3>2, <3>3, <3>4, <3>5, <3>6
  <2>3. i \in T
    <3> HIDE DEF T
    <3> QED
      BY <2>1, <2>2, SetInduction
  <2> QED
    BY <2>3, <1>9
<1>10. Number(digit, n, bits) = g[n]
  BY <1>7, <1>9
<1>11. \A i \in 0..n : g[i] < Two[bits * i]
  BY <1>9
<1> HIDE DEF body, F
<1> QED
  BY <1>4, <1>10, <1>11

LEMMA NumberRange ==
    ASSUME NEW n \in Nat, NEW bits \in Nat, NEW digit \in [0..(n - 1) -> 0..(Two[bits] - 1)]
    PROVE  Number(digit, n, bits) \in Nat /\ Number(digit, n, bits) < Two[bits * n]
<1>1. PICK s \in [0..n -> Nat] : /\ \A i \in 0..n : s[i] < Two[bits * i]
                                /\ Number(digit, n, bits) = s[n]
  BY NumberOf
<1>2. n \in 0..n
  OBVIOUS
<1>3. s[n] \in Nat /\ s[n] < Two[bits * n]
  BY <1>1, <1>2
<1> QED
  BY <1>1, <1>3

\* A number whose digits are 0 from the second one on.
LEMMA NumberOfOne ==
    ASSUME NEW n \in Nat \ {0}, NEW bits \in Nat, NEW digit \in [0..(n - 1) -> 0..(Two[bits] - 1)],
           \A i \in 1..(n - 1) : digit[i] = 0
    PROVE  Number(digit, n, bits) = digit[0]
<1>1. PICK s \in [0..n -> Nat] :
              /\ s[0] = 0
              /\ \A i \in 1..n : s[i] = s[i - 1] + digit[i - 1] * Two[bits * (i - 1)]
              /\ Number(digit, n, bits) = s[n]
  BY NumberOf
<1>2. digit[0] \in Nat /\ Two[bits] \in Nat
  <2>1. Two[bits] \in Nat
    BY TwoRecursion
  <2>2. 0 \in 0..(n - 1)
    OBVIOUS
  <2>3. digit[0] \in 0..(Two[bits] - 1)
    BY <2>2
  <2> QED
    BY <2>1, <2>3
<1> DEFINE T == {k \in Nat : k + 1 <= n => s[k + 1] = digit[0]}
<1>3. 0 \in T
  <2>1. 1 \in 1..n /\ 1 - 1 = 0 /\ bits * 0 = 0 /\ Two[0] = 1 /\ 0 + 1 = 1
    BY TwoRecursion
  <2>2. s[1] = s[0] + digit[0] * Two[0]
    BY <2>1, <1>1
  <2> QED
    BY <1>1, <1>2, <2>1, <2>2
<1>4. ASSUME NEW k \in Nat, k \in T PROVE k + 1 \in T
  <2> SUFFICES ASSUME (k + 1) + 1 <= n PROVE s[(k + 1) + 1] = digit[0]
    OBVIOUS
  <2>1. (k + 1) + 1 \in 1..n /\ ((k + 1) + 1) - 1 = k + 1 /\ k + 1 \in 1..(n - 1) /\ k + 1 <= n
        /\ bits * (k + 1) \in Nat
    OBVIOUS
  <2>2. s[(k + 1) + 1] = s[k + 1] + digit[k + 1] * Two[bits * (k + 1)]
    BY <2>1, <1>1
  <2>3. digit[k + 1] = 0 /\ Two[bits * (k + 1)] \in Nat
    BY <2>1, TwoRecursion
  <2>4. s[k + 1] = digit[0]
    BY <1>4, <2>1
  <2> QED
    BY <2>2, <2>3, <2>4, <1>2
<1>5. n - 1 \in T
  <2>1. n - 1 \in Nat
    OBVIOUS
  <2>2. Nat \subseteq T
    <3> HIDE DEF T
    <3> QED
      BY <1>3, <1>4, SetInduction
  <2> QED
    BY <2>1, <2>2
<1>6. (n - 1) + 1 = n
  OBVIOUS
<1> QED
  BY <1>1, <1>5, <1>6

\* What is read at an address, byte by byte.
LEMMA WordRange ==
    ASSUME NEW size \in 1..RegWidth, NEW byte \in [0..(size - 1) -> ByteValues]
    PROVE  /\ Number(byte, size, ByteBits) \in Nat
           /\ Number(byte, size, ByteBits) < Two[Bits(size)]
           /\ size = 1 => Number(byte, size, ByteBits) = byte[0]
<1>1. size \in Nat /\ ByteBits \in Nat /\ size \in Nat \ {0}
  BY BitsOf
<1>2. Number(byte, size, ByteBits) \in Nat /\ Number(byte, size, ByteBits) < Two[ByteBits * size]
  BY <1>1, NumberRange DEF ByteValues
<1>3. size = 1 => Number(byte, size, ByteBits) = byte[0]
  <2> SUFFICES ASSUME size = 1 PROVE Number(byte, size, ByteBits) = byte[0]
    OBVIOUS
  <2>1. \A i \in 1..(size - 1) : byte[i] = 0
    OBVIOUS
  <2> QED
    BY <1>1, <2>1, NumberOfOne DEF ByteValues
<1> QED
  BY <1>2, <1>3 DEF Bits

LEMMA PlacesOf ==
    ASSUME NEW size \in 1..RegWidth, NEW addr \in Places(size)
    PROVE  /\ addr \in Nat
           /\ \A i \in 0..(size - 1) : addr + i \in Memory
<1>1. addr \in Memory /\ addr + size - 1 \in Memory
  BY DEF Places
<1>2. addr \in Nat /\ 0..(addr + size - 1) \subseteq Memory
  BY <1>1, ShadowAssumption
<1>3. \A i \in 0..(size - 1) : addr + i \in 0..(addr + size - 1)
  BY <1>2
<1> QED
  BY <1>2, <1>3

BitKinds == {"and", "or", "xor"}

\* A bit operation gives a number, and "or" of two truth values is theirs.
LEMMA BitwiseOf ==
    ASSUME NEW kind \in BitKinds, NEW a \in Nat, NEW b \in Nat
    PROVE  /\ Bitwise(kind, a, b) \in Nat
           /\ kind = "or" /\ a \in {0, 1} /\ b \in {0, 1} =>
                Bitwise(kind, a, b) = Truth(a = 1 \/ b = 1)
<1> DEFINE N == Bits(RegWidth)
           bit(v, i) == Low(v \div Two[i], 1)
           sum(i) == bit(a, i) + bit(b, i)
           joined(i) == CASE kind = "and" -> sum(i) \div 2
                          [] kind = "or" -> (sum(i) + 1) \div 2
                          [] kind = "xor" -> sum(i) % 2
           digit == [i \in 0..(N - 1) |-> joined(i)]
<1>1. Two[1] = 2 /\ N \in Nat \ {0} /\ Two[0] = 1
  <2>1. 0 + 1 = 1 /\ Two[0 + 1] = 2 * Two[0] /\ Two[0] = 1
    BY TwoRecursion
  <2> QED
    BY <2>1, BitsOf
<1>2. ASSUME NEW v \in Nat, NEW i \in 0..(N - 1)
      PROVE  bit(v, i) \in {0, 1} /\ (v \in {0, 1} => bit(v, i) = IF i = 0 THEN v ELSE 0)
  <2>1. i \in Nat /\ Two[i] \in Nat \ {0}
    BY TwoRecursion
  <2>2. v \div Two[i] \in Nat
    BY <2>1, DivNat
  <2>3. bit(v, i) \in {0, 1}
    <3>1. v \div Two[i] \in Int /\ 1 \in Nat
      BY <2>2
    <3>2. Low(v \div Two[i], 1) \in 0..(Two[1] - 1)
      BY <3>1, LowRange
    <3> QED
      BY <3>2, <1>1
  <2>4. ASSUME v \in {0, 1}, i = 0 PROVE bit(v, i) = v
    <3>1. v \div Two[i] = v
      BY <1>1, <2>4
    <3>2. 1 \in Nat /\ v \in 0..(Two[1] - 1)
      BY <1>1, <2>4
    <3> QED
      BY <3>1, <3>2, LowSmall
  <2>5. ASSUME v \in {0, 1}, i # 0 PROVE bit(v, i) = 0
    <3>1. i - 1 \in Nat /\ (i - 1) + 1 = i
      BY <2>1, <2>5
    <3>2. Two[i] = 2 * Two[i - 1] /\ Two[i - 1] \in Nat \ {0}
      BY <3>1, TwoRecursion
    <3>3. v \in 0..(Two[i] - 1)
      BY <2>5, <3>2
    <3>4. v \div Two[i] = 0
      BY <2>1, <3>3, ModOfSmall
    <3>5. 1 \in Nat /\ 0 \in 0..(Two[1] - 1)
      BY <1>1
    <3> QED
      BY <3>4, <3>5, LowSmall
  <2> HIDE DEF bit
  <2> QED
    BY <2>3, <2>4, <2>5
<1> HIDE DEF bit
<1>3. ASSUME NEW i \in 0..(N - 1)
      PROVE  /\ digit[i] \in 0..1
             /\ kind = "or" /\ a \in {0, 1} /\ b \in {0, 1} =>
                  digit[i] = IF i = 0 THEN Truth(a = 1 \/ b = 1) ELSE 0
  <2>1. bit(a, i) \in {0, 1} /\ bit(b, i) \in {0, 1}
    BY <1>2
  <2>2. digit[i] = CASE kind = "and" -> sum(i) \div 2
                     [] kind = "or" -> (sum(i) + 1) \div 2
                     [] kind = "xor" -> sum(i) % 2
    OBVIOUS
  <2>3. sum(i) \div 2 \in 0..1 /\ (sum(i) + 1) \div 2 \in 0..1 /\ sum(i) % 2 \in 0..1
    BY <2>1
  <2>4. (sum(i) + 1) \div 2 = IF bit(a, i) = 1 \/ bit(b, i) = 1 THEN 1 ELSE 0
    BY <2>1
  <2> HIDE DEF sum, digit
  <2>5. kind = "and" \/ kind = "or" \/ kind = "xor"
    BY DEF BitKinds
  <2>6. digit[i] \in 0..1
    BY <2>2, <2>3, <2>5
  <2>7. ASSUME kind = "or", a \in {0, 1}, b \in {0, 1}
        PROVE  digit[i] = IF i = 0 THEN Truth(a = 1 \/ b = 1) ELSE 0
    <3>1. digit[i] = (sum(i) + 1) \div 2
      BY <2>2, <2>7
    <3>2. bit(a, i) = (IF i = 0 THEN a ELSE 0) /\ bit(b, i) = (IF i = 0 THEN b ELSE 0)
      BY <1>2, <2>7
    <3> QED
      BY <3>1, <3>2, <2>4 DEF Truth
  <2> QED
    BY <2>6, <2>7
<1>4. Bitwise(kind, a, b) = Number(digit, N, 1)
  BY DEF Bitwise, bit
<1>5. digit \in [0..(N - 1) -> 0..(Two[1] - 1)]
  <2> HIDE DEF joined
  <2>1. \A i \in 0..(N - 1) : digit[i] = joined(i)
    OBVIOUS
  <2>2. \A i \in 0..(N - 1) : joined(i) \in 0..(Two[1] - 1)
    <3> HIDE DEF digit
    <3> QED
      BY <2>1, <1>1, <1>3
  <2> QED
    BY <2>2
<1> HIDE DEF digit
<1>6. Bitwise(kind, a, b) \in Nat
  BY <1>1, <1>4, <1>5, NumberRange
<1>7. ASSUME kind = "or", a \in {0, 1}, b \in {0, 1}
      PROVE  Bitwise(kind, a, b) = Truth(a = 1 \/ b = 1)
  <2>1. \A i \in 1..(N - 1) : digit[i] = 0
    BY <1>3, <1>7
  <2>2. 0 \in 0..(N - 1) /\ digit[0] = Truth(a = 1 \/ b = 1)
    BY <1>1, <1>3, <1>7
  <2> QED
    BY <1>1, <1>4, <1>5, <2>1, <2>2, NumberOfOne
<1> QED
  BY <1>6, <1>7

AluKinds == {"add", "sub", "and", "or", "xor"}

LEMMA AppliedOf ==
    ASSUME NEW kind \in AluKinds, NEW a \in Nat, NEW b \in Nat, NEW bits \in Nat
    PROVE  Applied(kind, a, b, bits) \in Int
<1>1. Two[bits] \in Nat
  BY TwoRecursion
<1>2. CASE kind = "add"
  BY <1>2 DEF Applied
<1>3. CASE kind = "sub"
  BY <1>1, <1>3 DEF Applied
<1>4. CASE kind \in BitKinds
  <2>1. Applied(kind, a, b, bits) = Bitwise(kind, a, b)
    BY <1>4 DEF Applied, BitKinds
  <2> QED
    BY <1>4, <2>1, BitwiseOf
<1> QED
  BY <1>2, <1>3, <1>4 DEF AluKinds, BitKinds

-----------------------------------------------------------------------------
(* Expressions.                                                            *)

InputBytes == 0..(InputLen - 1)

\* The values of an expression that names the bytes ids depend on them only.
Reads(ids, val) ==
    \A in1, in2 \in AllInputs : (\A i \in ids : in1[i + 1] = in2[i + 1]) => val[in1] = val[in2]

\* What an expression is made of.
MadeOf(e, bits, const, val) ==
    e \in Exprs /\ Depends(e) /\ e.bits = bits /\ e.const = const /\ e.val = val

LEMMA ExprOf ==
    ASSUME NEW bits \in Nat, NEW ids \in SUBSET InputBytes, NEW sorted \in BOOLEAN,
           NEW val \in [AllInputs -> Nat], Reads(ids, val)
    PROVE  MadeOf(Expr(bits, ids, sorted, val), bits, FALSE, val)
<1> DEFINE e == Expr(bits, ids, sorted, val)
<1>1. e = [bits |-> bits, ids |-> ids, sorted |-> sorted, const |-> FALSE, val |-> val]
  BY DEF Expr
<1>2. e \in Exprs /\ e.bits = bits /\ e.ids = ids /\ e.sorted = sorted /\ e.val = val /\ e.const = FALSE
  BY <1>1 DEF Exprs, InputBytes
<1>3. Depends(e)
  BY <1>2 DEF Depends, Reads
<1> QED
  BY <1>2, <1>3 DEF MadeOf

LEMMA ConstExprOf ==
    ASSUME NEW bits \in Nat, NEW ids \in SUBSET InputBytes, NEW sorted \in BOOLEAN,
           NEW val \in [AllInputs -> Nat], Reads(ids, val), NEW c \in BOOLEAN
    PROVE  MadeOf([Expr(bits, ids, sorted, val) EXCEPT !.const = c], bits, c, val)
<1> DEFINE e == [Expr(bits, ids, sorted, val) EXCEPT !.const = c]
<1>1. e = [bits |-> bits, ids |-> ids, sorted |-> sorted, const |-> c, val |-> val]
  BY DEF Expr
<1>2. e \in Exprs /\ e.bits = bits /\ e.ids = ids /\ e.sorted = sorted /\ e.val = val /\ e.const = c
  BY <1>1 DEF Exprs, InputBytes
<1>3. Depends(e)
  BY <1>2 DEF Depends, Reads
<1> QED
  BY <1>2, <1>3 DEF MadeOf

LEMMA InputOf ==
    ASSUME NEW in \in AllInputs, NEW a \in InputBytes
    PROVE  in[a + 1] \in ByteValues /\ in[a + 1] \in Nat /\ in[a + 1] < Two[ByteBits]
<1>1. InputLen \in Nat /\ Two[ByteBits] \in Nat
  BY ShadowAssumption, TwoRecursion
<1>2. a + 1 \in 1..InputLen
  BY <1>1 DEF InputBytes
<1> QED
  BY <1>1, <1>2 DEF AllInputs, ByteValues

LEMMA mkSymOf ==
    ASSUME NEW a \in InputBytes
    PROVE  /\ OfWord(mkSym(a)) /\ ~mkSym(a).const /\ mkSym(a).bits = ByteBits
           /\ \A in \in AllInputs : mkSym(a).val[in] = in[a + 1]
<1> DEFINE val == [in \in AllInputs |-> in[a + 1]]
<1>1. val \in [AllInputs -> Nat] /\ \A in \in AllInputs : val[in] < Two[ByteBits]
  BY InputOf
<1>2. Reads({a}, val)
  BY DEF Reads
<1>3. ByteBits \in Nat /\ ByteBits \in 1..Bits(RegWidth) /\ {a} \in SUBSET InputBytes
  BY BitsOf
<1>4. mkSym(a) = Expr(ByteBits, {a}, TRUE, val)
  BY DEF mkSym
<1>5. \A in \in AllInputs : val[in] = in[a + 1]
  OBVIOUS
<1> HIDE DEF val
<1>6. MadeOf(mkSym(a), ByteBits, FALSE, val)
  BY <1>1, <1>2, <1>3, <1>4, ExprOf
<1> QED
  BY <1>1, <1>3, <1>5, <1>6 DEF OfWord, MadeOf

LEMMA mkConstOf ==
    ASSUME NEW v \in Nat, NEW bits \in 1..Bits(RegWidth)
    PROVE  /\ OfWord(mkConst(v, bits)) /\ mkConst(v, bits).const /\ mkConst(v, bits).bits = bits
           /\ \A in \in AllInputs : mkConst(v, bits).val[in] = Low(v, bits)
<1> DEFINE val == [in \in AllInputs |-> Low(v, bits)]
<1>1. bits \in Nat
  BY BitsOf
<1>2. Low(v, bits) \in Nat /\ Low(v, bits) < Two[bits]
  <2>1. v \in Int
    OBVIOUS
  <2> QED
    BY <2>1, <1>1, LowRange
<1>3. val \in [AllInputs -> Nat] /\ \A in \in AllInputs : val[in] = Low(v, bits)
  BY <1>2
<1>4. Reads({}, val) /\ {} \in SUBSET InputBytes
  BY DEF Reads
<1>5. mkConst(v, bits) = [Expr(bits, {}, TRUE, val) EXCEPT !.const = TRUE]
  BY DEF mkConst
<1> HIDE DEF val
<1>6. MadeOf(mkConst(v, bits), bits, TRUE, val)
  BY <1>1, <1>3, <1>4, <1>5, ConstExprOf
<1> QED
  BY <1>2, <1>3, <1>6 DEF OfWord, MadeOf

\* The expression of an operation or comparison.
IsJoined(e, kind, l, r, sort, bits) ==
    /\ e \in Exprs /\ Depends(e) /\ e.bits = sort /\ e.const = FALSE
    /\ \A in \in AllInputs :
         /\ e.val[in] = Low(Applied(kind, l.val[in], r.val[in], bits), bits)
         /\ e.val[in] \in 0..(Two[bits] - 1)

LEMMA JoinedOf ==
    ASSUME NEW kind, NEW l \in Exprs, NEW r \in Exprs, Depends(l), Depends(r),
           NEW sort \in Nat, NEW bits \in Nat,
           \A in \in AllInputs : Applied(kind, l.val[in], r.val[in], bits) \in Int
    PROVE  IsJoined(Joined(kind, l, r, sort, bits), kind, l, r, sort, bits)
<1> DEFINE ap(in) == Applied(kind, l.val[in], r.val[in], bits)
           val == [in \in AllInputs |-> Low(ap(in), bits)]
           ids == l.ids \cup r.ids
           sorted == l.sorted /\ r.sorted /\ l.bits = r.bits
           e == Joined(kind, l, r, sort, bits)
<1>1. \A in \in AllInputs : Low(ap(in), bits) \in Nat /\ Low(ap(in), bits) \in 0..(Two[bits] - 1)
  BY LowRange
<1>2. val \in [AllInputs -> Nat] /\ \A in \in AllInputs : val[in] = Low(ap(in), bits)
  BY <1>1
<1>3. Reads(ids, val)
  <2> SUFFICES ASSUME NEW in1 \in AllInputs, NEW in2 \in AllInputs,
                      \A i \in ids : in1[i + 1] = in2[i + 1]
               PROVE  val[in1] = val[in2]
    BY DEF Reads
  <2>1. l.val[in1] = l.val[in2] /\ r.val[in1] = r.val[in2]
    BY DEF Depends
  <2> QED
    BY <2>1
<1>4. ids \in SUBSET InputBytes /\ sorted \in BOOLEAN
  BY DEF Exprs, InputBytes
<1>5. e = Expr(sort, ids, sorted, val)
  BY DEF Joined
<1> HIDE DEF val, ids, sorted
<1>6. MadeOf(e, sort, FALSE, val)
  BY <1>2, <1>3, <1>4, <1>5, ExprOf
<1> HIDE DEF e
<1>7. \A in \in AllInputs : e.val[in] = Low(ap(in), bits) /\ e.val[in] \in 0..(Two[bits] - 1)
  BY <1>1, <1>2, <1>6 DEF MadeOf
<1> QED
  BY <1>6, <1>7 DEF e, IsJoined, MadeOf

LEMMA mkBinopOf ==
    ASSUME NEW kind \in AluKinds, NEW l, NEW r, OfWord(l), OfWord(r), NEW bits \in 1..Bits(RegWidth)
    PROVE  LET e == mkBinop(kind, l, r, bits) IN
           /\ OfWord(e) /\ ~e.const /\ e.bits = bits
           /\ \A in \in AllInputs : e.val[in] = Low(Applied(kind, l.val[in], r.val[in], bits), bits)
<1>1. bits \in Nat /\ Two[bits] \in Nat
  BY BitsOf, TwoRecursion
<1>2. l \in Exprs /\ r \in Exprs /\ Depends(l) /\ Depends(r)
  BY DEF OfWord
<1>3. \A in \in AllInputs : Applied(kind, l.val[in], r.val[in], bits) \in Int
  <2>1. \A in \in AllInputs : l.val[in] \in Nat /\ r.val[in] \in Nat
    BY <1>2 DEF Exprs
  <2> QED
    BY <1>1, <2>1, AppliedOf
<1> DEFINE e == Joined(kind, l, r, bits, bits)
<1>4. IsJoined(e, kind, l, r, bits, bits)
  BY <1>1, <1>2, <1>3, JoinedOf
<1>5. mkBinop(kind, l, r, bits) = e
  BY DEF mkBinop
<1> HIDE DEF e
<1> QED
  BY <1>1, <1>4, <1>5 DEF OfWord, IsJoined

LEMMA LowOfTruth ==
    Two[1] = 2 /\ \A p \in BOOLEAN : Truth(p) \in {0, 1} /\ Low(Truth(p), 1) = Truth(p)
<1>1. Two[1] = 2
  <2>1. 0 + 1 = 1 /\ Two[0 + 1] = 2 * Two[0] /\ Two[0] = 1
    BY TwoRecursion
  <2> QED
    BY <2>1
<1>2. \A p \in BOOLEAN : Truth(p) \in {0, 1}
  BY DEF Truth
<1>3. 1 \in Nat /\ \A v \in {0, 1} : v \in 0..(Two[1] - 1)
  BY <1>1
<1> QED
  BY <1>1, <1>2, <1>3, LowSmall

Compared(kind, a, b) ==
    CASE kind = "eq" -> a = b
      [] kind = "ne" -> a # b
      [] kind = "ult" -> a < b

LEMMA mkCmpOf ==
    ASSUME NEW kind \in {"eq", "ne", "ult"}, NEW l, NEW r, OfWord(l), OfWord(r)
    PROVE  LET e == mkCmp(kind, l, r) IN
           /\ OfTruth(e) /\ ~e.const
           /\ \A in \in AllInputs : e.val[in] = Truth(Compared(kind, l.val[in], r.val[in]))
<1>1. l \in Exprs /\ r \in Exprs /\ Depends(l) /\ Depends(r)
  BY DEF OfWord
<1>2. ASSUME NEW in \in AllInputs
      PROVE  /\ Applied(kind, l.val[in], r.val[in], 1) = Truth(Compared(kind, l.val[in], r.val[in]))
             /\ Compared(kind, l.val[in], r.val[in]) \in BOOLEAN
  <2>1. l.val[in] \in Nat /\ r.val[in] \in Nat
    BY <1>1 DEF Exprs
  <2>2. CASE kind = "eq"
    BY <2>2 DEF Applied, Compared
  <2>3. CASE kind = "ne"
    BY <2>3 DEF Applied, Compared
  <2>4. CASE kind = "ult"
    BY <2>1, <2>4 DEF Applied, Compared
  <2> QED
    BY <2>2, <2>3, <2>4
<1>3. \A in \in AllInputs : Applied(kind, l.val[in], r.val[in], 1) \in Int
  <2>1. \A p \in BOOLEAN : Truth(p) \in Int
    BY DEF Truth
  <2> QED
    BY <2>1, <1>2
<1> DEFINE e == Joined(kind, l, r, 0, 1)
<1>4. IsJoined(e, kind, l, r, 0, 1)
  <2>1. 0 \in Nat /\ 1 \in Nat
    OBVIOUS
  <2> QED
    BY <2>1, <1>1, <1>3, JoinedOf
<1>5. mkCmp(kind, l, r) = e
  BY DEF mkCmp, Bool
<1> HIDE DEF e
<1>6. \A in \in AllInputs : e.val[in] = Truth(Compared(kind, l.val[in], r.val[in])) /\ e.val[in] \in {0, 1}
  BY <1>2, <1>4, LowOfTruth DEF IsJoined
<1> QED
  BY <1>4, <1>5, <1>6 DEF OfTruth, IsJoined

LEMMA mkOrOf ==
    ASSUME NEW l, NEW r, OfTruth(l), OfTruth(r)
    PROVE  LET e == mkOr(l, r) IN
           /\ OfTruth(e) /\ ~e.const
           /\ \A in \in AllInputs : e.val[in] = Truth(l.val[in] = 1 \/ r.val[in] = 1)
<1>1. l \in Exprs /\ r \in Exprs /\ Depends(l) /\ Depends(r) /\ l.bits \in {0, 1}
      /\ \A in \in AllInputs : l.val[in] \in {0, 1} /\ r.val[in] \in {0, 1}
  BY DEF OfTruth
<1>2. ASSUME NEW in \in AllInputs
      PROVE  Applied("or", l.val[in], r.val[in], 1) = Truth(l.val[in] = 1 \/ r.val[in] = 1)
  <2>1. Applied("or", l.val[in], r.val[in], 1) = Bitwise("or", l.val[in], r.val[in])
    BY DEF Applied
  <2>2. l.val[in] \in {0, 1} /\ r.val[in] \in {0, 1} /\ l.val[in] \in Nat /\ r.val[in] \in Nat /\ "or" \in BitKinds
    BY <1>1 DEF BitKinds
  <2> QED
    BY <2>1, <2>2, BitwiseOf
<1>3. \A in \in AllInputs : Applied("or", l.val[in], r.val[in], 1) \in Int
  <2>1. \A p \in BOOLEAN : Truth(p) \in Int
    BY DEF Truth
  <2> QED
    BY <2>1, <1>2
<1> DEFINE e == Joined("or", l, r, l.bits, 1)
<1>4. IsJoined(e, "or", l, r, l.bits, 1)
  <2>1. l.bits \in Nat /\ 1 \in Nat
    BY <1>1
  <2> QED
    BY <2>1, <1>1, <1>3, JoinedOf
<1>5. mkOr(l, r) = e
  BY DEF mkOr
<1> HIDE DEF e
<1>6. \A in \in AllInputs : e.val[in] = Truth(l.val[in] = 1 \/ r.val[in] = 1) /\ e.val[in] \in {0, 1}
  BY <1>2, <1>4, LowOfTruth DEF IsJoined
<1> QED
  BY <1>1, <1>4, <1>5, <1>6 DEF OfTruth, IsJoined

LEMMA mkNotOf ==
    ASSUME NEW e, OfTruth(e)
    PROVE  /\ OfTruth(mkNot(e)) /\ ~mkNot(e).const
           /\ \A in \in AllInputs : mkNot(e).val[in] = 1 - e.val[in]
<1> DEFINE val == [in \in AllInputs |-> 1 - e.val[in]]
<1>1. e \in Exprs /\ Depends(e) /\ e.bits \in {0, 1} /\ \A in \in AllInputs : e.val[in] \in {0, 1}
  BY DEF OfTruth
<1>2. val \in [AllInputs -> Nat] /\ \A in \in AllInputs : val[in] = 1 - e.val[in] /\ val[in] \in {0, 1}
  BY <1>1
<1>3. Reads(e.ids, val)
  BY <1>1 DEF Reads, Depends
<1>4. e.ids \in SUBSET InputBytes /\ e.sorted \in BOOLEAN /\ e.bits \in Nat
  BY <1>1 DEF Exprs, InputBytes
<1>5. mkNot(e) = [Expr(e.bits, e.ids, e.sorted, val) EXCEPT !.const = FALSE]
  BY DEF mkNot
<1> HIDE DEF val
<1>6. MadeOf(mkNot(e), e.bits, FALSE, val)
  <2>1. PICK bits \in Nat, ids \in SUBSET InputBytes, sorted \in BOOLEAN :
               bits = e.bits /\ ids = e.ids /\ sorted = e.sorted
    BY <1>4
  <2>2. Reads(ids, val) /\ val \in [AllInputs -> Nat] /\ FALSE \in BOOLEAN
    BY <1>2, <1>3, <2>1
  <2>3. MadeOf([Expr(bits, ids, sorted, val) EXCEPT !.const = FALSE], bits, FALSE, val)
    BY <2>2, ConstExprOf
  <2> QED
    BY <1>5, <2>1, <2>3
<1> QED
  BY <1>1, <1>2, <1>6 DEF OfTruth, MadeOf

LEMMA mkExtractOf ==
    ASSUME NEW e, OfWord(e), NEW low \in Nat, NEW bits \in 1..Bits(RegWidth)
    PROVE  LET x == mkExtract(e, low, bits) IN
           /\ OfWord(x) /\ ~x.const /\ x.bits = bits
           /\ \A in \in AllInputs : x.val[in] = Low(e.val[in] \div Two[low], bits)
<1> DEFINE val == [in \in AllInputs |-> Low(e.val[in] \div Two[low], bits)]
           sorted == e.sorted /\ low + bits <= e.bits
           x == mkExtract(e, low, bits)
<1>1. e \in Exprs /\ Depends(e) /\ \A in \in AllInputs : e.val[in] \in Nat
  BY DEF OfWord, Exprs
<1>2. bits \in Nat /\ Two[low] \in Nat \ {0}
  BY BitsOf, TwoRecursion
<1>3. \A in \in AllInputs : Low(e.val[in] \div Two[low], bits) \in Nat
                              /\ Low(e.val[in] \div Two[low], bits) < Two[bits]
  <2> TAKE in \in AllInputs
  <2>1. e.val[in] \div Two[low] \in Int
    BY <1>1, <1>2, DivNat
  <2> QED
    BY <2>1, <1>2, LowRange
<1>4. val \in [AllInputs -> Nat] /\ \A in \in AllInputs : val[in] = Low(e.val[in] \div Two[low], bits)
  BY <1>3
<1>5. Reads(e.ids, val)
  BY <1>1 DEF Reads, Depends
<1>6. e.ids \in SUBSET InputBytes /\ sorted \in BOOLEAN
  BY <1>1 DEF Exprs, InputBytes
<1>7. x = Expr(bits, e.ids, sorted, val)
  BY DEF mkExtract
<1> HIDE DEF val, sorted
<1>8. MadeOf(x, bits, FALSE, val)
  BY <1>2, <1>4, <1>5, <1>6, <1>7, ExprOf
<1> HIDE DEF x
<1>9. OfWord(x) /\ ~x.const /\ x.bits = bits
           /\ \A in \in AllInputs : x.val[in] = Low(e.val[in] \div Two[low], bits)
  BY <1>3, <1>4, <1>8 DEF OfWord, MadeOf
<1> QED
  BY <1>9 DEF x

\* Bytes put together.
LEMMA mkConcatOf ==
    ASSUME NEW size \in 1..RegWidth, NEW parts \in [1..size -> Exprs],
           \A i \in 1..size : OfWord(parts[i]) /\ parts[i].bits = ByteBits
    PROVE  LET e == mkConcat(parts) IN
           /\ OfWord(e) /\ ~e.const /\ e.bits = Bits(size)
           /\ \A in \in AllInputs :
                e.val[in] = Number([i \in 0..(size - 1) |-> parts[i + 1].val[in]], size, ByteBits)
<1> DEFINE byte(in) == [i \in 0..(size - 1) |-> parts[i + 1].val[in]]
           val == [in \in AllInputs |-> Number(byte(in), size, ByteBits)]
           ids == UNION {parts[i].ids : i \in DOMAIN parts}
           sorted == \A i \in DOMAIN parts : parts[i].sorted
           e == mkConcat(parts)
<1>1. size \in Nat /\ Len(parts) = size /\ DOMAIN parts = 1..size
      /\ Bits(size) \in Nat /\ Bits(size) \in 1..Bits(RegWidth) /\ Two[ByteBits] \in Nat
  <2>1. size \in Nat
    BY BitsOf
  <2>2. parts \in Seq(Exprs) /\ Len(parts) = size
    BY <2>1
  <2> QED
    BY <2>1, <2>2, BitsOf, TwoRecursion
<1>2. ASSUME NEW in \in AllInputs PROVE byte(in) \in [0..(size - 1) -> ByteValues]
  <2>1. ASSUME NEW i \in 0..(size - 1) PROVE parts[i + 1].val[in] \in ByteValues
    <3>1. i + 1 \in 1..size
      BY <1>1
    <3>2. OfWord(parts[i + 1]) /\ parts[i + 1].bits = ByteBits
      BY <3>1
    <3>3. parts[i + 1].val[in] \in Nat /\ parts[i + 1].val[in] < Two[ByteBits]
      BY <3>2 DEF OfWord, Exprs
    <3> QED
      BY <3>3, <1>1 DEF ByteValues
  <2> QED
    BY <2>1
<1>3. ASSUME NEW in \in AllInputs
      PROVE  Number(byte(in), size, ByteBits) \in Nat /\ Number(byte(in), size, ByteBits) < Two[Bits(size)]
  <2> HIDE DEF byte
  <2> QED
    BY <1>2, WordRange
<1>4. val \in [AllInputs -> Nat] /\ \A in \in AllInputs : val[in] = Number(byte(in), size, ByteBits)
  <2> HIDE DEF byte
  <2> QED
    BY <1>3
<1>5. Reads(ids, val)
  <2> SUFFICES ASSUME NEW in1 \in AllInputs, NEW in2 \in AllInputs,
                      \A i \in ids : in1[i + 1] = in2[i + 1]
               PROVE  val[in1] = val[in2]
    BY DEF Reads
  <2>1. ASSUME NEW i \in 0..(size - 1) PROVE parts[i + 1].val[in1] = parts[i + 1].val[in2]
    <3>1. i + 1 \in 1..size
      BY <1>1
    <3>2. Depends(parts[i + 1]) /\ \A j \in parts[i + 1].ids : in1[j + 1] = in2[j + 1]
      BY <3>1, <1>1 DEF OfWord
    <3> QED
      BY <3>2 DEF Depends
  <2>2. byte(in1) = byte(in2)
    BY <2>1
  <2> QED
    BY <1>4, <2>2
<1>6. ids \in SUBSET InputBytes /\ sorted \in BOOLEAN
  <2>1. \A i \in 1..size : parts[i].ids \subseteq InputBytes
    BY DEF Exprs, InputBytes
  <2> QED
    BY <2>1, <1>1
<1>7. e = Expr(Bits(size), ids, sorted, val)
  <2>1. ASSUME NEW in \in AllInputs
        PROVE  Word([i \in 0..(Len(parts) - 1) |-> parts[i + 1].val[in]], 0, Len(parts))
                 = Number(byte(in), size, ByteBits)
    <3> DEFINE b == [i \in 0..(size - 1) |-> parts[i + 1].val[in]]
    <3>1. [i \in 0..(size - 1) |-> b[0 + i]] = byte(in)
      <4>1. \A i \in 0..(size - 1) : 0 + i = i /\ b[i] = parts[i + 1].val[in]
        BY <1>1
      <4> QED
        BY <4>1
    <3> QED
      BY <3>1, <1>1 DEF Word
  <2>2. val = [in \in AllInputs |->
                 Word([i \in 0..(Len(parts) - 1) |-> parts[i + 1].val[in]], 0, Len(parts))]
    BY <2>1
  <2> HIDE DEF val
  <2> QED
    BY <1>1, <2>2 DEF mkConcat
<1> HIDE DEF val, ids, sorted
<1>8. MadeOf(e, Bits(size), FALSE, val)
  BY <1>1, <1>4, <1>5, <1>6, <1>7, ExprOf
<1> HIDE DEF e, byte
<1>9. OfWord(e) /\ ~e.const /\ e.bits = Bits(size)
           /\ \A in \in AllInputs : e.val[in] = Number(byte(in), size, ByteBits)
  BY <1>1, <1>3, <1>4, <1>8 DEF OfWord, MadeOf
<1> QED
  BY <1>9 DEF e, byte

-----------------------------------------------------------------------------
(* What the hooks keep.                                                    *)

LEMMA KeptOf ==
    ASSUME NEW e, KeptWord(e)
    PROVE  /\ isSymbolic(e) = (e # Nil)
           /\ e # Nil => OfWord(e) /\ ~e.const
           /\ e \in Exprs \cup {Nil}
BY DEF KeptWord, isSymbolic, OfWord

LEMMA WordIsKept ==
    ASSUME NEW e, OfWord(e), ~e.const
    PROVE  KeptWord(e) /\ e # Nil /\ isSymbolic(e) /\ e \in Exprs
BY NilAssumption DEF KeptWord, OfWord, isSymbolic

LEMMA NilIsKept == KeptWord(Nil) /\ ~isSymbolic(Nil)
BY DEF KeptWord, isSymbolic

\* loadMem: the bytes put together have the value that is read.
LEMMA LoadedOf ==
    ASSUME CpuTyped, ShadowTyped, NEW size \in OperandSizes, NEW addr \in Places(size)
    PROVE  /\ KeptWord(Loaded(addr, size))
           /\ Word(cpu.mem, addr, size) \in Nat
           /\ Loaded(addr, size) # Nil /\ MemHolds =>
                Loaded(addr, size).val[buffer] = Word(cpu.mem, addr, size)
<1> DEFINE part(i) == IF shadow.mem[addr + i - 1] # Nil THEN shadow.mem[addr + i - 1]
                      ELSE mkConst(cpu.mem[addr + i - 1], ByteBits)
           parts == [i \in 1..size |-> part(i)]
           byte == [i \in 0..(size - 1) |-> cpu.mem[addr + i]]
<1>1. size \in 1..RegWidth /\ size \in Nat \ {0} /\ addr \in Nat
      /\ \A i \in 0..(size - 1) : addr + i \in Memory
  <2>1. size \in 1..RegWidth
    BY BitsOf
  <2> QED
    BY <2>1, PlacesOf, BitsOf
<1>2. \A a \in Memory : cpu.mem[a] \in ByteValues /\ cpu.mem[a] \in Nat
  <2>1. cpu.mem \in [Memory -> ByteValues] /\ Two[ByteBits] \in Nat
    BY BitsOf, TwoRecursion DEF CpuTyped, CpuStates
  <2> QED
    BY <2>1 DEF ByteValues
<1>3. byte \in [0..(size - 1) -> ByteValues]
  BY <1>1, <1>2
<1>4. Word(cpu.mem, addr, size) = Number(byte, size, ByteBits)
  BY DEF Word
<1>5. Word(cpu.mem, addr, size) \in Nat /\ (size = 1 => Word(cpu.mem, addr, size) = cpu.mem[addr])
  <2>1. size = 1 => byte[0] = cpu.mem[addr]
    <3>1. size = 1 => byte[0] = cpu.mem[addr + 0]
      BY <1>1
    <3>2. addr + 0 = addr
      BY <1>1
    <3> QED
      BY <3>1, <3>2
  <2> HIDE DEF byte
  <2> QED
    BY <1>1, <1>3, <1>4, <2>1, WordRange
<1>6. ASSUME NEW i \in 1..size
      PROVE  /\ addr + i - 1 \in Memory /\ addr + i - 1 = addr + (i - 1) /\ i - 1 \in 0..(size - 1)
             /\ OfWord(part(i)) /\ part(i).bits = ByteBits /\ part(i) \in Exprs
             /\ MemHolds => part(i).val[buffer] = cpu.mem[addr + i - 1]
  <2>1. i - 1 \in 0..(size - 1) /\ addr + i - 1 = addr + (i - 1)
    BY <1>1
  <2>2. addr + i - 1 \in Memory
    BY <1>1, <2>1
  <2>3. KeptWord(shadow.mem[addr + i - 1]) /\ (shadow.mem[addr + i - 1] # Nil => shadow.mem[addr + i - 1].bits = ByteBits)
    BY <2>2 DEF ShadowTyped
  <2>4. CASE shadow.mem[addr + i - 1] # Nil
    BY <2>1, <2>2, <2>3, <2>4, KeptOf DEF MemHolds, OfWord
  <2>5. CASE shadow.mem[addr + i - 1] = Nil
    <3>1. cpu.mem[addr + i - 1] \in Nat /\ cpu.mem[addr + i - 1] \in 0..(Two[ByteBits] - 1)
      BY <1>2, <2>2 DEF ByteValues
    <3>2. Low(cpu.mem[addr + i - 1], ByteBits) = cpu.mem[addr + i - 1]
      BY <3>1, BitsOf, LowSmall
    <3>3. buffer \in AllInputs
      BY DEF CpuTyped
    <3>4. part(i) = mkConst(cpu.mem[addr + i - 1], ByteBits)
      BY <2>5
    <3> HIDE DEF part
    <3>5. ByteBits \in 1..Bits(RegWidth)
      BY BitsOf
    <3>6. OfWord(part(i)) /\ part(i).bits = ByteBits /\ part(i).val[buffer] = cpu.mem[addr + i - 1]
      BY <3>1, <3>2, <3>3, <3>4, <3>5, mkConstOf
    <3> QED
      BY <2>1, <2>2, <3>6 DEF OfWord
  <2> QED
    BY <2>4, <2>5
<1>7. CASE \A i \in 0..(size - 1) : shadow.mem[addr + i] = Nil
  <2>1. Loaded(addr, size) = Nil
    BY <1>7 DEF Loaded
  <2> QED
    BY <1>5, <2>1, NilIsKept
<1>8. CASE size = 1 /\ ~(\A i \in 0..(size - 1) : shadow.mem[addr + i] = Nil)
  <2>1. Loaded(addr, size) = shadow.mem[addr]
    BY <1>8 DEF Loaded
  <2>2. addr \in Memory
    <3>1. 0 \in 0..(size - 1) /\ addr + 0 = addr
      BY <1>1
    <3> QED
      BY <1>1, <3>1
  <2>3. KeptWord(shadow.mem[addr])
    BY <2>2 DEF ShadowTyped
  <2> QED
    BY <1>5, <1>8, <2>1, <2>2, <2>3 DEF MemHolds
<1>9. CASE size # 1 /\ ~(\A i \in 0..(size - 1) : shadow.mem[addr + i] = Nil)
  <2>1. Loaded(addr, size) = mkConcat(parts)
    BY <1>9 DEF Loaded
  <2> HIDE DEF part
  <2>2. parts \in [1..size -> Exprs] /\ \A i \in 1..size : parts[i] = part(i)
    BY <1>6
  <2>3. \A i \in 1..size : OfWord(parts[i]) /\ parts[i].bits = ByteBits
    BY <1>6, <2>2
  <2>4. buffer \in AllInputs
    BY DEF CpuTyped
  <2> DEFINE e == mkConcat(parts)
             other == [i \in 0..(size - 1) |-> parts[i + 1].val[buffer]]
  <2>5. OfWord(e) /\ ~e.const /\ e.val[buffer] = Number(other, size, ByteBits)
    <3> HIDE DEF parts
    <3> QED
      BY <1>1, <2>2, <2>3, <2>4, mkConcatOf
  <2>6. MemHolds => other = byte
    <3> SUFFICES ASSUME MemHolds PROVE other = byte
      OBVIOUS
    <3>1. ASSUME NEW i \in 0..(size - 1) PROVE parts[i + 1].val[buffer] = cpu.mem[addr + i]
      <4>1. i + 1 \in 1..size /\ addr + (i + 1) - 1 = addr + i
        BY <1>1
      <4>2. parts[i + 1] = part(i + 1) /\ part(i + 1).val[buffer] = cpu.mem[addr + (i + 1) - 1]
        BY <4>1, <1>6, <2>2
      <4> QED
        BY <4>1, <4>2
    <3> QED
      BY <3>1
  <2> HIDE DEF other, byte, parts
  <2>7. KeptWord(e)
    BY <2>5, WordIsKept
  <2> QED
    BY <1>4, <1>5, <2>1, <2>5, <2>6, <2>7
<1> QED
  BY <1>7, <1>8, <1>9

\* An expression cut to an operand's size.
LEMMA FitOf ==
    ASSUME NEW e, KeptWord(e), NEW size \in OperandSizes
    PROVE  /\ KeptWord(Fit(e, size))
           /\ (Fit(e, size) = Nil) = (e = Nil)
           /\ e # Nil =>
                /\ Fit(e, size).bits = (IF e.bits > Bits(size) THEN Bits(size) ELSE e.bits)
                /\ \A in \in AllInputs :
                     Fit(e, size).val[in] = IF e.bits > Bits(size) THEN Low(e.val[in], Bits(size))
                                            ELSE e.val[in]
<1>1. size \in 1..RegWidth /\ Bits(size) \in 1..Bits(RegWidth)
  BY BitsOf
<1>2. CASE e # Nil /\ e.bits > Bits(size)
  <2>1. OfWord(e) /\ isSymbolic(e)
    BY <1>2, KeptOf
  <2>2. Fit(e, size) = mkExtract(e, 0, Bits(size))
    BY <1>2, <2>1 DEF Fit
  <2> DEFINE x == mkExtract(e, 0, Bits(size))
  <2>3. OfWord(x) /\ ~x.const /\ x.bits = Bits(size)
        /\ \A in \in AllInputs : x.val[in] = Low(e.val[in] \div Two[0], Bits(size))
    <3>1. 0 \in Nat
      OBVIOUS
    <3> QED
      BY <1>1, <2>1, <3>1, mkExtractOf
  <2>4. \A in \in AllInputs : e.val[in] \div Two[0] = e.val[in]
    <3>1. \A in \in AllInputs : e.val[in] \in Nat
      BY <2>1 DEF OfWord, Exprs
    <3>2. Two[0] = 1
      BY TwoRecursion
    <3> QED
      BY <3>1, <3>2
  <2> HIDE DEF x
  <2> QED
    BY <1>2, <2>2, <2>3, <2>4, WordIsKept DEF x
<1>3. CASE ~(e # Nil /\ e.bits > Bits(size))
  <2>1. Fit(e, size) = e
    BY <1>3, KeptOf DEF Fit
  <2> QED
    BY <1>3, <2>1
<1> QED
  BY <1>2, <1>3

\* storeMem: the bytes of a value get the bytes of its expression.
LEMMA SpreadOf ==
    ASSUME CpuTyped, ShadowTyped, NEW size \in OperandSizes, NEW addr \in Places(size),
           NEW v \in 0..(Two[Bits(size)] - 1), NEW a \in Memory
    PROVE  /\ KeptWord(Spread(addr, size)[a])
           /\ Spread(addr, size)[a] # Nil => Spread(addr, size)[a].bits = ByteBits
           /\ a \notin addr..(addr + size - 1) => Spread(addr, size)[a] = shadow.mem[a]
           /\ a \in addr..(addr + size - 1) =>
                /\ ByteOf(v, a - addr) \in ByteValues
                /\ Spread(addr, size)[a] # Nil =>
                     /\ pendingSym # Nil
                     /\ pendingSym.val[buffer] = v =>
                          Spread(addr, size)[a].val[buffer] = ByteOf(v, a - addr)
<1> DEFINE s == Spread(addr, size)[a]
<1>1. size \in 1..RegWidth /\ size \in Nat \ {0} /\ addr \in Nat /\ a \in Nat /\ KeptWord(pendingSym)
      /\ buffer \in AllInputs /\ ByteBits \in Nat /\ ByteBits \in 1..Bits(RegWidth)
  <2>1. size \in 1..RegWidth /\ a \in Nat
    BY BitsOf, ShadowAssumption
  <2> QED
    BY <2>1, PlacesOf, BitsOf DEF CpuTyped, ShadowTyped
<1>2. CASE a \notin addr..(addr + size - 1)
  <2>1. s = shadow.mem[a]
    BY <1>2 DEF Spread
  <2> HIDE DEF s
  <2> QED
    BY <1>2, <2>1 DEF ShadowTyped, s
<1>3. CASE a \in addr..(addr + size - 1)
  <2>1. a - addr \in 0..(size - 1) /\ a - addr \in Nat
    BY <1>1, <1>3
  <2>2. Bits(a - addr) \in Nat /\ Two[Bits(a - addr)] \in Nat \ {0} /\ v \in Nat
    <3>1. Bits(a - addr) \in Nat
      BY <2>1, BitsOf
    <3> QED
      BY <3>1, TwoRecursion
  <2>3. ByteOf(v, a - addr) \in ByteValues
    <3>1. v \div Two[Bits(a - addr)] \in Int
      BY <2>2, DivNat
    <3> QED
      BY <3>1, <1>1, LowRange DEF ByteOf, ByteValues
  <2>4. CASE pendingSym = Nil
    <3>1. s = Nil
      BY <1>3, <2>4, NilIsKept DEF Spread
    <3> QED
      BY <1>3, <2>3, <3>1, NilIsKept
  <2>5. CASE pendingSym # Nil /\ size = 1 /\ pendingSym.bits = ByteBits
    <3>1. s = pendingSym
      BY <1>1, <1>3, <2>5, KeptOf DEF Spread
    <3>2. a - addr = 0 /\ Bits(0) = 0 /\ Two[0] = 1 /\ Bits(size) = ByteBits
      BY <2>1, <2>5, BitsOf, TwoRecursion
    <3>3. v \div Two[Bits(a - addr)] = v
      BY <2>2, <3>2
    <3>4. ByteOf(v, a - addr) = v
      <4>1. v \in 0..(Two[ByteBits] - 1)
        BY <3>2
      <4> QED
        BY <3>3, <4>1, <1>1, LowSmall DEF ByteOf
    <3> HIDE DEF s
    <3> QED
      BY <1>1, <1>3, <2>3, <2>5, <3>1, <3>4 DEF s
  <2>6. CASE pendingSym # Nil /\ ~(size = 1 /\ pendingSym.bits = ByteBits)
    <3>1. OfWord(pendingSym) /\ isSymbolic(pendingSym)
      BY <1>1, <2>6, KeptOf
    <3>2. s = mkExtract(pendingSym, Bits(a - addr), ByteBits)
      BY <1>3, <2>6, <3>1 DEF Spread
    <3> HIDE DEF s
    <3>3. OfWord(s) /\ ~s.const /\ s.bits = ByteBits
          /\ s.val[buffer] = Low(pendingSym.val[buffer] \div Two[Bits(a - addr)], ByteBits)
      <4>1. PICK low \in Nat : low = Bits(a - addr)
        BY <2>2
      <4>2. LET x == mkExtract(pendingSym, low, ByteBits) IN
            OfWord(x) /\ ~x.const /\ x.bits = ByteBits
            /\ \A in \in AllInputs : x.val[in] = Low(pendingSym.val[in] \div Two[low], ByteBits)
        BY <1>1, <3>1, mkExtractOf
      <4> QED
        BY <1>1, <3>2, <4>1, <4>2
    <3>4. KeptWord(s)
      BY <3>3, WordIsKept
    <3> QED
      BY <1>3, <2>3, <2>6, <3>3, <3>4 DEF ByteOf, s
  <2> QED
    BY <2>4, <2>5, <2>6
<1> QED
  BY <1>2, <1>3

-----------------------------------------------------------------------------
(* Operations and jumps.                                                   *)

LEMMA KindOf ==
    ASSUME NEW op \in Operations
    PROVE  /\ Kind(op) \in AluKinds
           /\ op \in {"add", "sub", "and", "or", "xor", "adc", "sbb", "cmp", "test"}
<1>1. op \in {"add", "sub", "and", "or", "xor", "adc", "sbb", "cmp", "test"}
  BY ShadowAssumption
<1> QED
  BY <1>1 DEF Kind, AluKinds

\* A value of an operand.
Operand(v, size) == v \in Nat /\ v < Two[Bits(size)]

LEMMA OperandsOf ==
    ASSUME CpuTyped, NEW size \in OperandSizes, NEW ab \in Operands(size)
    PROVE  Operand(ab[1], size) /\ Operand(ab[2], size)
<1>1. Bits(size) \in Nat
  BY BitsOf
<1>2. \A v \in Nat : Operand(Low(v, Bits(size)), size)
  <2> TAKE v \in Nat
  <2>1. v \in Int
    OBVIOUS
  <2> QED
    BY <2>1, <1>1, LowRange DEF Operand
<1>3. \A r \in Registers : cpu.regs[r] \in Nat
  <2>1. Two[Bits(RegWidth)] \in Nat
    BY BitsOf, TwoRecursion
  <2> QED
    BY <2>1 DEF CpuTyped, CpuStates, RegValues
<1>4. cpu.value \in Nat /\ Immediates \subseteq Nat
  BY ShadowAssumption DEF CpuTyped, CpuStates
<1>5. \A b \in Immediates \cup {cpu.regs[r] : r \in Registers} : b \in Nat
  BY <1>3, <1>4
<1>6. CASE \E b \in Immediates \cup {cpu.regs[r] : r \in Registers} :
               ab = <<Low(cpu.value, Bits(size)), Low(b, Bits(size))>>
  BY <1>2, <1>4, <1>5, <1>6
<1>7. CASE \E r \in Registers : ab = <<Low(cpu.regs[r], Bits(size)), Low(cpu.value, Bits(size))>>
  BY <1>2, <1>3, <1>4, <1>7
<1> QED
  BY <1>6, <1>7 DEF Operands

Carry(op) == IF op \in {"adc", "sbb"} THEN cpu.flags.cf ELSE 0

LEMMA ResultOf ==
    ASSUME CpuTyped, NEW op \in Operations, NEW size \in OperandSizes, NEW a, NEW b,
           Operand(a, size), Operand(b, size)
    PROVE  Operand(Result(op, a, b, size), size)
<1>1. Bits(size) \in Nat /\ Bits(size) + 1 \in Nat
  BY BitsOf
<1>2. Carry(op) \in {0, 1}
  BY DEF CpuTyped, CpuStates, FlagValues, Carry
<1> DEFINE c == Carry(op)
           b1 == IF Kind(op) \in {"add", "sub"} THEN b + c ELSE b
<1>3. a \in Nat /\ b1 \in Nat
  BY <1>2 DEF Operand
<1>4. Applied(Kind(op), a, b1, Bits(size) + 1) \in Int
  <2> HIDE DEF b1
  <2> QED
    BY <1>1, <1>3, KindOf, AppliedOf
<1>5. Result(op, a, b, size) = Low(Applied(Kind(op), a, b1, Bits(size) + 1), Bits(size))
  BY DEF Result, Carry
<1> HIDE DEF b1
<1> QED
  BY <1>1, <1>4, <1>5, LowRange DEF Operand

LEMMA TopOf ==
    ASSUME NEW size \in OperandSizes, NEW v, Operand(v, size)
    PROVE  Top(v, size) \in {0, 1}
<1>1. Bits(size) \in Nat \ {0} /\ Bits(size) - 1 \in Nat /\ Bits(size) - (Bits(size) - 1) = 1
      /\ Bits(size) - 1 <= Bits(size) /\ Bits(size) \in Nat
  <2>1. size \in 1..RegWidth
    BY BitsOf
  <2>2. Bits(size) \in 1..Bits(RegWidth)
    BY <2>1, BitsOf
  <2>3. Bits(RegWidth) \in Nat
    BY BitsOf
  <2> QED
    BY <2>2, <2>3
<1>2. PICK n \in Nat, m \in Nat : n = Bits(size) /\ m = Bits(size) - 1 /\ m <= n /\ n - m = 1
  BY <1>1
<1>3. Two[n] = Two[m] * Two[1] /\ Two[m] \in Nat \ {0} /\ Two[1] = 2
  BY <1>2, TwoMultiple, TwoRecursion, LowOfTruth
<1>4. v \in 0..(Two[m] * 2 - 1)
  BY <1>2, <1>3 DEF Operand
<1>5. v \div Two[m] \in 0..(2 - 1)
  <2>1. 2 \in Nat \ {0}
    OBVIOUS
  <2> QED
    BY <1>3, <1>4, <2>1, DivOfProduct
<1> QED
  BY <1>2, <1>5 DEF Top

LEMMA CpuFlagsOf ==
    ASSUME CpuTyped, NEW op \in Operations, NEW size \in OperandSizes, NEW a, NEW b,
           Operand(a, size), Operand(b, size)
    PROVE  CpuFlags(op, a, b, size) \in FlagValues
<1> DEFINE c == Carry(op)
           r == Result(op, a, b, size)
           cf == CASE Kind(op) = "add" -> Truth(a + b + c >= Two[Bits(size)])
                   [] Kind(op) = "sub" -> Truth(a < b + c)
                   [] OTHER -> 0
           of == CASE Kind(op) = "add" -> Truth(Top(a, size) = Top(b, size) /\ Top(r, size) # Top(a, size))
                   [] Kind(op) = "sub" -> Truth(Top(a, size) # Top(b, size) /\ Top(r, size) # Top(a, size))
                   [] OTHER -> 0
<1>1. CpuFlags(op, a, b, size) = [zf |-> Truth(r = 0), sf |-> Top(r, size), cf |-> cf, of |-> of]
  BY DEF CpuFlags, Carry
<1>2. Operand(r, size)
  BY ResultOf
<1>3. Top(r, size) \in {0, 1}
  BY <1>2, TopOf
<1>4. Truth(r = 0) \in {0, 1}
  BY DEF Truth
<1>5. cf \in {0, 1}
  BY DEF Truth
<1>6. of \in {0, 1}
  BY DEF Truth
<1> HIDE DEF cf, of, r
<1> QED
  BY <1>1, <1>3, <1>4, <1>5, <1>6 DEF FlagValues

\* The expression of an operation has its result, the carry apart.
LEMMA DerivedOf ==
    ASSUME CpuTyped, NEW op \in Operations, NEW size \in OperandSizes, NEW l, OfWord(l),
           NEW a, NEW b, Operand(a, size), Operand(b, size)
    PROVE  LET d == Derived(op, l, b, size) IN
           /\ OfWord(d) /\ ~d.const /\ d.bits = Bits(size)
           /\ op \notin {"adc", "sbb"} /\ l.val[buffer] = a => d.val[buffer] = Result(op, a, b, size)
<1> DEFINE k == mkConst(b, Bits(size))
           d == mkBinop(Kind(op), l, k, Bits(size))
<1>1. size \in 1..RegWidth /\ Bits(size) \in 1..Bits(RegWidth) /\ Bits(size) \in Nat
      /\ Bits(size) + 1 \in Nat /\ buffer \in AllInputs /\ a \in Nat /\ b \in Nat
  BY BitsOf DEF CpuTyped, Operand
<1>2. Two[Bits(size)] \in Nat \ {0} /\ Two[Bits(size) + 1] = 2 * Two[Bits(size)]
  BY <1>1, TwoRecursion
<1>3. Low(b, Bits(size)) = b
  <2>1. b \in 0..(Two[Bits(size)] - 1)
    BY <1>2 DEF Operand
  <2> QED
    BY <1>1, <2>1, LowSmall
<1>4. OfWord(k) /\ k.val[buffer] = b
  BY <1>1, <1>3, mkConstOf
<1> HIDE DEF k
<1>5. OfWord(d) /\ ~d.const /\ d.bits = Bits(size)
      /\ d.val[buffer] = Low(Applied(Kind(op), l.val[buffer], k.val[buffer], Bits(size)), Bits(size))
  <2>1. PICK n \in 1..Bits(RegWidth) : n = Bits(size)
    BY <1>1
  <2>2. Kind(op) \in AluKinds
    BY KindOf
  <2>3. LET e == mkBinop(Kind(op), l, k, n) IN
        /\ OfWord(e) /\ ~e.const /\ e.bits = n
        /\ \A in \in AllInputs : e.val[in] = Low(Applied(Kind(op), l.val[in], k.val[in], n), n)
    BY <1>4, <2>2, mkBinopOf
  <2> QED
    BY <1>1, <2>1, <2>3
<1>6. Derived(op, l, b, size) = d
  BY DEF Derived, k
<1>7. ASSUME op \notin {"adc", "sbb"}, l.val[buffer] = a
      PROVE  d.val[buffer] = Result(op, a, b, size)
  <2>1. d.val[buffer] = Low(Applied(Kind(op), a, b, Bits(size)), Bits(size))
    BY <1>4, <1>5, <1>7
  <2>2. b + 0 = b
    BY <1>1
  <2>3. Result(op, a, b, size) = Low(Applied(Kind(op), a, b, Bits(size) + 1), Bits(size))
    BY <1>7, <2>2 DEF Result
  <2>4. CASE Kind(op) = "sub"
    <3>1. PICK n \in Nat : n = Bits(size)
      BY <1>1
    <3>2. PICK T \in Nat : T = Two[n]
      BY <1>2, <3>1
    <3>3. Applied(Kind(op), a, b, Bits(size)) = T * 1 + (a - b)
      BY <1>1, <2>4, <3>1, <3>2 DEF Applied
    <3>4. Applied(Kind(op), a, b, Bits(size) + 1) = T * 2 + (a - b)
      BY <1>1, <1>2, <2>4, <3>1, <3>2 DEF Applied
    <3>5. Low(Two[n] * 1 + (a - b), n) = Low(a - b, n) /\ Low(Two[n] * 2 + (a - b), n) = Low(a - b, n)
      <4>1. a - b \in Int /\ 1 \in Int /\ 2 \in Int
        BY <1>1
      <4> QED
        BY <4>1, LowOfSum
    <3> QED
      BY <2>1, <2>3, <3>1, <3>2, <3>3, <3>4, <3>5
  <2>5. CASE Kind(op) # "sub"
    <3>1. Applied(Kind(op), a, b, Bits(size)) = Applied(Kind(op), a, b, Bits(size) + 1)
      <4>1. Kind(op) = "add" \/ Kind(op) = "and" \/ Kind(op) = "or" \/ Kind(op) = "xor"
        BY <2>5, KindOf DEF AluKinds
      <4> QED
        BY <4>1 DEF Applied
    <3> QED
      BY <2>1, <2>3, <3>1
  <2> QED
    BY <2>4, <2>5
<1> HIDE DEF d
<1> QED
  BY <1>5, <1>6, <1>7

LEMMA SumWraps ==
    ASSUME NEW T \in Nat \ {0}, NEW a \in 0..(T - 1), NEW b \in 0..(T - 1)
    PROVE  ((a + b) % T < a) <=> (a + b >= T)
<1>1. CASE a + b < T
  <2>1. a + b \in 0..(T - 1)
    BY <1>1
  <2>2. (a + b) % T = a + b
    BY <2>1, ModOfSmall
  <2> QED
    BY <1>1, <2>2
<1>2. CASE a + b >= T
  <2>1. a + b - T \in 0..(T - 1) /\ a + b = T * 1 + (a + b - T)
    BY <1>2
  <2>2. (T * 1 + (a + b - T)) % T = a + b - T
    <3>1. 1 \in Int
      OBVIOUS
    <3> QED
      BY <2>1, <3>1, DivModUnique
  <2>3. (a + b) % T = a + b - T
    BY <2>1, <2>2
  <2> QED
    BY <1>2, <2>3
<1> QED
  BY <1>1, <1>2

\* The flags' expressions have the flags, unless a carry is in.
LEMMA FlagsOfOf ==
    ASSUME CpuTyped, NEW op \in Operations, NEW size \in OperandSizes, NEW l, OfWord(l),
           NEW a, NEW b, Operand(a, size), Operand(b, size)
    PROVE  LET x == FlagsOf(op, l, b, size) IN
           /\ DOMAIN x = FlagNames
           /\ x = [zf |-> x.zf, cf |-> x.cf, sf |-> x.sf]
           /\ OfTruth(x.zf) /\ OfTruth(x.cf) /\ OfTruth(x.sf)
           /\ op \notin {"adc", "sbb"} /\ l.val[buffer] = a =>
                /\ x.zf.val[buffer] = CpuFlags(op, a, b, size).zf
                /\ x.cf.val[buffer] = CpuFlags(op, a, b, size).cf
                /\ x.sf.val[buffer] = CpuFlags(op, a, b, size).sf
<1> DEFINE d == Derived(op, l, b, size)
           zero == mkConst(0, Bits(size))
           none == mkConst(0, 1)
           k == mkConst(b, Bits(size))
           top == mkExtract(d, Bits(size) - 1, 1)
           zf == mkCmp("eq", d, zero)
           cf == CASE Kind(op) = "add" -> mkCmp("ult", d, l)
                   [] Kind(op) = "sub" -> mkCmp("ult", l, k)
                   [] OTHER -> none
           sf == mkCmp("ne", top, none)
           r == Result(op, a, b, size)
           x == FlagsOf(op, l, b, size)
<1>1. size \in 1..RegWidth /\ Bits(size) \in 1..Bits(RegWidth) /\ Bits(size) \in Nat
      /\ buffer \in AllInputs /\ a \in Nat /\ b \in Nat /\ 1 \in 1..Bits(RegWidth)
      /\ Bits(size) - 1 \in Nat
  <2>1. size \in 1..RegWidth /\ 1 \in 1..Bits(RegWidth)
    BY BitsOf
  <2>2. Bits(size) \in 1..Bits(RegWidth) /\ Bits(size) \in Nat
    BY <2>1, BitsOf
  <2>3. Bits(size) - 1 \in Nat
    BY <2>2
  <2> QED
    BY <2>1, <2>2, <2>3 DEF CpuTyped, Operand
<1>2. x = [zf |-> zf, cf |-> cf, sf |-> sf]
  BY DEF FlagsOf
<1>3. OfWord(d) /\ (op \notin {"adc", "sbb"} /\ l.val[buffer] = a => d.val[buffer] = r)
  BY DerivedOf
<1> HIDE DEF d, r
<1>4. Two[Bits(size)] \in Nat \ {0}
  BY <1>1, TwoRecursion
<1>5. OfWord(zero) /\ zero.val[buffer] = 0
  <2>1. 0 \in 0..(Two[Bits(size)] - 1) /\ 0 \in Nat
    BY <1>4
  <2>2. Low(0, Bits(size)) = 0
    BY <1>1, <2>1, LowSmall
  <2> QED
    BY <1>1, <2>1, <2>2, mkConstOf
<1>6. OfWord(none) /\ none.val[buffer] = 0 /\ OfTruth(none)
  <2>1. 0 \in 0..(Two[1] - 1) /\ 0 \in Nat /\ 1 \in Nat
    BY LowOfTruth
  <2>2. Low(0, 1) = 0
    BY <2>1, LowSmall
  <2>3. OfWord(none) /\ none.bits = 1 /\ \A in \in AllInputs : none.val[in] = 0
    BY <1>1, <2>1, <2>2, mkConstOf
  <2> HIDE DEF none
  <2> QED
    BY <1>1, <2>3 DEF OfWord, OfTruth
<1>7. OfWord(k) /\ k.val[buffer] = b
  <2>1. b \in 0..(Two[Bits(size)] - 1)
    BY <1>4 DEF Operand
  <2>2. Low(b, Bits(size)) = b
    BY <1>1, <2>1, LowSmall
  <2> QED
    BY <1>1, <2>2, mkConstOf
<1>8. OfWord(top) /\ top.val[buffer] = Low(d.val[buffer] \div Two[Bits(size) - 1], 1)
  <2>1. PICK low \in Nat : low = Bits(size) - 1
    BY <1>1
  <2>2. LET e == mkExtract(d, low, 1) IN
        /\ OfWord(e)
        /\ \A in \in AllInputs : e.val[in] = Low(d.val[in] \div Two[low], 1)
    <3>1. OfWord(d)
      BY <1>3
    <3>2. PICK one \in 1..Bits(RegWidth) : one = 1
      BY <1>1
    <3>3. LET e == mkExtract(d, low, one) IN
          /\ OfWord(e)
          /\ \A in \in AllInputs : e.val[in] = Low(d.val[in] \div Two[low], one)
      BY <3>1, mkExtractOf
    <3> QED
      BY <3>2, <3>3
  <2> QED
    BY <1>1, <2>1, <2>2
<1> HIDE DEF zero, none, k, top
<1>9. OfTruth(zf) /\ zf.val[buffer] = Truth(d.val[buffer] = 0)
  <2>1. OfTruth(zf) /\ zf.val[buffer] = Truth(Compared("eq", d.val[buffer], zero.val[buffer]))
    BY <1>1, <1>3, <1>5, mkCmpOf
  <2> QED
    BY <2>1, <1>5 DEF Compared
<1>10. OfTruth(sf) /\ sf.val[buffer] = Truth(top.val[buffer] # 0)
  <2>1. OfTruth(sf) /\ sf.val[buffer] = Truth(Compared("ne", top.val[buffer], none.val[buffer]))
    BY <1>1, <1>6, <1>8, mkCmpOf
  <2> QED
    BY <2>1, <1>6 DEF Compared
<1>11. /\ OfTruth(cf)
       /\ Kind(op) = "add" => cf.val[buffer] = Truth(d.val[buffer] < l.val[buffer])
       /\ Kind(op) = "sub" => cf.val[buffer] = Truth(l.val[buffer] < b)
       /\ Kind(op) \notin {"add", "sub"} => cf.val[buffer] = 0
  <2>1. CASE Kind(op) = "add"
    <3>1. cf = mkCmp("ult", d, l)
      BY <2>1
    <3>2. OfTruth(cf) /\ cf.val[buffer] = Truth(Compared("ult", d.val[buffer], l.val[buffer]))
      BY <1>1, <1>3, <3>1, mkCmpOf
    <3> HIDE DEF cf
    <3> QED
      BY <2>1, <3>2 DEF Compared
  <2>2. CASE Kind(op) = "sub"
    <3>1. cf = mkCmp("ult", l, k)
      BY <2>2
    <3>2. OfTruth(cf) /\ cf.val[buffer] = Truth(Compared("ult", l.val[buffer], k.val[buffer]))
      BY <1>1, <1>7, <3>1, mkCmpOf
    <3> HIDE DEF cf
    <3> QED
      BY <2>2, <3>2, <1>7 DEF Compared
  <2>3. CASE Kind(op) \notin {"add", "sub"}
    <3>1. cf = none
      BY <2>3
    <3> HIDE DEF cf
    <3> QED
      BY <2>3, <3>1, <1>6
  <2> QED
    BY <2>1, <2>2, <2>3
<1> HIDE DEF zf, cf, sf
<1>12. ASSUME op \notin {"adc", "sbb"}, l.val[buffer] = a
       PROVE  /\ zf.val[buffer] = CpuFlags(op, a, b, size).zf
              /\ cf.val[buffer] = CpuFlags(op, a, b, size).cf
              /\ sf.val[buffer] = CpuFlags(op, a, b, size).sf
  <2> DEFINE f == CpuFlags(op, a, b, size)
  <2>1. d.val[buffer] = r
    BY <1>3, <1>12
  <2>2. /\ f.zf = Truth(r = 0) /\ f.sf = Top(r, size)
        /\ f.cf = CASE Kind(op) = "add" -> Truth(a + b + 0 >= Two[Bits(size)])
                    [] Kind(op) = "sub" -> Truth(a < b + 0)
                    [] OTHER -> 0
    BY <1>12 DEF CpuFlags, r
  <2> HIDE DEF f
  <2>3. a + b + 0 = a + b /\ b + 0 = b
    BY <1>1
  <2>4. zf.val[buffer] = f.zf
    BY <1>9, <2>1, <2>2
  <2>5. sf.val[buffer] = f.sf
    <3>1. Operand(r, size)
      BY ResultOf DEF r
    <3>2. Top(r, size) \in {0, 1}
      BY <3>1, TopOf
    <3>3. top.val[buffer] = Low(Top(r, size), 1)
      BY <1>8, <2>1 DEF Top
    <3>4. Low(Top(r, size), 1) = Top(r, size)
      <4>1. 1 \in Nat /\ Top(r, size) \in 0..(Two[1] - 1)
        BY <3>2, LowOfTruth
      <4> QED
        BY <4>1, LowSmall
    <3>5. Truth(Top(r, size) # 0) = Top(r, size)
      BY <3>2 DEF Truth
    <3> QED
      BY <1>10, <2>2, <3>3, <3>4, <3>5
  <2>6. cf.val[buffer] = f.cf
    <3>1. CASE Kind(op) = "add"
      <4>1. cf.val[buffer] = Truth(r < a)
        BY <1>11, <1>12, <2>1, <3>1
      <4>2. f.cf = Truth(a + b >= Two[Bits(size)])
        BY <2>2, <2>3, <3>1
      <4>3. r = (a + b) % Two[Bits(size)]
        BY <1>12, <2>3, <3>1 DEF r, Result, Applied, Low
      <4>4. (r < a) <=> (a + b >= Two[Bits(size)])
        <5>1. PICK T \in Nat \ {0} : T = Two[Bits(size)]
          BY <1>4
        <5>2. a \in 0..(T - 1) /\ b \in 0..(T - 1)
          BY <5>1 DEF Operand
        <5> QED
          BY <4>3, <5>1, <5>2, SumWraps
      <4> QED
        BY <4>1, <4>2, <4>4 DEF Truth
    <3>2. CASE Kind(op) = "sub"
      BY <1>11, <1>12, <2>2, <2>3, <3>2
    <3>3. CASE Kind(op) \notin {"add", "sub"}
      BY <1>11, <2>2, <3>3
    <3> QED
      BY <3>1, <3>2, <3>3
  <2> QED
    BY <2>4, <2>5, <2>6 DEF f
<1>13. x.zf = zf /\ x.cf = cf /\ x.sf = sf /\ DOMAIN x = FlagNames
  BY <1>2 DEF FlagNames
<1> HIDE DEF x
<1> QED
  BY <1>2, <1>9, <1>10, <1>11, <1>12, <1>13 DEF x

\* What a jump's predicate says: the condition that is taken, the signed ones apart.
LEMMA PredicateOf ==
    ASSUME CpuTyped, ShadowTyped, NEW cc \in Codes, isSymbolic(Predicate(cc))
    PROVE  /\ OfTruth(Predicate(cc))
           /\ FlagsHold /\ cc \notin Signed => (Predicate(cc).val[buffer] = 1) = Holds(cc)
<1> DEFINE zf == shadow.flags.zf
           cf == shadow.flags.cf
           sf == shadow.flags.sf
           f == cpu.flags
           either == mkOr(cf, zf)
           p == Predicate(cc)
<1>1. cc \in {"e", "ne", "b", "ae", "be", "a", "s", "ns", "o", "no", "l", "ge", "le", "g"}
  BY ShadowAssumption
<1>2. shadow.flags # NoFlags
  <2> SUFFICES ASSUME shadow.flags = NoFlags PROVE ~isSymbolic(p)
    OBVIOUS
  <2>1. zf = Nil /\ cf = Nil /\ sf = Nil
    BY DEF NoFlags
  <2>2. p = Nil
    BY <1>1, <2>1 DEF Predicate
  <2> QED
    BY <2>2, NilIsKept
<1>3. /\ OfTruth(zf) /\ OfTruth(cf) /\ OfTruth(sf)
      /\ zf # Nil /\ cf # Nil /\ sf # Nil
  <2>1. OfTruth(zf) /\ OfTruth(cf) /\ OfTruth(sf)
    BY <1>2 DEF ShadowTyped, FlagNames
  <2> QED
    BY <2>1, NilAssumption DEF OfTruth
<1>4. /\ FlagsHold => zf.val[buffer] = f.zf /\ cf.val[buffer] = f.cf /\ sf.val[buffer] = f.sf
      /\ f.zf \in {0, 1} /\ f.cf \in {0, 1} /\ f.sf \in {0, 1} /\ buffer \in AllInputs
  BY <1>2 DEF FlagsHold, FlagNames, CpuTyped, CpuStates, FlagValues
<1>5. /\ zf.val[buffer] \in {0, 1} /\ cf.val[buffer] \in {0, 1} /\ sf.val[buffer] \in {0, 1}
  BY <1>3, <1>4 DEF OfTruth
<1>6. OfTruth(either) /\ either.val[buffer] = Truth(cf.val[buffer] = 1 \/ zf.val[buffer] = 1)
  BY <1>3, <1>4, mkOrOf
<1>7. either # Nil
  BY <1>6, NilAssumption DEF OfTruth
<1>8. \A e : OfTruth(e) => OfTruth(mkNot(e)) /\ mkNot(e).val[buffer] = 1 - e.val[buffer]
  BY <1>4, mkNotOf
<1> HIDE DEF zf, cf, sf, f, either, p
<1>9. CASE cc \in Signed
  <2>1. p = zf \/ p = mkNot(zf)
    BY <1>3, <1>9 DEF p, Predicate, Signed, zf
  <2> QED
    BY <1>3, <1>8, <1>9, <2>1 DEF p
<1>10. CASE cc \in {"e", "b", "s"}
  <2>1. CASE cc = "e"
    <3>1. p = zf /\ Holds(cc) = (f.zf = 1)
      BY <2>1 DEF p, Predicate, zf, f, Holds
    <3> QED
      BY <3>1, <1>3, <1>4 DEF p
  <2>2. CASE cc = "b"
    <3>1. p = cf /\ Holds(cc) = (f.cf = 1)
      BY <2>2 DEF p, Predicate, cf, f, Holds
    <3> QED
      BY <3>1, <1>3, <1>4 DEF p
  <2>3. CASE cc = "s"
    <3>1. p = sf /\ Holds(cc) = (f.sf = 1)
      BY <2>3 DEF p, Predicate, sf, f, Holds
    <3> QED
      BY <3>1, <1>3, <1>4 DEF p
  <2> QED
    BY <1>10, <2>1, <2>2, <2>3
<1>11. CASE cc \in {"ne", "ae", "ns"}
  <2>1. CASE cc = "ne"
    <3>1. p = mkNot(zf) /\ Holds(cc) = (f.zf = 0)
      BY <1>3, <2>1 DEF p, Predicate, zf, f, Holds
    <3>2. OfTruth(p) /\ p.val[buffer] = 1 - zf.val[buffer]
      BY <3>1, <1>3, <1>8
    <3> QED
      BY <3>1, <3>2, <1>4 DEF p
  <2>2. CASE cc = "ae"
    <3>1. p = mkNot(cf) /\ Holds(cc) = (f.cf = 0)
      BY <1>3, <2>2 DEF p, Predicate, cf, f, Holds
    <3>2. OfTruth(p) /\ p.val[buffer] = 1 - cf.val[buffer]
      BY <3>1, <1>3, <1>8
    <3> QED
      BY <3>1, <3>2, <1>4 DEF p
  <2>3. CASE cc = "ns"
    <3>1. p = mkNot(sf) /\ Holds(cc) = (f.sf = 0)
      BY <1>3, <2>3 DEF p, Predicate, sf, f, Holds
    <3>2. OfTruth(p) /\ p.val[buffer] = 1 - sf.val[buffer]
      BY <3>1, <1>3, <1>8
    <3> QED
      BY <3>1, <3>2, <1>4 DEF p
  <2> QED
    BY <1>11, <2>1, <2>2, <2>3
<1>12. CASE cc = "be"
  <2>1. p = either /\ Holds(cc) = (f.cf = 1 \/ f.zf = 1)
    BY <1>3, <1>12 DEF p, Predicate, zf, cf, f, either, Holds
  <2>2. (either.val[buffer] = 1) = (cf.val[buffer] = 1 \/ zf.val[buffer] = 1)
    BY <1>6 DEF Truth
  <2> QED
    BY <2>1, <2>2, <1>4, <1>6 DEF p
<1>13. CASE cc = "a"
  <2>1. p = mkNot(either) /\ Holds(cc) = (f.cf = 0 /\ f.zf = 0)
    <3>1. either # Nil
      BY <1>7
    <3> QED
      BY <1>3, <1>13, <3>1 DEF p, Predicate, zf, cf, f, either, Holds
  <2>2. OfTruth(p) /\ p.val[buffer] = 1 - either.val[buffer]
    BY <2>1, <1>6, <1>8
  <2>3. (p.val[buffer] = 1) = (cf.val[buffer] = 0 /\ zf.val[buffer] = 0)
    BY <2>2, <1>5, <1>6 DEF Truth
  <2> QED
    BY <2>1, <2>2, <2>3, <1>4 DEF p
<1>14. CASE cc \in {"o", "no"}
  <2>1. p = Nil
    BY <1>14 DEF p, Predicate
  <2> QED
    BY <2>1, NilIsKept DEF p
<1> QED
  BY <1>1, <1>9, <1>10, <1>11, <1>12, <1>13, <1>14 DEF Signed

LEMMA HoldsIsTruth ==
    ASSUME NEW cc \in Codes
    PROVE  Holds(cc) \in BOOLEAN
<1>1. cc \in {"e", "ne", "b", "ae", "be", "a", "s", "ns", "o", "no", "l", "ge", "le", "g"}
  BY ShadowAssumption
<1> QED
  BY <1>1 DEF Holds

-----------------------------------------------------------------------------
(* An input begins.                                                        *)

LEMMA RestoredOf ==
    ASSUME NEW in \in AllInputs
    PROVE  /\ Restored(in) \in CpuStates
           /\ \A a \in InputBytes : Restored(in).mem[a] = in[a + 1]
<1>1. ASSUME NEW a \in Memory PROVE (IF a < InputLen THEN in[a + 1] ELSE 0) \in ByteValues
  <2>1. a \in Nat /\ InputLen \in Nat
    BY ShadowAssumption
  <2>2. CASE a < InputLen
    <3>1. a \in InputBytes
      BY <2>1, <2>2 DEF InputBytes
    <3> QED
      BY <2>2, <3>1, InputOf
  <2>3. CASE ~(a < InputLen)
    <3>1. Two[ByteBits] \in Nat \ {0}
      BY BitsOf, TwoRecursion
    <3> QED
      BY <2>3, <3>1 DEF ByteValues
  <2> QED
    BY <2>2, <2>3
<1>2. 0 \in RegValues
  <2>1. Bits(RegWidth) \in Nat
    BY BitsOf
  <2>2. Two[Bits(RegWidth)] \in Nat \ {0}
    BY <2>1, TwoRecursion
  <2> QED
    BY <2>2 DEF RegValues
<1>3. Restored(in) \in CpuStates
  BY <1>1, <1>2 DEF Restored, CpuStates, FlagValues
<1>4. \A a \in InputBytes : a \in Memory /\ a < InputLen
  BY ShadowAssumption DEF InputBytes
<1> QED
  BY <1>3, <1>4 DEF Restored

LEMMA TaintRangeOf ==
    /\ TaintRange \in [mem : [Memory -> Exprs \cup {Nil}], regs : [Registers -> Exprs \cup {Nil}],
                       flags : [zf : Exprs \cup {Nil}, cf : Exprs \cup {Nil}, sf : Exprs \cup {Nil}]]
    /\ \A a \in Memory : KeptWord(TaintRange.mem[a])
                           /\ (TaintRange.mem[a] # Nil => TaintRange.mem[a].bits = ByteBits)
    /\ \A r \in Registers : TaintRange.regs[r] = Nil
    /\ TaintRange.flags = NoFlags
    /\ \A in \in AllInputs, a \in Memory :
         TaintRange.mem[a] # Nil => TaintRange.mem[a].val[in] = Restored(in).mem[a]
<1> DEFINE s(a) == IF a < InputLen THEN mkSym(a) ELSE Nil
<1>1. ASSUME NEW a \in Memory
      PROVE  /\ KeptWord(s(a)) /\ s(a) \in Exprs \cup {Nil}
             /\ (s(a) # Nil => s(a).bits = ByteBits)
             /\ \A in \in AllInputs : s(a) # Nil => s(a).val[in] = Restored(in).mem[a]
  <2>1. CASE a < InputLen
    <3>1. a \in InputBytes
      BY <2>1, ShadowAssumption DEF InputBytes
    <3>2. OfWord(mkSym(a)) /\ ~mkSym(a).const /\ mkSym(a).bits = ByteBits
          /\ \A in \in AllInputs : mkSym(a).val[in] = in[a + 1]
      BY <3>1, mkSymOf
    <3>3. s(a) = mkSym(a)
      BY <2>1
    <3> HIDE DEF s
    <3> QED
      BY <3>1, <3>2, <3>3, WordIsKept, RestoredOf
  <2>2. CASE ~(a < InputLen)
    BY <2>2, NilIsKept
  <2> QED
    BY <2>1, <2>2
<1>2. TaintRange = [mem |-> [a \in Memory |-> s(a)], regs |-> [r \in Registers |-> Nil], flags |-> NoFlags]
  BY DEF TaintRange
<1> HIDE DEF s
<1>3. NoFlags \in [zf : Exprs \cup {Nil}, cf : Exprs \cup {Nil}, sf : Exprs \cup {Nil}]
  BY DEF NoFlags
<1> QED
  BY <1>1, <1>2, <1>3

-----------------------------------------------------------------------------
(* The low bits of a register are written.                                 *)

LEMMA WrittenOf ==
    ASSUME NEW k \in Nat, NEW n \in Nat, n <= k, NEW x \in 0..(Two[k] - 1), NEW v \in 0..(Two[n] - 1)
    PROVE  /\ x - Low(x, n) + v \in 0..(Two[k] - 1)
           /\ \A m \in Nat : m <= n => Low(x - Low(x, n) + v, m) = Low(v, m)
<1>1. Two[n] \in Nat \ {0} /\ k - n \in Nat /\ Two[k] = Two[n] * Two[k - n] /\ Two[k - n] \in Nat \ {0}
  BY TwoMultiple, TwoRecursion
<1>2. PICK b \in Nat \ {0}, c \in Nat \ {0} : b = Two[n] /\ c = Two[k - n] /\ Two[k] = b * c
  BY <1>1
<1>3. PICK q \in Nat : q = x \div b /\ x = b * q + Low(x, n) /\ Low(x, n) \in 0..(b - 1) /\ q <= c - 1
  <2>1. x \in Nat /\ x \in Int /\ x \in 0..(b * c - 1)
    BY <1>2
  <2>2. x % b \in 0..(b - 1) /\ x = b * (x \div b) + (x % b) /\ x \div b \in Nat
    BY <2>1, DivMod, DivNat
  <2>3. x \div b \in 0..(c - 1)
    BY <2>1, DivOfProduct
  <2>4. x % b = Low(x, n)
    BY <1>2 DEF Low
  <2>5. PICK q \in Nat : q = x \div b
    BY <2>2
  <2>6. q <= c - 1
    BY <2>3, <2>5
  <2>7. x = b * q + Low(x, n) /\ Low(x, n) \in 0..(b - 1)
    BY <2>2, <2>4, <2>5
  <2> QED
    BY <2>5, <2>6, <2>7
<1>4. x - Low(x, n) + v = b * q + v
  <2>1. PICK p \in Nat, l \in Nat : p = b * q /\ l = Low(x, n)
    BY <1>3
  <2>2. x = p + l
    BY <1>3, <2>1
  <2> QED
    BY <1>2, <2>1, <2>2
<1>5. b * q + v \in 0..(b * c - 1)
  <2>1. b * c = b * q + b + b * (c - 1 - q) /\ b * (c - 1 - q) >= 0
    <3>1. c - 1 - q \in Nat
      BY <1>3
    <3>2. PICK e \in Nat : e = c - 1 - q
      BY <3>1
    <3>3. c = q + 1 + e
      BY <3>2
    <3>4. b * (q + 1 + e) = b * q + b + b * e /\ b * e >= 0
      OBVIOUS
    <3> QED
      BY <3>2, <3>3, <3>4
  <2>2. PICK p \in Nat, z \in Nat, y \in Nat : p = b * q /\ z = b * (c - 1 - q) /\ y = b * c
    <3>1. c - 1 - q \in Nat
      BY <1>3
    <3>2. \A g \in Nat, h \in Nat : g * h \in Nat
      OBVIOUS
    <3> QED
      BY <3>1, <3>2
  <2>3. y = p + b + z /\ v \in Nat /\ v <= b - 1
    BY <1>2, <2>1, <2>2
  <2>4. p + v \in 0..(y - 1)
    BY <2>2, <2>3
  <2> QED
    BY <2>2, <2>4
<1>6. ASSUME NEW m \in Nat, m <= n PROVE Low(b * q + v, m) = Low(v, m)
  <2>1. Two[n] = Two[m] * Two[n - m] /\ Two[m] \in Nat \ {0} /\ Two[n - m] \in Nat \ {0}
    BY <1>6, TwoMultiple, TwoRecursion
  <2>2. PICK d \in Nat, e \in Nat : d = Two[m] /\ e = Two[n - m] /\ b = d * e
    BY <1>2, <2>1
  <2>3. b * q = d * (e * q) /\ e * q \in Int
    BY <2>2
  <2>4. v \in Int
    OBVIOUS
  <2>5. Low(Two[m] * (e * q) + v, m) = Low(v, m)
    BY <2>3, <2>4, LowOfSum
  <2> QED
    BY <2>2, <2>3, <2>5
<1> QED
  BY <1>2, <1>4, <1>5, <1>6

-----------------------------------------------------------------------------
(* The invariant.                                                          *)

\* The values that hold as long as each expression was used for its own.
ValuesHold == MemHolds /\ RegsHold /\ FlagsHold /\ PendingHold /\ PathHolds

LEMMA CallFrame ==
    ASSUME ShadowInv, Called
    PROVE  buffer' = buffer /\ buffer' \in AllInputs
BY DEF ShadowInv, CpuTyped, Called

LEMMA ShadowBegins == ShadowInit => ShadowInv
<1> SUFFICES ASSUME ShadowInit PROVE ShadowInv
  OBVIOUS
<1> USE DEF ShadowInit
<1>1. CpuTyped
  BY RestoredOf DEF CpuTyped
<1>2. ShadowTyped
  BY TaintRangeOf, NilIsKept DEF ShadowTyped
<1>3. PathTyped
  BY DEF PathTyped
<1>4. MemHolds
  BY TaintRangeOf DEF MemHolds
<1>5. RegsHold /\ FlagsHold
  BY TaintRangeOf DEF RegsHold, FlagsHold
<1>6. PendingHold /\ PathHolds
  BY DEF PendingHold, PathHolds
<1> QED
  BY <1>1, <1>2, <1>3, <1>4, <1>5, <1>6 DEF ShadowInv

LEMMA EnableConcolicKeeps == ShadowInv /\ EnableConcolic => ShadowInv'
<1> SUFFICES ASSUME ShadowInv, EnableConcolic PROVE ShadowInv'
  OBVIOUS
<1> USE DEF EnableConcolic
<1>1. CpuTyped'
  <2>1. Restored(buffer') \in CpuStates
    BY RestoredOf
  <2> QED
    BY <2>1 DEF CpuTyped
<1>2. ShadowTyped'
  <2>1. KeptWord(lastLoad) /\ KeptWord(pendingSym)
    BY DEF ShadowInv, ShadowTyped
  <2> QED
    BY <2>1, TaintRangeOf, NilIsKept DEF ShadowTyped
<1>3. PathTyped'
  BY DEF PathTyped
<1>4. MemHolds'
  BY TaintRangeOf DEF MemHolds
<1>5. RegsHold' /\ FlagsHold'
  BY TaintRangeOf DEF RegsHold, FlagsHold
<1>6. PendingHold' /\ PathHolds'
  BY DEF PendingHold, PathHolds
<1> QED
  BY <1>1, <1>2, <1>3, <1>4, <1>5, <1>6 DEF ShadowInv

LEMMA ReadMemKeeps ==
    ASSUME ShadowInv, NEW size \in OperandSizes, NEW addr \in Places(size), NEW operand \in BOOLEAN,
           ReadMem(addr, size, operand)
    PROVE  ShadowInv'
<1> DEFINE w == Word(cpu.mem, addr, size)
           e == Loaded(addr, size)
<1>1. /\ cpu' = [cpu EXCEPT !.value = w]
      /\ lastLoad' = e
      /\ pendingSym' = IF operand THEN e ELSE pendingSym
      /\ meant' = [load |-> cpu'.value, pending |-> IF operand THEN cpu'.value ELSE meant.pending]
      /\ UNCHANGED <<shadow, pathConstraints, trusted, buffer>>
  BY CallFrame DEF ReadMem, Called
<1>2. CpuTyped /\ ShadowTyped /\ PathTyped /\ (trusted => ValuesHold)
  BY DEF ShadowInv, ValuesHold
<1>3. KeptWord(e) /\ w \in Nat /\ (e # Nil /\ MemHolds => e.val[buffer] = w)
  BY <1>2, LoadedOf
<1> HIDE DEF w, e
<1>4. cpu' \in CpuStates /\ cpu'.value = w /\ cpu'.mem = cpu.mem /\ cpu'.regs = cpu.regs /\ cpu'.flags = cpu.flags
  BY <1>1, <1>2, <1>3 DEF CpuTyped, CpuStates
<1>5. CpuTyped'
  BY <1>1, <1>2, <1>3, <1>4 DEF CpuTyped
<1>6. ShadowTyped'
  BY <1>1, <1>2, <1>3 DEF ShadowTyped
<1>7. PathTyped'
  BY <1>1, <1>2 DEF PathTyped
<1>8. ASSUME trusted PROVE ValuesHold'
  <2>1. MemHolds' /\ RegsHold' /\ FlagsHold'
    BY <1>1, <1>2, <1>4, <1>8 DEF ValuesHold, MemHolds, RegsHold, FlagsHold
  <2>2. PathHolds'
    BY <1>1, <1>2, <1>8 DEF ValuesHold, PathHolds, SaysOf
  <2>3. PendingHold'
    BY <1>1, <1>2, <1>3, <1>4, <1>8 DEF ValuesHold, PendingHold
  <2> QED
    BY <2>1, <2>2, <2>3 DEF ValuesHold
<1> QED
  BY <1>1, <1>5, <1>6, <1>7, <1>8 DEF ShadowInv, ValuesHold

LEMMA ReadRegKeeps ==
    ASSUME ShadowInv, NEW size \in OperandSizes, NEW r \in Registers, ReadReg(r, size)
    PROVE  ShadowInv'
<1> DEFINE e == shadow.regs[r]
           v == Low(cpu.regs[r], Bits(size))
           x == Fit(e, size)
<1>1. /\ cpu' = [cpu EXCEPT !.value = v]
      /\ lastLoad' = x /\ pendingSym' = x
      /\ meant' = [load |-> v, pending |-> v]
      /\ trusted' = (trusted /\ (isSymbolic(e) => Low(v, e.bits) = v))
      /\ UNCHANGED <<shadow, pathConstraints, buffer>>
  BY CallFrame DEF ReadReg, Called
<1>2. CpuTyped /\ ShadowTyped /\ PathTyped /\ (trusted => ValuesHold)
  BY DEF ShadowInv, ValuesHold
<1>3. Bits(size) \in Nat /\ cpu.regs[r] \in Int /\ v \in Nat
  <2>1. Bits(size) \in Nat /\ Bits(RegWidth) \in Nat
    BY BitsOf
  <2>2. Two[Bits(RegWidth)] \in Nat
    BY <2>1, TwoRecursion
  <2>3. cpu.regs[r] \in Int
    BY <1>2, <2>2 DEF CpuTyped, CpuStates, RegValues
  <2>4. PICK n \in Nat, y \in Int : n = Bits(size) /\ y = cpu.regs[r]
    BY <2>1, <2>3
  <2>5. Low(y, n) \in Nat
    BY LowRange
  <2> QED
    BY <2>1, <2>3, <2>4, <2>5
<1>4. KeptWord(e)
  BY <1>2 DEF ShadowTyped
<1>5. KeptWord(x) /\ (x = Nil) = (e = Nil)
      /\ (e # Nil => \A in \in AllInputs :
            x.val[in] = IF e.bits > Bits(size) THEN Low(e.val[in], Bits(size)) ELSE e.val[in])
  BY <1>4, FitOf
<1>6. ASSUME trusted' PROVE x # Nil => x.val[buffer] = v
  <2> SUFFICES ASSUME x # Nil PROVE x.val[buffer] = v
    OBVIOUS
  <2>1. e # Nil /\ isSymbolic(e) /\ OfWord(e)
    BY <1>4, <1>5, KeptOf
  <2>2. e.val[buffer] = Low(cpu.regs[r], e.bits) /\ Low(v, e.bits) = v /\ buffer \in AllInputs
    BY <1>1, <1>2, <1>6, <2>1 DEF ValuesHold, RegsHold, CpuTyped
  <2>3. e.bits \in Nat
    BY <2>1, BitsOf DEF OfWord
  <2>4. PICK n \in Nat, m \in Nat, y \in Int : n = Bits(size) /\ m = e.bits /\ y = cpu.regs[r]
    BY <1>3, <2>3
  <2>5. CASE m > n
    <3>1. x.val[buffer] = Low(Low(y, m), n)
      BY <1>5, <2>1, <2>2, <2>4, <2>5
    <3>2. Low(Low(y, m), n) = Low(y, n)
      BY <2>5, LowOfLow
    <3> QED
      BY <2>4, <3>1, <3>2
  <2>6. CASE ~(m > n)
    <3>1. x.val[buffer] = Low(y, m)
      BY <1>5, <2>1, <2>2, <2>4, <2>6
    <3>2. Low(Low(y, n), m) = Low(y, m)
      BY <2>6, LowOfLow
    <3>3. Low(Low(y, n), m) = v
      BY <2>2, <2>4
    <3> QED
      BY <3>1, <3>2, <3>3
  <2> QED
    BY <2>5, <2>6
<1> HIDE DEF v, x, e
<1>7. cpu' \in CpuStates /\ cpu'.mem = cpu.mem /\ cpu'.regs = cpu.regs /\ cpu'.flags = cpu.flags
  BY <1>1, <1>2, <1>3 DEF CpuTyped, CpuStates
<1>8. CpuTyped'
  BY <1>1, <1>2, <1>3, <1>7 DEF CpuTyped
<1>9. ShadowTyped'
  BY <1>1, <1>2, <1>5 DEF ShadowTyped
<1>10. PathTyped'
  BY <1>1, <1>2 DEF PathTyped
<1>11. ASSUME trusted' PROVE ValuesHold'
  <2>1. MemHolds' /\ RegsHold' /\ FlagsHold'
    BY <1>1, <1>2, <1>7, <1>11 DEF ValuesHold, MemHolds, RegsHold, FlagsHold
  <2>2. PathHolds'
    BY <1>1, <1>2, <1>11 DEF ValuesHold, PathHolds, SaysOf
  <2>3. PendingHold'
    BY <1>1, <1>6, <1>11 DEF PendingHold
  <2> QED
    BY <2>1, <2>2, <2>3 DEF ValuesHold
<1> QED
  BY <1>8, <1>9, <1>10, <1>11 DEF ShadowInv, ValuesHold

LEMMA WriteMemKeeps ==
    ASSUME ShadowInv, NEW size \in OperandSizes, NEW addr \in Places(size),
           NEW v \in 0..(Two[Bits(size)] - 1), WriteMem(addr, size, v)
    PROVE  ShadowInv'
<1> DEFINE span == addr..(addr + size - 1)
           mem == [a \in Memory |-> IF a \in span THEN ByteOf(v, a - addr) ELSE cpu.mem[a]]
           s == Spread(addr, size)
<1>1. /\ cpu' = [cpu EXCEPT !.mem = mem]
      /\ shadow' = [shadow EXCEPT !.mem = s]
      /\ trusted' = (trusted /\ (isSymbolic(pendingSym) => v = meant.pending))
      /\ lastLoad' = Nil /\ pendingSym' = Nil
      /\ UNCHANGED <<pathConstraints, meant, buffer>>
  BY CallFrame DEF WriteMem, Called
<1>2. CpuTyped /\ ShadowTyped /\ PathTyped /\ (trusted => ValuesHold)
  BY DEF ShadowInv, ValuesHold
<1>3. \A a \in Memory :
           /\ KeptWord(s[a])
           /\ s[a] # Nil => s[a].bits = ByteBits
           /\ a \notin span => s[a] = shadow.mem[a]
           /\ a \in span =>
                /\ ByteOf(v, a - addr) \in ByteValues
                /\ s[a] # Nil =>
                     /\ pendingSym # Nil
                     /\ pendingSym.val[buffer] = v => s[a].val[buffer] = ByteOf(v, a - addr)
  BY <1>2, SpreadOf
<1>4. DOMAIN s = Memory /\ s = [a \in Memory |-> s[a]]
  BY DEF Spread
<1>5. v \in Nat
  <2>1. Bits(size) \in Nat
    BY BitsOf
  <2>2. Two[Bits(size)] \in Nat
    BY <2>1, TwoRecursion
  <2> QED
    BY <2>2
<1> HIDE DEF s, span
<1>6. mem \in [Memory -> ByteValues]
  BY <1>2, <1>3 DEF CpuTyped, CpuStates
<1>7. cpu' \in CpuStates /\ cpu'.mem = mem /\ cpu'.regs = cpu.regs /\ cpu'.flags = cpu.flags
  <2> HIDE DEF mem
  <2> QED
    BY <1>1, <1>2, <1>6 DEF CpuTyped, CpuStates
<1>8. CpuTyped'
  BY <1>1, <1>2, <1>7 DEF CpuTyped
<1>9. shadow'.mem = s /\ shadow'.regs = shadow.regs /\ shadow'.flags = shadow.flags
      /\ shadow' = [mem |-> s, regs |-> shadow.regs, flags |-> shadow.flags]
  BY <1>1, <1>2 DEF ShadowTyped
<1>10. ShadowTyped'
  <2>1. \A a \in Memory : s[a] \in Exprs \cup {Nil}
    BY <1>3, KeptOf
  <2>2. s \in [Memory -> Exprs \cup {Nil}]
    BY <1>4, <2>1
  <2> QED
    BY <1>1, <1>2, <1>3, <1>9, <2>2, NilIsKept DEF ShadowTyped
<1>11. PathTyped'
  BY <1>1, <1>2 DEF PathTyped
<1>12. ASSUME trusted' PROVE ValuesHold'
  <2>1. RegsHold' /\ FlagsHold'
    BY <1>1, <1>2, <1>7, <1>9, <1>12 DEF ValuesHold, RegsHold, FlagsHold
  <2>2. PathHolds'
    BY <1>1, <1>2, <1>12 DEF ValuesHold, PathHolds, SaysOf
  <2>3. PendingHold'
    BY <1>1 DEF PendingHold
  <2>4. pendingSym # Nil => pendingSym.val[buffer] = v
    <3> SUFFICES ASSUME pendingSym # Nil PROVE pendingSym.val[buffer] = v
      OBVIOUS
    <3>1. KeptWord(pendingSym)
      BY <1>2 DEF ShadowTyped
    <3>2. isSymbolic(pendingSym)
      BY <3>1, KeptOf
    <3>3. v = meant.pending
      BY <1>1, <1>12, <3>2
    <3>4. v # NoValue
      BY <1>5 DEF NoValue
    <3> QED
      BY <1>1, <1>2, <1>12, <3>3, <3>4 DEF ValuesHold, PendingHold
  <2>5. MemHolds'
    <3> SUFFICES ASSUME NEW a \in Memory, s[a] # Nil PROVE s[a].val[buffer] = mem[a]
      <4> HIDE DEF mem
      <4> QED
        BY <1>1, <1>7, <1>9 DEF MemHolds
    <3>1. CASE a \in span
      BY <1>3, <2>4, <3>1
    <3>2. CASE a \notin span
      BY <1>1, <1>2, <1>3, <1>12, <3>2 DEF ValuesHold, MemHolds
    <3> QED
      BY <3>1, <3>2
  <2> QED
    BY <2>1, <2>2, <2>3, <2>5 DEF ValuesHold
<1> QED
  BY <1>8, <1>10, <1>11, <1>12 DEF ShadowInv, ValuesHold

LEMMA WriteRegisterKeeps ==
    ASSUME ShadowInv, NEW size \in OperandSizes, NEW r \in Registers,
           NEW v \in 0..(Two[Bits(size)] - 1), WriteRegister(r, size, v)
    PROVE  ShadowInv'
<1> DEFINE e == IF isSymbolic(pendingSym) THEN Fit(pendingSym, size) ELSE Nil
           w == cpu.regs[r] - Low(cpu.regs[r], Bits(size)) + v
<1>1. /\ cpu' = [cpu EXCEPT !.regs[r] = w]
      /\ shadow' = [shadow EXCEPT !.regs[r] = e]
      /\ trusted' = (trusted /\ (isSymbolic(pendingSym) => v = meant.pending))
      /\ pendingSym' = Nil
      /\ UNCHANGED <<lastLoad, pathConstraints, meant, buffer>>
  <2>1. cpu' = [cpu EXCEPT !.regs[r] = w]
    BY DEF WriteRegister
  <2> QED
    BY <2>1, CallFrame DEF WriteRegister, Called
<1>2. CpuTyped /\ ShadowTyped /\ PathTyped /\ (trusted => ValuesHold)
  BY DEF ShadowInv, ValuesHold
<1>3. PICK n \in Nat, k \in Nat : n = Bits(size) /\ k = Bits(RegWidth) /\ n <= k
  <2>1. size \in 1..RegWidth /\ Bits(RegWidth) \in Nat
    BY BitsOf
  <2>2. Bits(size) \in 1..Bits(RegWidth)
    BY <2>1, BitsOf
  <2> QED
    BY <2>1, <2>2
<1>4. cpu.regs[r] \in 0..(Two[k] - 1) /\ v \in 0..(Two[n] - 1) /\ v \in Nat
  <2>1. Two[n] \in Nat
    BY TwoRecursion
  <2> QED
    BY <1>2, <1>3, <2>1 DEF CpuTyped, CpuStates, RegValues
<1>5. w \in RegValues /\ \A m \in Nat : m <= n => Low(w, m) = Low(v, m)
  <2>1. PICK y \in 0..(Two[k] - 1) : y = cpu.regs[r]
    BY <1>4
  <2>2. y - Low(y, n) + v \in 0..(Two[k] - 1) /\ \A m \in Nat : m <= n => Low(y - Low(y, n) + v, m) = Low(v, m)
    <3>1. n <= k
      BY <1>3
    <3>2. v \in 0..(Two[n] - 1)
      BY <1>4
    <3> QED
      BY <3>1, <3>2, WrittenOf
  <2> QED
    BY <1>3, <2>1, <2>2 DEF RegValues
<1>6. KeptWord(pendingSym)
  BY <1>2 DEF ShadowTyped
<1>7. KeptWord(e)
  BY <1>6, FitOf, NilIsKept
<1>8. ASSUME trusted', e # Nil PROVE e.val[buffer] = Low(w, e.bits)
  <2>1. isSymbolic(pendingSym) /\ pendingSym # Nil /\ OfWord(pendingSym) /\ e = Fit(pendingSym, size)
    BY <1>6, <1>8, KeptOf
  <2>2. v = meant.pending /\ trusted
    BY <1>1, <1>8, <2>1
  <2>3. v # NoValue
    BY <1>4 DEF NoValue
  <2>4. pendingSym.val[buffer] = v /\ buffer \in AllInputs
    BY <1>2, <2>1, <2>2, <2>3 DEF ValuesHold, PendingHold, CpuTyped
  <2>5. /\ e.bits = IF pendingSym.bits > Bits(size) THEN Bits(size) ELSE pendingSym.bits
        /\ e.val[buffer] = IF pendingSym.bits > Bits(size) THEN Low(v, Bits(size)) ELSE v
    BY <1>6, <2>1, <2>4, FitOf
  <2>6. PICK m \in Nat : m = pendingSym.bits
    <3>1. Bits(RegWidth) \in Nat
      BY <1>3
    <3> QED
      BY <3>1, <2>1 DEF OfWord
  <2>7. v < Two[m]
    BY <2>1, <2>4, <2>6 DEF OfWord
  <2>8. CASE m > n
    <3>1. e.bits = n /\ e.val[buffer] = Low(v, n)
      BY <1>3, <2>5, <2>6, <2>8
    <3> QED
      BY <1>5, <3>1
  <2>9. CASE ~(m > n)
    <3>1. e.bits = m /\ e.val[buffer] = v /\ m <= n
      BY <1>3, <2>5, <2>6, <2>9
    <3>2. v \in 0..(Two[m] - 1)
      <4>1. Two[m] \in Nat
        BY TwoRecursion
      <4> QED
        BY <1>4, <2>7, <4>1
    <3>3. Low(v, m) = v
      BY <3>2, LowSmall
    <3> QED
      BY <1>5, <3>1, <3>3
  <2> QED
    BY <2>8, <2>9
<1> HIDE DEF e, w
<1>9. cpu' \in CpuStates /\ cpu'.mem = cpu.mem /\ cpu'.flags = cpu.flags
      /\ cpu'.regs = [cpu.regs EXCEPT ![r] = w]
  BY <1>1, <1>2, <1>5 DEF CpuTyped, CpuStates
<1>10. CpuTyped'
  BY <1>1, <1>2, <1>9 DEF CpuTyped
<1>11. shadow'.mem = shadow.mem /\ shadow'.regs = [shadow.regs EXCEPT ![r] = e] /\ shadow'.flags = shadow.flags
       /\ shadow' = [mem |-> shadow.mem, regs |-> [shadow.regs EXCEPT ![r] = e], flags |-> shadow.flags]
  BY <1>1, <1>2 DEF ShadowTyped
<1>12. ShadowTyped'
  <2>1. e \in Exprs \cup {Nil}
    BY <1>7, KeptOf
  <2>2. [shadow.regs EXCEPT ![r] = e] \in [Registers -> Exprs \cup {Nil}]
    BY <1>2, <2>1 DEF ShadowTyped
  <2>3. \A q \in Registers : KeptWord([shadow.regs EXCEPT ![r] = e][q])
    BY <1>2, <1>7 DEF ShadowTyped
  <2> QED
    BY <1>1, <1>2, <1>11, <2>2, <2>3, NilIsKept DEF ShadowTyped
<1>13. PathTyped'
  BY <1>1, <1>2 DEF PathTyped
<1>14. ASSUME trusted' PROVE ValuesHold'
  <2>1. MemHolds' /\ FlagsHold'
    BY <1>1, <1>2, <1>9, <1>11, <1>14 DEF ValuesHold, MemHolds, FlagsHold
  <2>2. PathHolds'
    BY <1>1, <1>2, <1>14 DEF ValuesHold, PathHolds, SaysOf
  <2>3. PendingHold'
    BY <1>1, <1>2, <1>14 DEF ValuesHold, PendingHold
  <2>4. RegsHold'
    <3> SUFFICES ASSUME NEW q \in Registers, shadow'.regs[q] # Nil
                 PROVE  shadow'.regs[q].val[buffer] = Low(cpu'.regs[q], shadow'.regs[q].bits)
      BY <1>1 DEF RegsHold
    <3>1. CASE q = r
      <4>1. shadow'.regs[q] = e /\ cpu'.regs[q] = w
        BY <1>2, <1>9, <1>11, <3>1 DEF CpuTyped, CpuStates, ShadowTyped
      <4> QED
        BY <1>8, <1>14, <4>1
    <3>2. CASE q # r
      <4>1. shadow'.regs[q] = shadow.regs[q] /\ cpu'.regs[q] = cpu.regs[q]
        BY <1>2, <1>9, <1>11, <3>2 DEF CpuTyped, CpuStates, ShadowTyped
      <4> QED
        BY <1>1, <1>2, <1>14, <4>1 DEF ValuesHold, RegsHold
    <3> QED
      BY <3>1, <3>2
  <2> QED
    BY <2>1, <2>2, <2>3, <2>4 DEF ValuesHold
<1> QED
  BY <1>10, <1>12, <1>13, <1>14 DEF ShadowInv, ValuesHold

LEMMA OperateKeeps ==
    ASSUME ShadowInv, NEW op \in Operations, NEW size \in OperandSizes, NEW a, NEW b,
           Operand(a, size), Operand(b, size), Operate(op, a, b, size)
    PROVE  ShadowInv'
<1> DEFINE d == Derived(op, lastLoad, b, size)
           fs == FlagsOf(op, lastLoad, b, size)
           x == IF isSymbolic(lastLoad) THEN d ELSE Nil
           f == IF isSymbolic(lastLoad) THEN fs ELSE IF ClearsFlags(op) THEN NoFlags ELSE shadow.flags
           res == Result(op, a, b, size)
           cf == CpuFlags(op, a, b, size)
           value == IF op \in {"cmp", "test"} THEN cpu.value ELSE res
<1>1. /\ cpu' = [cpu EXCEPT !.value = value, !.flags = cf]
      /\ shadow' = [shadow EXCEPT !.flags = f]
      /\ pendingSym' = x
      /\ lastLoad' = Nil
      /\ meant' = [meant EXCEPT !.pending = res]
      /\ trusted' = (trusted /\ (isSymbolic(lastLoad) => a = meant.load) /\ op \notin {"adc", "sbb"})
      /\ UNCHANGED <<pathConstraints, buffer>>
  <2>1. UNCHANGED <<pathConstraints, buffer>>
    BY CallFrame DEF Operate
  <2> QED
    BY <2>1 DEF Operate
<1>2. CpuTyped /\ ShadowTyped /\ PathTyped /\ (trusted => ValuesHold)
  BY DEF ShadowInv, ValuesHold
<1>3. res \in Nat /\ cf \in FlagValues
  BY <1>2, ResultOf, CpuFlagsOf DEF Operand
<1>4. KeptWord(lastLoad)
  BY <1>2 DEF ShadowTyped
<1>5. ASSUME isSymbolic(lastLoad)
      PROVE  /\ OfWord(lastLoad) /\ lastLoad # Nil /\ OfWord(d) /\ ~d.const
             /\ DOMAIN fs = FlagNames /\ fs = [zf |-> fs.zf, cf |-> fs.cf, sf |-> fs.sf]
             /\ OfTruth(fs.zf) /\ OfTruth(fs.cf) /\ OfTruth(fs.sf)
             /\ op \notin {"adc", "sbb"} /\ lastLoad.val[buffer] = a =>
                  /\ d.val[buffer] = res
                  /\ fs.zf.val[buffer] = cf.zf /\ fs.cf.val[buffer] = cf.cf /\ fs.sf.val[buffer] = cf.sf
  <2>1. OfWord(lastLoad) /\ lastLoad # Nil
    BY <1>4, <1>5, KeptOf
  <2> HIDE DEF d, fs, res, cf
  <2>2. /\ OfWord(d) /\ ~d.const
        /\ op \notin {"adc", "sbb"} /\ lastLoad.val[buffer] = a => d.val[buffer] = res
    BY <1>2, <2>1, DerivedOf DEF d, res
  <2>3. /\ DOMAIN fs = FlagNames /\ fs = [zf |-> fs.zf, cf |-> fs.cf, sf |-> fs.sf]
        /\ OfTruth(fs.zf) /\ OfTruth(fs.cf) /\ OfTruth(fs.sf)
        /\ op \notin {"adc", "sbb"} /\ lastLoad.val[buffer] = a =>
             fs.zf.val[buffer] = cf.zf /\ fs.cf.val[buffer] = cf.cf /\ fs.sf.val[buffer] = cf.sf
    BY <1>2, <2>1, FlagsOfOf DEF fs, cf
  <2> QED
    BY <2>1, <2>2, <2>3
<1> HIDE DEF d, fs, res, cf
<1>6. KeptWord(x)
  BY <1>5, WordIsKept, NilIsKept
<1>7. /\ f \in [zf : Exprs \cup {Nil}, cf : Exprs \cup {Nil}, sf : Exprs \cup {Nil}]
      /\ f = NoFlags \/ \A n \in FlagNames : OfTruth(f[n])
  <2>1. CASE isSymbolic(lastLoad)
    <3>1. OfTruth(fs.zf) /\ OfTruth(fs.cf) /\ OfTruth(fs.sf) /\ fs = [zf |-> fs.zf, cf |-> fs.cf, sf |-> fs.sf]
      BY <1>5, <2>1
    <3>2. fs.zf \in Exprs /\ fs.cf \in Exprs /\ fs.sf \in Exprs
      BY <3>1 DEF OfTruth
    <3>3. fs \in [zf : Exprs \cup {Nil}, cf : Exprs \cup {Nil}, sf : Exprs \cup {Nil}]
      BY <3>1, <3>2
    <3>4. \A n \in FlagNames : OfTruth(fs[n])
      BY <3>1 DEF FlagNames
    <3> QED
      BY <2>1, <3>3, <3>4
  <2>2. CASE ~isSymbolic(lastLoad)
    <3>1. NoFlags \in [zf : Exprs \cup {Nil}, cf : Exprs \cup {Nil}, sf : Exprs \cup {Nil}]
      BY DEF NoFlags
    <3> QED
      BY <1>2, <2>2, <3>1 DEF ShadowTyped
  <2> QED
    BY <2>1, <2>2
<1>8. ASSUME trusted'
      PROVE  /\ op \notin {"adc", "sbb"} /\ trusted
             /\ isSymbolic(lastLoad) => lastLoad.val[buffer] = a
  <2>1. op \notin {"adc", "sbb"} /\ trusted /\ (isSymbolic(lastLoad) => a = meant.load)
    BY <1>1, <1>8
  <2>2. a # NoValue
    BY DEF Operand, NoValue
  <2> QED
    BY <1>2, <1>5, <2>1, <2>2 DEF ValuesHold, PendingHold
<1>9. ASSUME trusted' PROVE x # Nil => x.val[buffer] = res
  BY <1>5, <1>8, <1>9
<1>10. ASSUME trusted', f # NoFlags PROVE \A n \in FlagNames : f[n].val[buffer] = cf[n]
  <2>1. isSymbolic(lastLoad)
    BY <1>8, <1>10 DEF ClearsFlags
  <2> QED
    BY <1>5, <1>8, <1>10, <2>1 DEF FlagNames
<1> HIDE DEF x, f
<1>11. cpu' \in CpuStates /\ cpu'.mem = cpu.mem /\ cpu'.regs = cpu.regs /\ cpu'.flags = cf
  <2>1. value \in Nat
    BY <1>2, <1>3 DEF CpuTyped, CpuStates
  <2> HIDE DEF value
  <2> QED
    BY <1>1, <1>2, <1>3, <2>1 DEF CpuTyped, CpuStates
<1>12. CpuTyped'
  <2>1. meant' \in [load : Nat \cup {NoValue}, pending : Nat \cup {NoValue}]
    BY <1>1, <1>2, <1>3 DEF CpuTyped
  <2>2. trusted' \in BOOLEAN
    BY <1>1, <1>2 DEF CpuTyped
  <2> QED
    BY <1>1, <1>2, <1>11, <2>1, <2>2 DEF CpuTyped
<1>13. shadow'.mem = shadow.mem /\ shadow'.regs = shadow.regs /\ shadow'.flags = f
       /\ shadow' = [mem |-> shadow.mem, regs |-> shadow.regs, flags |-> f]
  BY <1>1, <1>2 DEF ShadowTyped
<1>14. ShadowTyped'
  BY <1>1, <1>2, <1>6, <1>7, <1>13, NilIsKept DEF ShadowTyped
<1>15. PathTyped'
  BY <1>1, <1>2 DEF PathTyped
<1>16. ASSUME trusted' PROVE ValuesHold'
  <2>1. MemHolds' /\ RegsHold'
    BY <1>1, <1>2, <1>8, <1>11, <1>13, <1>16 DEF ValuesHold, MemHolds, RegsHold
  <2>2. FlagsHold'
    BY <1>1, <1>10, <1>11, <1>13, <1>16 DEF FlagsHold
  <2>3. PathHolds'
    BY <1>1, <1>2, <1>8, <1>16 DEF ValuesHold, PathHolds, SaysOf
  <2>4. PendingHold'
    BY <1>1, <1>2, <1>9, <1>16 DEF PendingHold, CpuTyped
  <2> QED
    BY <2>1, <2>2, <2>3, <2>4 DEF ValuesHold
<1> QED
  BY <1>12, <1>14, <1>15, <1>16 DEF ShadowInv, ValuesHold

LEMMA JumpKeeps ==
    ASSUME ShadowInv, NEW cc \in Codes, Jump(cc)
    PROVE  ShadowInv'
<1> DEFINE p == Predicate(cc)
           c == [pred |-> p, taken |-> Holds(cc), cc |-> cc]
<1>1. /\ pathConstraints' = IF isSymbolic(p) THEN Append(pathConstraints, c) ELSE pathConstraints
      /\ UNCHANGED <<cpu, shadow, lastLoad, pendingSym, meant, trusted, buffer>>
  BY CallFrame DEF Jump
<1>2. CpuTyped /\ ShadowTyped /\ PathTyped /\ (trusted => ValuesHold)
  BY DEF ShadowInv, ValuesHold
<1>3. isSymbolic(p) => OfTruth(p) /\ (FlagsHold /\ cc \notin Signed => (p.val[buffer] = 1) = Holds(cc))
  BY <1>2, PredicateOf
<1>4. c.pred = p /\ c.taken = Holds(cc) /\ c.cc = cc /\ Holds(cc) \in BOOLEAN
  BY HoldsIsTruth
<1>5. OfTruth(p) => c \in [pred : Exprs, taken : BOOLEAN, cc : Codes]
  BY <1>4 DEF OfTruth
<1> HIDE DEF p, c
<1>6. CpuTyped' /\ ShadowTyped'
  BY <1>1, <1>2 DEF CpuTyped, ShadowTyped
<1>7. /\ trusted => MemHolds' /\ RegsHold' /\ FlagsHold' /\ PendingHold'
      /\ trusted => FlagsHold /\ PathHolds
  BY <1>1, <1>2 DEF ValuesHold, MemHolds, RegsHold, FlagsHold, PendingHold
<1>8. CASE isSymbolic(p)
  <2>1. pathConstraints' = Append(pathConstraints, c) /\ pathConstraints \in Seq([pred : Exprs, taken : BOOLEAN, cc : Codes])
        /\ c \in [pred : Exprs, taken : BOOLEAN, cc : Codes]
    BY <1>1, <1>2, <1>3, <1>5, <1>8 DEF PathTyped
  <2>2. /\ pathConstraints' \in Seq([pred : Exprs, taken : BOOLEAN, cc : Codes])
        /\ \A i \in DOMAIN pathConstraints' :
             \/ i \in DOMAIN pathConstraints /\ pathConstraints'[i] = pathConstraints[i]
             \/ pathConstraints'[i] = c
    BY <2>1
  <2>3. PathTyped'
    BY <1>2, <1>3, <1>4, <1>8, <2>2 DEF PathTyped
  <2>4. ASSUME trusted PROVE PathHolds'
    <3>1. cc \notin Signed => (p.val[buffer] = 1) = Holds(cc)
      BY <1>3, <1>7, <1>8, <2>4
    <3> SUFFICES ASSUME NEW i \in DOMAIN pathConstraints', pathConstraints'[i].cc \notin Signed
                 PROVE  (pathConstraints'[i].pred.val[buffer] = 1) = pathConstraints'[i].taken
      BY <1>1 DEF PathHolds, SaysOf
    <3>2. CASE pathConstraints'[i] = c
      BY <1>4, <3>1, <3>2
    <3>3. CASE i \in DOMAIN pathConstraints /\ pathConstraints'[i] = pathConstraints[i]
      BY <1>7, <2>4, <3>3 DEF PathHolds, SaysOf
    <3> QED
      BY <2>2, <3>2, <3>3
  <2> QED
    BY <1>1, <1>6, <1>7, <2>3, <2>4 DEF ShadowInv
<1>9. CASE ~isSymbolic(p)
  <2>1. PathTyped' /\ (trusted => PathHolds')
    BY <1>1, <1>2, <1>7, <1>9 DEF PathTyped, PathHolds, SaysOf
  <2> QED
    BY <1>1, <1>6, <1>7, <2>1 DEF ShadowInv
<1> QED
  BY <1>8, <1>9

LEMMA StutterKeeps == ShadowInv /\ UNCHANGED shadowVars => ShadowInv'
BY DEF shadowVars, ShadowInv, CpuTyped, ShadowTyped, PathTyped, MemHolds, RegsHold, FlagsHold,
       PendingHold, PathHolds, SaysOf

\* What is written has the bits of its operand.
LEMMA OperandOf ==
    ASSUME CpuTyped, NEW size \in OperandSizes, NEW v \in Immediates \cup {cpu.value}
    PROVE  Low(v, Bits(size)) \in 0..(Two[Bits(size)] - 1)
<1>1. v \in Int
  BY ShadowAssumption DEF CpuTyped, CpuStates
<1>2. Bits(size) \in Nat
  BY BitsOf
<1> QED
  BY <1>1, <1>2, LowRange

LEMMA CallHookKeeps == ShadowInv /\ CallHook => ShadowInv'
<1> SUFFICES ASSUME ShadowInv, CallHook PROVE ShadowInv'
  OBVIOUS
<1>1. CpuTyped
  BY DEF ShadowInv
<1>2. ASSUME NEW a \in Memory, NEW n \in OperandSizes, a \in Places(n), NEW op \in BOOLEAN, ReadMem(a, n, op)
      PROVE  ShadowInv'
  BY <1>2, ReadMemKeeps
<1>3. ASSUME NEW a \in Memory, NEW n \in OperandSizes, a \in Places(n),
             NEW v \in Immediates \cup {cpu.value}, WriteMem(a, n, Low(v, Bits(n)))
      PROVE  ShadowInv'
  <2>1. PICK w \in 0..(Two[Bits(n)] - 1) : w = Low(v, Bits(n))
    BY <1>1, OperandOf
  <2> QED
    BY <1>3, <2>1, WriteMemKeeps
<1>4. ASSUME NEW r \in Registers, NEW n \in OperandSizes, ReadReg(r, n)
      PROVE  ShadowInv'
  BY <1>4, ReadRegKeeps
<1>5. ASSUME NEW r \in Registers, NEW n \in OperandSizes,
             NEW v \in Immediates \cup {cpu.value}, WriteRegister(r, n, Low(v, Bits(n)))
      PROVE  ShadowInv'
  <2>1. PICK w \in 0..(Two[Bits(n)] - 1) : w = Low(v, Bits(n))
    BY <1>1, OperandOf
  <2> QED
    BY <1>5, <2>1, WriteRegisterKeeps
<1>6. ASSUME NEW op \in Operations, NEW n \in OperandSizes, NEW ab \in Operands(n),
             Operate(op, ab[1], ab[2], n)
      PROVE  ShadowInv'
  <2>1. Operand(ab[1], n) /\ Operand(ab[2], n)
    BY <1>1, OperandsOf
  <2> QED
    BY <1>6, <2>1, OperateKeeps
<1>7. ASSUME NEW cc \in Codes, Jump(cc) PROVE ShadowInv'
  BY <1>7, JumpKeeps
<1> QED
  BY <1>2, <1>3, <1>4, <1>5, <1>6, <1>7 DEF CallHook

LEMMA ShadowInvHolds == ShadowSpec => []ShadowInv
<1>1. ShadowInv /\ [ShadowNext]_shadowVars => ShadowInv'
  BY EnableConcolicKeeps, CallHookKeeps, StutterKeeps DEF ShadowNext
<1> QED
  BY <1>1, ShadowBegins, PTL DEF ShadowSpec

-----------------------------------------------------------------------------
(* What the invariant is for.                                              *)

LEMMA KeptIsOK ==
    ASSUME NEW e, KeptWord(e) \/ OfTruth(e)
    PROVE  ExprOK(e)
<1> SUFFICES ASSUME e # Nil PROVE e.ids \subseteq 0..(InputLen - 1) /\ e.bits \in 0..Bits(RegWidth)
  BY DEF ExprOK
<1>1. e \in Exprs /\ (e.bits \in 1..Bits(RegWidth) \/ e.bits \in {0, 1})
  BY DEF KeptWord, OfWord, OfTruth
<1>2. Bits(RegWidth) \in Nat /\ 1 \in 1..Bits(RegWidth)
  BY BitsOf
<1>3. e.bits \in 0..Bits(RegWidth)
  BY <1>1, <1>2
<1> QED
  BY <1>1, <1>3 DEF Exprs

LEMMA InvIsOK == ShadowInv => ShadowOK
<1> SUFFICES ASSUME ShadowInv PROVE ShadowOK
  OBVIOUS
<1>1. CpuTyped /\ ShadowTyped
  BY DEF ShadowInv
<1>2. \A a \in Memory : ExprOK(shadow.mem[a]) /\ cpu.mem[a] \in ByteValues
  BY <1>1, KeptIsOK DEF CpuTyped, CpuStates, ShadowTyped
<1>3. \A r \in Registers : ExprOK(shadow.regs[r]) /\ cpu.regs[r] = Low(cpu.regs[r], Bits(RegWidth))
  <2> TAKE r \in Registers
  <2>1. ExprOK(shadow.regs[r])
    BY <1>1, KeptIsOK DEF ShadowTyped
  <2>2. PICK n \in Nat : n = Bits(RegWidth)
    BY BitsOf
  <2>3. cpu.regs[r] \in 0..(Two[n] - 1)
    BY <1>1, <2>2 DEF CpuTyped, CpuStates, RegValues
  <2>4. Low(cpu.regs[r], n) = cpu.regs[r]
    BY <2>3, LowSmall
  <2> QED
    BY <2>1, <2>2, <2>4
<1>4. \A f \in DOMAIN NoFlags : ExprOK(shadow.flags[f])
  <2> TAKE f \in DOMAIN NoFlags
  <2>1. f \in FlagNames
    BY DEF NoFlags, FlagNames
  <2>2. CASE shadow.flags = NoFlags
    BY <2>2 DEF NoFlags, ExprOK
  <2>3. CASE shadow.flags # NoFlags
    <3>1. OfTruth(shadow.flags[f])
      BY <1>1, <2>1, <2>3 DEF ShadowTyped
    <3> QED
      BY <3>1, KeptIsOK
  <2> QED
    BY <2>2, <2>3
<1>5. ExprOK(lastLoad) /\ ExprOK(pendingSym)
  BY <1>1, KeptIsOK DEF ShadowTyped
<1> QED
  BY <1>2, <1>3, <1>4, <1>5 DEF ShadowOK

LEMMA InvHolds == ShadowInv /\ trusted => ShadowHolds
<1> SUFFICES ASSUME ShadowInv, trusted PROVE ShadowHolds
  OBVIOUS
<1>1. ShadowTyped /\ MemHolds /\ RegsHold /\ FlagsHold /\ PendingHold
  BY DEF ShadowInv
<1>2. \A a \in Memory : Agrees(shadow.mem[a], cpu.mem[a])
  BY <1>1, KeptOf DEF ShadowTyped, MemHolds, Agrees
<1>3. \A r \in Registers :
        isSymbolic(shadow.regs[r]) => Agrees(shadow.regs[r], Low(cpu.regs[r], shadow.regs[r].bits))
  BY <1>1, KeptOf DEF ShadowTyped, RegsHold, Agrees
<1>4. \A f \in DOMAIN NoFlags : Agrees(shadow.flags[f], cpu.flags[f])
  <2> TAKE f \in DOMAIN NoFlags
  <2>1. f \in FlagNames
    BY DEF NoFlags, FlagNames
  <2>2. CASE shadow.flags = NoFlags
    BY <2>2, NilIsKept DEF NoFlags, Agrees
  <2>3. CASE shadow.flags # NoFlags
    BY <1>1, <2>1, <2>3 DEF FlagsHold, Agrees
  <2> QED
    BY <2>2, <2>3
<1>5. (meant.load # NoValue => Agrees(lastLoad, meant.load))
      /\ (meant.pending # NoValue => Agrees(pendingSym, meant.pending))
  BY <1>1, KeptOf DEF ShadowTyped, PendingHold, Agrees
<1> QED
  BY <1>2, <1>3, <1>4, <1>5 DEF ShadowHolds

\* An answer agrees with its model on the bytes that the query is about, so each
\* constraint of the query says the same of both.
LEMMA AnswersAreModels ==
    ASSUME PathTyped, NEW k \in DOMAIN pathConstraints
    PROVE  Answers(k) \subseteq Models(k)
<1> SUFFICES ASSUME NEW m \in Models(k) PROVE Answer(k, m) \in Models(k)
  BY DEF Answers
<1> DEFINE x == Answer(k, m)
<1>1. m \in AllInputs /\ (\A i \in 1..(k - 1) : SaysOf(pathConstraints[i], m)) /\ ~SaysOf(pathConstraints[k], m)
  BY DEF Models
<1>2. k \in Nat \ {0} /\ 1..k \subseteq DOMAIN pathConstraints
  BY DEF PathTyped
<1>3. InputLen \in Nat /\ 0 \in ByteValues
  <2>1. Two[ByteBits] \in Nat \ {0}
    BY BitsOf, TwoRecursion
  <2> QED
    BY <2>1, ShadowAssumption DEF ByteValues
<1>4. x \in AllInputs
  BY <1>1, <1>3 DEF Answer, AllInputs
<1>5. ASSUME NEW i \in 1..k PROVE SaysOf(pathConstraints[i], x) = SaysOf(pathConstraints[i], m)
  <2>1. OfTruth(pathConstraints[i].pred)
    BY <1>2 DEF PathTyped
  <2> DEFINE ids == pathConstraints[i].pred.ids
  <2>2. \A j \in ids : x[j + 1] = m[j + 1]
    <3> TAKE j \in ids
    <3>1. j \in 0..(InputLen - 1)
      BY <2>1 DEF OfTruth, Exprs
    <3>2. j + 1 \in 1..InputLen /\ (j + 1) - 1 = j
      BY <1>3, <3>1
    <3>3. (j + 1) - 1 \in Symbols(k)
      BY <3>2 DEF Symbols
    <3> QED
      BY <3>2, <3>3 DEF Answer
  <2> HIDE DEF x
  <2>3. pathConstraints[i].pred.val[x] = pathConstraints[i].pred.val[m]
    BY <1>1, <1>4, <2>1, <2>2 DEF OfTruth, Depends
  <2> QED
    BY <2>3 DEF SaysOf
<1> HIDE DEF x
<1>6. k \in 1..k /\ \A i \in 1..(k - 1) : i \in 1..k
  BY <1>2
<1>7. (\A i \in 1..(k - 1) : SaysOf(pathConstraints[i], x)) /\ ~SaysOf(pathConstraints[k], x)
  BY <1>1, <1>5, <1>6
<1> QED
  BY <1>4, <1>7 DEF Models, x

\* concolic.mjs 5-11 and solver.mjs 174-199: whatever the widths, the sizes of operands,
\* the operations and the order in which the processor calls the hooks, as long as every
\* expression was used for its own value each expression that is kept has the value it is
\* kept for, and each constraint of the path is true of the input that took it, the signed
\* conditions apart; and at any time an answer to a query keeps to the path up to the jump
\* it negates and leaves it there.
THEOREM ConcolicConstraints == ShadowSpec => []ConstraintsHold
<1>1. ShadowInv => ConstraintsHold
  <2> SUFFICES ASSUME ShadowInv PROVE ConstraintsHold
    OBVIOUS
  <2>1. trusted => \A i \in DOMAIN pathConstraints :
                     pathConstraints[i].cc \notin Signed => SaysOf(pathConstraints[i], buffer)
    BY DEF ShadowInv, PathHolds
  <2>2. \A k \in DOMAIN pathConstraints : Answers(k) \subseteq Models(k)
    BY AnswersAreModels DEF ShadowInv
  <2> QED
    BY <2>1, <2>2, InvIsOK, InvHolds DEF ConstraintsHold
<1> QED
  BY <1>1, ShadowInvHolds, PTL
=============================================================================
