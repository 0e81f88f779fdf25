----------------------------- MODULE PeRunProofs -----------------------------
(***************************************************************************)
(* What the PE harness promises, proved for all samples, options, failures *)
(* and images: the summaries of the runs, that no code of the sample is    *)
(* called once its process has ended, what it sees of its files and        *)
(* connections, and where its modules are and what they are bound to.  The *)
(* invariant has three parts that do not depend on each other: the run and *)
(* its summaries, the objects behind the handles, and the loader.  What    *)
(* the definitions by recursion (FlattenSeq, the forwarders' Chain) come   *)
(* to is proved by induction over a set of numbers, from what the library  *)
(* states of well-founded relations.                                       *)
(***************************************************************************)
EXTENDS PeRun, SequenceTheorems, FiniteSetTheorems, WellFoundedInduction, TLAPS

Phases == {"load", "attach", "attached", "body", "ran", "detach", "report", "over"}
Outcomes == Failures \cup {"ok", "halted"}
Results == Outcomes \cup {None, "forwarder", "load-error"}
Summaries == [spec : RunSpecs, status : Results, exited : BOOLEAN, calls : Nat, ran : BOOLEAN,
              backend : {"js", "hybrid"}]

\* The sample is one of the cases.
Chosen == \E c \in Cases : sample = c[1] /\ options = c[2]

\* Where the run stands.
Standing ==
    /\ Chosen
    /\ k \in 1..(Len(Specs) + 1) /\ (phase # "over" <=> k \in 1..Len(Specs))
    /\ phase \in Phases /\ seh \in {"no", "run", "used"}
    /\ exited \in BOOLEAN /\ ran \in BOOLEAN /\ calls \in Nat
    /\ result \in Results /\ attached \in Outcomes \cup {None}
    /\ backend \in {"js", "hybrid"}

\* What the phase says of the run.
Phased ==
    /\ phase = "load" => ~exited
    /\ phase = "attached" => attached # None
    /\ phase \in {"body", "ran", "detach"} => ran
    /\ phase = "attach" /\ Current.mode = "attach" => ran
    /\ phase = "report" /\ result = "ok" => ran \/ exited \/ (Current.mode = "attach" /\ ~HasAttach)

\* How it came there: a new world has not exited, an export is called after an attach that
\* came back, and from the body on the spec's code was called; the hybrid attempt is of a
\* single run, of which the interpreter refused an instruction.
Course ==
    /\ Phased
    /\ backend = "js" => first = None
    /\ backend = "hybrid" => first \in Refused /\ first.spec = Current /\ Len(Specs) = 1 /\ options.hybrid

Listed ==
    /\ runs \in Seq(Summaries) /\ Len(runs) = k - 1
    /\ RunsReported

RunInv == Standing /\ Course /\ Listed

-----------------------------------------------------------------------------
(* Numbers and recursion.                                                  *)

\* A set of numbers has a least one.
LEMMA LeastNumber ==
    ASSUME NEW T \in SUBSET Nat, T # {}
    PROVE  \E x \in T : \A y \in T : x <= y
<1>1. \E x \in T : \A y \in T : ~(<<y, x>> \in OpToRel(<, Nat))
  <2> HIDE DEF OpToRel
  <2> QED
    BY NatLessThanWellFounded, WFMin
<1>2. ASSUME NEW x \in Nat, NEW y \in Nat, ~(<<y, x>> \in OpToRel(<, Nat)) PROVE x <= y
  BY <1>2 DEF OpToRel
<1> QED
  BY <1>1, <1>2

\* Induction on a set of numbers.
LEMMA SetInduction ==
    ASSUME NEW S, 0 \in S, \A n \in Nat : n \in S => n + 1 \in S
    PROVE  Nat \subseteq S
<1> DEFINE T == Nat \ S
<1> SUFFICES ASSUME T # {} PROVE FALSE
  OBVIOUS
<1>1. T \in SUBSET Nat
  OBVIOUS
<1> HIDE DEF T
<1>2. PICK x \in T : \A y \in T : x <= y
  BY <1>1, LeastNumber
<1>3. x # 0 /\ x - 1 \in Nat
  BY <1>2 DEF T
<1>4. x - 1 \in S
  BY <1>2, <1>3 DEF T
<1> QED
  BY <1>2, <1>3, <1>4 DEF T

Recursive(g, s0, N, F) == g = [n \in 0..N |-> IF n = 0 THEN s0 ELSE F[<<g[n - 1], n>>]]

\* A function defined by recursion from 0 to N exists.
LEMMA RecursionExists ==
    ASSUME NEW S, NEW s0 \in S, NEW N \in Nat, NEW F,
           \A n \in 1..N : \A s \in S : F[<<s, n>>] \in S
    PROVE  \E g \in [0..N -> S] : Recursive(g, s0, N, F)
<1> DEFINE Upto(g, m) == /\ g \in [0..m -> S]
                         /\ \A n \in 0..m : g[n] = IF n = 0 THEN s0 ELSE F[<<g[n - 1], n>>]
           T == {m \in Nat : m <= N => \E g : Upto(g, m)}
<1>1. 0 \in T
  <2> DEFINE g == [n \in 0..0 |-> s0]
  <2>1. Upto(g, 0)
    OBVIOUS
  <2> QED
    BY <2>1
<1>2. ASSUME NEW m \in Nat, m \in T PROVE m + 1 \in T
  <2> SUFFICES ASSUME m + 1 <= N PROVE \E g : Upto(g, m + 1)
    OBVIOUS
  <2>1. PICK g : Upto(g, m)
    BY <1>2
  <2> DEFINE h == [n \in 0..(m + 1) |-> IF n = m + 1 THEN F[<<g[m], m + 1>>] ELSE g[n]]
  <2>2. F[<<g[m], m + 1>>] \in S
    BY <2>1
  <2>3. h \in [0..(m + 1) -> S]
    BY <2>1, <2>2
  <2>4. ASSUME NEW n \in 0..(m + 1) PROVE h[n] = IF n = 0 THEN s0 ELSE F[<<h[n - 1], n>>]
    <3>1. CASE n = m + 1
      BY <3>1, <2>1
    <3>2. CASE n # m + 1 /\ n # 0
      <4>1. n \in 0..m /\ n - 1 \in 0..(m + 1) /\ n - 1 # m + 1
        BY <3>2
      <4>2. h[n] = g[n] /\ h[n - 1] = g[n - 1]
        BY <3>2, <4>1
      <4> HIDE DEF h
      <4> QED
        BY <3>2, <4>1, <4>2, <2>1
    <3>3. CASE n = 0
      <4>1. 0 \in 0..m /\ 0 \in 0..(m + 1) /\ 0 # m + 1
        OBVIOUS
      <4>2. g[0] = s0
        BY <2>1, <4>1
      <4>3. h[0] = g[0]
        BY <4>1
      <4> HIDE DEF h
      <4> QED
        BY <3>3, <4>2, <4>3
    <3> QED
      BY <3>1, <3>2, <3>3
  <2> QED
    BY <2>3, <2>4
<1>3. N \in T
  <2> HIDE DEF T
  <2> QED
    BY <1>1, <1>2, SetInduction
<1>4. PICK g : Upto(g, N)
  BY <1>3
<1>5. Recursive(g, s0, N, F)
  BY <1>4 DEF Recursive
<1> QED
  BY <1>4, <1>5

-----------------------------------------------------------------------------
(* The specs.                                                              *)

\* Counting a set of numbers upwards, each count is reached at a member.
LEMMA CountsUp ==
    ASSUME NEW L \in Nat, NEW C \in SUBSET (1..L), NEW j \in 1..Cardinality(C)
    PROVE  \E e \in C : Cardinality({c \in C : c <= e}) = j
<1> DEFINE Upto(e) == {c \in C : c <= e}
           T == {e \in Nat : Cardinality(Upto(e)) >= j}
<1>0. \A c \in C : c \in Nat /\ 1 <= c /\ c <= L
  OBVIOUS
<1>1. IsFiniteSet(C) /\ Cardinality(C) \in Nat
  <2>1. IsFiniteSet(1..L)
    BY FS_Interval
  <2> QED
    BY <2>1, FS_Subset, FS_CardinalityType
<1>2. ASSUME NEW e \in Nat PROVE IsFiniteSet(Upto(e)) /\ Cardinality(Upto(e)) \in Nat
  <2>1. Upto(e) \in SUBSET C
    OBVIOUS
  <2> QED
    BY <1>1, <2>1, FS_Subset, FS_CardinalityType
<1>3. L \in T
  <2>1. Upto(L) = C
    BY <1>0
  <2>2. Cardinality(Upto(L)) = Cardinality(C)
    BY <2>1
  <2>3. Cardinality(C) >= j
    BY <1>1
  <2> HIDE DEF Upto
  <2> QED
    BY <2>2, <2>3
<1>4. PICK x \in T : \A y \in T : x <= y
  <2>1. T \in SUBSET Nat
    OBVIOUS
  <2> HIDE DEF T
  <2> QED
    BY <1>3, <2>1, LeastNumber
<1>5. x # 0
  <2>1. Upto(0) = {}
    <3>1. \A c \in C : ~(c <= 0)
      BY <1>0
    <3> QED
      BY <3>1
  <2>2. Cardinality(Upto(0)) = 0
    BY <2>1, FS_EmptySet
  <2>3. ~(0 >= j)
    BY <1>1
  <2> HIDE DEF Upto
  <2> QED
    BY <1>4, <2>2, <2>3
<1>6. x - 1 \in Nat /\ Cardinality(Upto(x - 1)) < j
  <2>1. x - 1 \in Nat /\ ~(x <= x - 1)
    BY <1>5
  <2>2. x - 1 \notin T
    BY <1>4, <2>1
  <2>3. Cardinality(Upto(x - 1)) \in Nat
    BY <1>2, <2>1
  <2> HIDE DEF Upto
  <2> QED
    BY <2>1, <2>2, <2>3
<1>7. x \in C
  <2> SUFFICES ASSUME x \notin C PROVE FALSE
    OBVIOUS
  <2>0. x \in Nat
    BY <1>4
  <2>1. Upto(x) = Upto(x - 1)
    <3>1. \A c \in C : c <= x <=> c <= x - 1
      BY <1>0, <1>6, <2>0
    <3> QED
      BY <3>1
  <2>2. Cardinality(Upto(x)) >= j
    BY <1>4
  <2> HIDE DEF Upto
  <2> QED
    BY <1>2, <1>6, <2>1, <2>2
<1>8. Cardinality(Upto(x)) = Cardinality(Upto(x - 1)) + 1
  <2>1. Upto(x) = Upto(x - 1) \cup {x} /\ x \notin Upto(x - 1)
    <3>1. \A c \in C : c <= x <=> c <= x - 1 \/ c = x
      BY <1>0, <1>7
    <3>2. ~(x <= x - 1) /\ x <= x
      BY <1>0, <1>7
    <3> QED
      BY <1>7, <3>1, <3>2
  <2>2. IsFiniteSet(Upto(x - 1))
    BY <1>2, <1>6
  <2> HIDE DEF Upto
  <2> QED
    BY <2>1, <2>2, FS_AddElement
<1>9. Cardinality(Upto(x)) = j
  <2>1. Cardinality(Upto(x)) >= j /\ Cardinality(Upto(x - 1)) \in Nat
    BY <1>2, <1>4, <1>6
  <2> HIDE DEF Upto
  <2> QED
    BY <1>6, <1>8, <2>1
<1> QED
  BY <1>7, <1>9

\* There is a run, and each has a mode and an export.
LEMMA SpecsThereAre ==
    ASSUME Chosen
    PROVE  Specs \in Seq(RunSpecs) /\ Len(Specs) \in Nat \ {0}
<1>1. PICK n \in Nat : n = Len(sample.exports) /\ DOMAIN sample.exports = 1..n /\ options.wanted \in 0..n
  <2>1. sample.exports \in Seq(BOOLEAN) /\ options.wanted \in 0..Len(sample.exports)
    BY PeAssumption DEF Chosen
  <2> QED
    BY <2>1
<1>2. Code \in SUBSET (1..n) /\ Code \in SUBSET Nat
  BY <1>1 DEF Code
<1>3. IsFiniteSet(Code) /\ Cardinality(Code) \in Nat
  <2>1. IsFiniteSet(1..n)
    BY FS_Interval
  <2> QED
    BY <1>2, <2>1, FS_Subset, FS_CardinalityType
<1>4. ASSUME NEW mode \in Modes, NEW e \in Nat
      PROVE  Spec1(mode, e) \in Seq(RunSpecs) /\ Len(Spec1(mode, e)) = 1
  <2>1. [mode |-> mode, export |-> e] \in RunSpecs
    BY DEF RunSpecs
  <2> QED
    BY <2>1 DEF Spec1
<1>5. PICK m \in Nat : m = Min({MaxExports, Cardinality(Code)})
  BY <1>3, PeAssumption DEF Min
<1> DEFINE sweep == [j \in 1..m |-> [mode |-> "export", export |-> Nth(j)]]
<1>6. Code # {} => sweep \in Seq(RunSpecs) /\ Len(sweep) \in Nat \ {0}
  <2> SUFFICES ASSUME Code # {} PROVE sweep \in Seq(RunSpecs) /\ Len(sweep) \in Nat \ {0}
    OBVIOUS
  <2>1. Cardinality(Code) # 0
    BY <1>3, FS_EmptySet
  <2>2. m # 0 /\ m <= Cardinality(Code)
    BY <1>3, <1>5, <2>1, PeAssumption, SMTT(20) DEF Min
  <2>3. ASSUME NEW j \in 1..m PROVE Nth(j) \in Nat
    <3>1. j \in 1..Cardinality(Code)
      BY <1>3, <2>2
    <3>2. \E e \in Code : Cardinality({c \in Code : c <= e}) = j
      BY <1>2, <3>1, CountsUp
    <3>3. Nth(j) \in Code
      BY <3>2 DEF Nth
    <3> QED
      BY <1>2, <3>3
  <2>4. \A j \in 1..m : [mode |-> "export", export |-> Nth(j)] \in RunSpecs
    BY <2>3 DEF RunSpecs, Modes
  <2> QED
    BY <2>2, <2>4
<1>7. Code # {} => Min(Code) \in Nat
  BY <1>2, LeastNumber DEF Min
<1>8. Specs \in {Spec1("entry", 0), Spec1("attach", 0), Spec1("export", options.wanted),
                Spec1("forwarder", options.wanted)}
      \/ (Code # {} /\ Specs \in {sweep, Spec1("export", Min(Code))})
  BY <1>5 DEF Specs
<1>9. {"entry", "attach", "export", "forwarder"} \subseteq Modes /\ options.wanted \in Nat
  BY <1>1 DEF Modes
<1>10. /\ Spec1("entry", 0) \in Seq(RunSpecs) /\ Len(Spec1("entry", 0)) = 1
       /\ Spec1("attach", 0) \in Seq(RunSpecs) /\ Len(Spec1("attach", 0)) = 1
       /\ Spec1("export", options.wanted) \in Seq(RunSpecs) /\ Len(Spec1("export", options.wanted)) = 1
       /\ Spec1("forwarder", options.wanted) \in Seq(RunSpecs) /\ Len(Spec1("forwarder", options.wanted)) = 1
  BY <1>4, <1>9, 0 \in Nat
<1>11. Code # {} => Spec1("export", Min(Code)) \in Seq(RunSpecs) /\ Len(Spec1("export", Min(Code))) = 1
  BY <1>4, <1>7, <1>9
<1> HIDE DEF sweep
<1> DEFINE Fit(q) == q \in Seq(RunSpecs) /\ Len(q) \in Nat \ {0}
<1>12. Fit(Spec1("entry", 0)) /\ Fit(Spec1("attach", 0)) /\ Fit(Spec1("export", options.wanted))
       /\ Fit(Spec1("forwarder", options.wanted))
  BY <1>10
<1>13. Code # {} => Fit(sweep) /\ Fit(Spec1("export", Min(Code)))
  <2> SUFFICES ASSUME Code # {} PROVE Fit(sweep) /\ Fit(Spec1("export", Min(Code)))
    OBVIOUS
  <2>1. Fit(sweep)
    BY <1>6
  <2>2. Spec1("export", Min(Code)) \in Seq(RunSpecs) /\ Len(Spec1("export", Min(Code))) = 1
    BY <1>11
  <2>3. PICK q : q = Spec1("export", Min(Code))
    OBVIOUS
  <2>4. Fit(q)
    BY <2>2, <2>3
  <2> QED
    BY <2>1, <2>3, <2>4, Zenon
<1>14. Fit(Specs)
  <2> HIDE DEF Fit
  <2> QED
    BY <1>8, <1>12, <1>13
<1> QED
  BY <1>14

\* They stay what they are.
LEMMA SpecsStay ==
    ASSUME UNCHANGED <<sample, options>>
    PROVE  Specs' = Specs /\ HasAttach' = HasAttach
<1>1. Code' = Code /\ HasAttach' = HasAttach
  BY DEF Code, HasAttach
<1>2. ASSUME NEW j PROVE Nth(j)' = Nth(j)
  BY <1>1, Zenon DEF Nth
<1>3. [j \in 1..Min({MaxExports, Cardinality(Code)}) |-> [mode |-> "export", export |-> Nth(j)]]'
      = [j \in 1..Min({MaxExports, Cardinality(Code)}) |-> [mode |-> "export", export |-> Nth(j)]]
  BY <1>1, <1>2, Zenon
<1> QED
  BY <1>1, <1>3, Zenon DEF Specs, Spec1

-----------------------------------------------------------------------------
(* The run and its summaries.                                              *)

LEMMA RunInitially == Init => RunInv
<1> SUFFICES ASSUME Init PROVE RunInv
  OBVIOUS
<1>1. Chosen
  BY DEF Init, Chosen
<1>2. Specs \in Seq(RunSpecs) /\ Len(Specs) \in Nat \ {0}
  BY <1>1, SpecsThereAre
<1>3. Standing
  <2>1. k \in 1..(Len(Specs) + 1) /\ (phase # "over" <=> k \in 1..Len(Specs))
    BY <1>2 DEF Init
  <2> QED
    BY <1>1, <2>1 DEF Init, Standing, Phases, Results
<1>4. Course
  BY DEF Init, Course, Phased
<1>5. Listed
  BY DEF Init, Listed, RunsReported
<1> QED
  BY <1>3, <1>4, <1>5 DEF RunInv

\* A step within a run keeps the summaries.
LEMMA WithinRun ==
    ASSUME RunInv, UNCHANGED <<sample, options, k, backend, first, runs>>,
           phase # "over", phase' \in Phases \ {"over"}, seh' \in {"no", "run", "used"},
           exited' \in BOOLEAN, ran' \in BOOLEAN, calls' \in Nat,
           result' \in Results, attached' \in Outcomes \cup {None}, Phased'
    PROVE  RunInv'
<1>1. Specs' = Specs /\ HasAttach' = HasAttach /\ Chosen'
  BY SpecsStay DEF Chosen, RunInv, Standing
<1>2. Current' = Current
  BY <1>1 DEF Current
<1>3. Standing'
  BY <1>1 DEF Standing, RunInv
<1>4. Course'
  BY <1>1, <1>2 DEF Course, RunInv
<1>5. Listed'
  BY <1>1 DEF Listed, RunInv, RunsReported
<1> QED
  BY <1>3, <1>4, <1>5 DEF RunInv

\* The spec that runs is one.
LEMMA CurrentSpec ==
    ASSUME RunInv, phase # "over"
    PROVE  k \in 1..Len(Specs) /\ Len(Specs) \in Nat \ {0} /\ Current \in RunSpecs /\ Current = Specs[k]
<1>1. Specs \in Seq(RunSpecs) /\ Len(Specs) \in Nat \ {0}
  BY SpecsThereAre DEF RunInv, Standing
<1>2. k \in 1..Len(Specs)
  BY DEF RunInv, Standing
<1> QED
  BY <1>1, <1>2, ElementOfSeq DEF Current

\* A new world in the same run of the list.
LEMMA NewWorld ==
    ASSUME RunInv, Restart, UNCHANGED <<sample, options>>,
           k' \in 1..Len(Specs), runs' \in Seq(Summaries), Len(runs') = k' - 1, RunsReported',
           \/ backend' = "js" /\ first' = None
           \/ /\ backend' = "hybrid" /\ k' = k /\ first' \in Refused /\ first'.spec = Current
              /\ Len(Specs) = 1 /\ options.hybrid
    PROVE  RunInv'
<1>1. Specs' = Specs /\ HasAttach' = HasAttach /\ Chosen'
  BY SpecsStay DEF Chosen, RunInv, Standing
<1>2. Current' = Specs[k']
  BY <1>1 DEF Current
<1>3. /\ phase' = "load" /\ seh' = "no" /\ attached' = None /\ ran' = FALSE /\ result' = None
      /\ calls' = 0 /\ exited' = FALSE
  BY DEF Restart
<1>4. Standing'
  <2>1. Len(Specs) \in Nat
    BY SpecsThereAre DEF RunInv, Standing
  <2>2. k' \in 1..(Len(Specs') + 1) /\ (phase' # "over" <=> k' \in 1..Len(Specs'))
    BY <1>1, <1>3, <2>1
  <2>3. phase' \in Phases /\ seh' \in {"no", "run", "used"} /\ result' \in Results
    BY <1>3 DEF Phases, Results
  <2>4. backend' \in {"js", "hybrid"}
    OBVIOUS
  <2> QED
    BY <1>1, <1>3, <2>2, <2>3, <2>4 DEF Standing
<1>5. Course'
  BY <1>1, <1>2, <1>3 DEF Course, Phased, Current
<1>6. Listed'
  BY DEF Listed
<1> QED
  BY <1>4, <1>5, <1>6 DEF RunInv

\* The steps that stay in a run.
LEMMA StartsKeep ==
    ASSUME RunInv, Starts \/ LoadError \/ \E d \in Dlls : Preload(d)
    PROVE  RunInv'
<1>1. UNCHANGED <<sample, options, k, backend, first, runs>> /\ phase # "over"
  BY DEF Starts, StartEntry, StartAttach, StartNothing, StartExport, StartDetach, LoadError, Preload,
         controlVars
<1>2. Current' = Current /\ HasAttach' = HasAttach
  BY <1>1, SpecsStay DEF Current
<1>3. Standing /\ Phased
  BY DEF RunInv, Course
<1>4. UNCHANGED <<exited, attached>> /\ calls' \in Nat
  <2>1. UNCHANGED <<exited, attached>> /\ calls' \in {calls, calls + 1}
    BY DEF Starts, StartEntry, StartAttach, StartNothing, StartExport, StartDetach, LoadError,
           Preload, controlVars, worldVars, processVars
  <2> QED
    BY <1>3, <2>1 DEF Standing
<1>5. phase' \in Phases \ {"over"} /\ seh' \in {"no", "run", "used"} /\ ran' \in BOOLEAN /\ result' \in Results
  BY <1>1, <1>3 DEF Starts, StartEntry, StartAttach, StartNothing, StartExport, StartDetach, LoadError,
         Preload, controlVars, worldVars, processVars, Standing, Calls, Phases, Results, Outcomes
<1>6. Phased'
  BY <1>2, <1>3, <1>4 DEF Starts, StartEntry, StartAttach, StartNothing, StartExport, StartDetach,
         LoadError, Preload, controlVars, worldVars, processVars, Standing, Calls, Phased
<1> QED
  BY <1>1, <1>3, <1>4, <1>5, <1>6, WithinRun DEF Standing

LEMMA GuestKeeps ==
    ASSUME RunInv, GuestCall \/ Exits \/ Faults \/ Resumes
    PROVE  RunInv'
<1>1. UNCHANGED <<sample, options, k, backend, first, runs, phase, attached, ran, result>>
      /\ phase \in {"attach", "body", "detach"}
  BY DEF GuestCall, MayCall, Exits, Faults, Resumes, GuestRuns, controlVars
<1>2. Current' = Current /\ HasAttach' = HasAttach
  BY <1>1, SpecsStay DEF Current
<1>3. Standing /\ Phased
  BY DEF RunInv, Course
<1>4. exited' \in BOOLEAN /\ calls' \in Nat /\ seh' \in {"no", "run", "used"}
  <2>1. calls' \in {calls, calls + 1} /\ (exited' = exited \/ exited' = TRUE) /\ seh' \in {seh, "run", "used"}
    <3>1. CASE GuestCall
      BY <3>1 DEF GuestCall, controlVars
    <3>2. CASE Exits
      BY <3>2 DEF Exits, controlVars
    <3>3. CASE Faults \/ Resumes
      BY <3>3 DEF Faults, Resumes, worldVars, processVars
    <3> QED
      BY <3>1, <3>2, <3>3
  <2>2. calls \in Nat /\ exited \in BOOLEAN /\ seh \in {"no", "run", "used"}
    BY <1>3 DEF Standing
  <2>3. exited' \in BOOLEAN
    BY <2>1, <2>2, Zenon
  <2> QED
    BY <2>1, <2>2, <2>3
<1>5. Phased'
  BY <1>1, <1>2, <1>3 DEF Phased
<1> QED
  BY <1>1, <1>3, <1>4, <1>5, WithinRun DEF Standing, Phases

LEMMA EndsKeep ==
    ASSUME RunInv, CallEnds \/ AttachReported \/ NoDetach
    PROVE  RunInv'
<1>1. UNCHANGED <<sample, options, k, backend, first, runs, ran, seh, exited, calls>>
      /\ phase \in {"attach", "attached", "body", "ran", "detach"}
  BY DEF CallEnds, AttachEnds, BodyEnds, DetachEnds, AttachReported, NoDetach, worldVars, processVars
<1>2. Current' = Current /\ HasAttach' = HasAttach
  BY <1>1, SpecsStay DEF Current
<1>3. Standing /\ Phased
  BY DEF RunInv, Course
<1>4. /\ attached' \in Outcomes \cup {None} /\ result' \in Results
      /\ phase' \in {"attached", "ran", "report"}
  BY <1>3 DEF CallEnds, AttachEnds, BodyEnds, DetachEnds, AttachReported, NoDetach, Standing,
         Outcomes, Results
<1>5. Phased'
  <2>1. None \notin Failures \cup {"ok", "halted"}
    BY PeAssumption
  <2> QED
    BY <1>1, <1>2, <1>3, <2>1 DEF CallEnds, AttachEnds, BodyEnds, DetachEnds, AttachReported, NoDetach,
           AttachFailed, Phased
<1> QED
  BY <1>1, <1>3, <1>4, <1>5, WithinRun DEF Standing, Phases

\* The summary of a run that is reported.
LEMMA SummaryOf ==
    ASSUME RunInv, phase = "report"
    PROVE  /\ Summary \in Summaries /\ Summary.spec = Current /\ Summary.backend = backend
           /\ Summary.status = Status
           /\ Status = "ok" => ran \/ exited \/ (Current.mode = "attach" /\ ~HasAttach)
           /\ Summary.ran = ran /\ Summary.exited = exited
<1>1. Current \in RunSpecs
  BY CurrentSpec
<1>2. Status \in Results
  BY DEF Status, RunInv, Standing, Results, Outcomes
<1>3. Summary \in Summaries
  BY <1>1, <1>2 DEF Summary, Summaries, RunInv, Standing
<1> QED
  BY <1>3 DEF Summary, Status, RunInv, Course, Phased

LEMMA RetryKeeps ==
    ASSUME RunInv, Retry
    PROVE  RunInv'
<1>1. phase = "report" /\ Attempts /\ first' = Summary /\ backend' = "hybrid" /\ Restart
      /\ UNCHANGED <<sample, options, k, runs>>
  BY DEF Retry
<1>2. Summary \in Refused /\ Summary.spec = Current
  BY <1>1, SummaryOf DEF Summaries, Refused, Attempts, Summary
<1>3. Specs' = Specs /\ HasAttach' = HasAttach
  BY <1>1, SpecsStay
<1>4. runs \in Seq(Summaries) /\ Len(runs) = k - 1 /\ RunsReported /\ k \in 1..Len(Specs)
  BY <1>1, CurrentSpec DEF RunInv, Listed
<1>5. RunsReported'
  BY <1>1, <1>3, <1>4 DEF RunsReported, Restart
<1> QED
  BY <1>1, <1>2, <1>4, <1>5, NewWorld DEF Attempts

LEMMA NextRunKeeps ==
    ASSUME RunInv, NextRun
    PROVE  RunInv'
<1>1. PICK s \in Delivered : runs' = Append(runs, s)
  BY DEF NextRun
<1>2. phase = "report" /\ k' = k + 1 /\ UNCHANGED <<sample, options>> /\ first' = None /\ backend' = "js"
  BY DEF NextRun
<1>3. k \in 1..Len(Specs) /\ Len(Specs) \in Nat \ {0} /\ Current \in RunSpecs /\ Current = Specs[k]
  BY <1>2, CurrentSpec
<1>4. Specs' = Specs /\ HasAttach' = HasAttach /\ Chosen'
  BY <1>2, SpecsStay DEF Chosen, RunInv, Standing
<1>5. /\ s \in Summaries /\ s.spec = Specs[k]
      /\ s.status = "ok" => s.ran \/ s.exited \/ (s.spec.mode = "attach" /\ ~HasAttach)
      /\ s.backend = "hybrid" => Len(Specs) = 1 /\ options.hybrid /\ s.status # "unimplemented"
  <2>1. CASE s = Summary /\ ~(backend = "hybrid" /\ ~Keeps)
    BY <1>2, <1>3, <2>1, SummaryOf DEF Keeps, RunInv, Standing, Course
  <2>2. CASE backend = "hybrid" /\ s = first
    <3>1. first \in Refused /\ first.spec = Current
      BY <2>2 DEF RunInv, Course
    <3> QED
      BY <1>3, <2>2, <3>1, PeAssumption DEF Refused, Summaries, Results, Outcomes, Refusals
  <2> QED
    BY <2>1, <2>2 DEF Delivered
<1>6. runs \in Seq(Summaries) /\ Len(runs) = k - 1 /\ RunsReported
  BY DEF RunInv, Listed
<1>7. runs' \in Seq(Summaries) /\ Len(runs') = k
  BY <1>1, <1>3, <1>5, <1>6
<1>8. RunsReported'
  <2>1. phase' = "over" => Len(runs') = Len(Specs)
    BY <1>3, <1>7 DEF NextRun, Restart
  <2>2. ASSUME NEW j \in DOMAIN runs'
        PROVE  /\ runs'[j].spec = Specs[j]
               /\ runs'[j].status = "ok" => \/ runs'[j].ran \/ runs'[j].exited
                                            \/ runs'[j].spec.mode = "attach" /\ ~HasAttach
               /\ runs'[j].backend = "hybrid" =>
                     Len(Specs) = 1 /\ options.hybrid /\ runs'[j].status # "unimplemented"
    <3>1. j \in 1..k
      BY <1>7
    <3>2. CASE j = k
      <4>1. runs'[j] = s
        BY <1>1, <1>3, <1>5, <1>6, <3>2
      <4> QED
        BY <4>1, <1>5, <3>2
    <3>3. CASE j # k
      <4>1. j \in DOMAIN runs /\ runs'[j] = runs[j]
        BY <1>1, <1>3, <1>5, <1>6, <3>1, <3>3
      <4> QED
        BY <4>1, <1>6 DEF RunsReported
    <3> QED
      BY <3>2, <3>3
  <2> QED
    BY <1>2, <1>4, <2>1, <2>2 DEF RunsReported
<1>9. CASE k < Len(Specs)
  <2>1. Restart /\ k' \in 1..Len(Specs)
    BY <1>2, <1>3, <1>9 DEF NextRun
  <2>2. Len(runs') = k' - 1
    BY <1>2, <1>3, <1>7
  <2> QED
    BY <1>2, <1>7, <1>8, <2>1, <2>2, NewWorld
<1>10. CASE ~(k < Len(Specs))
  <2>1. phase' = "over" /\ UNCHANGED <<worldVars, seh, attached, ran, result>>
    BY <1>10 DEF NextRun
  <2>2. k = Len(Specs) /\ k' = Len(Specs) + 1 /\ Len(runs') = k' - 1
    BY <1>2, <1>3, <1>7, <1>10
  <2>3. Standing'
    BY <1>2, <1>3, <1>4, <2>1, <2>2 DEF RunInv, Standing, worldVars, processVars, Phases
  <2>4. Course'
    BY <1>2, <2>1 DEF Course, Phased
  <2> QED
    BY <1>7, <1>8, <2>2, <2>3, <2>4 DEF RunInv, Listed
<1> QED
  BY <1>9, <1>10

LEMMA RunStep == RunInv /\ [Next]_vars => RunInv'
<1> SUFFICES ASSUME RunInv, [Next]_vars PROVE RunInv'
  OBVIOUS
<1>1. CASE UNCHANGED vars
  <2>1. Specs' = Specs /\ HasAttach' = HasAttach
    BY <1>1, SpecsStay DEF vars, controlVars
  <2>2. Current' = Current
    BY <1>1, <2>1 DEF Current, vars, controlVars
  <2>3. UNCHANGED <<sample, options, k, phase, seh, exited, ran, calls, result, attached, backend, first, runs>>
    BY <1>1 DEF vars, controlVars, worldVars, processVars
  <2> QED
    BY <2>1, <2>2, <2>3 DEF RunInv, Standing, Chosen, Course, Phased, Listed, RunsReported
<1>2. CASE Next
  <2>1. CASE Over
    BY <1>1, <2>1 DEF Over
  <2> QED
    BY <1>2, <2>1, StartsKeep, GuestKeeps, EndsKeep, RetryKeeps, NextRunKeeps DEF Next
<1> QED
  BY <1>1, <1>2

-----------------------------------------------------------------------------
(* Sequences of chunks.                                                    *)

\* FlattenSeq joins the chunks one after the other.
LEMMA FlattenJoins ==
    ASSUME NEW s \in Seq(Seq(Data)), s # <<>>
    PROVE  \E f \in [1..Len(s) -> Seq(Data)] :
              /\ f[1] = s[1]
              /\ \A i \in 2..Len(s) : f[i] = f[i - 1] \o s[i]
              /\ FlattenSeq(s) = f[Len(s)]
<1>1. PICK N \in Nat \ {0} : N = Len(s) /\ \A i \in 1..N : s[i] \in Seq(Data)
  OBVIOUS
<1> DEFINE F == [q \in Seq(Data) \X (1..N) |-> IF q[2] = 1 THEN s[q[2]] ELSE q[1] \o s[q[2]]]
           body(g) == [i \in 1..N |-> IF i = 1 THEN s[i] ELSE g[i - 1] \o s[i]]
           ch == CHOOSE g : g = body(g)
<1>2. <<>> \in Seq(Data) /\ N \in Nat /\ \A n \in 1..N : \A q \in Seq(Data) : F[<<q, n>>] \in Seq(Data)
  <2>1. ASSUME NEW n \in 1..N, NEW q \in Seq(Data) PROVE F[<<q, n>>] \in Seq(Data)
    <3>1. F[<<q, n>>] = IF n = 1 THEN s[n] ELSE q \o s[n]
      OBVIOUS
    <3>2. s[n] \in Seq(Data) /\ q \o s[n] \in Seq(Data)
      BY <1>1, ConcatProperties
    <3> HIDE DEF F
    <3> QED
      BY <3>1, <3>2
  <2> HIDE DEF F
  <2> QED
    BY <2>1
<1>3. PICK g \in [0..N -> Seq(Data)] : Recursive(g, <<>>, N, F)
  <2> HIDE DEF F
  <2> QED
    BY <1>2, RecursionExists
<1> DEFINE h == [i \in 1..N |-> g[i]]
<1>4. \A n \in 1..N : g[n] = IF n = 1 THEN s[n] ELSE g[n - 1] \o s[n]
  <2> TAKE n \in 1..N
  <2>1. g[n] = F[<<g[n - 1], n>>] /\ g[n - 1] \in Seq(Data)
    <3>1. g = [m \in 0..N |-> IF m = 0 THEN <<>> ELSE F[<<g[m - 1], m>>]]
      BY <1>3 DEF Recursive
    <3> HIDE DEF F
    <3>2. n \in 0..N /\ n # 0 /\ n - 1 \in 0..N
      OBVIOUS
    <3> QED
      BY <1>3, <3>1, <3>2
  <2> QED
    BY <2>1
<1>5. h = body(h)
  <2>1. \A n \in 1..N : n # 1 => n - 1 \in 1..N
    OBVIOUS
  <2> QED
    BY <1>4, <2>1
<1>6. ch = body(ch)
  <2> HIDE DEF body, h
  <2> QED
    BY <1>5
<1>7. FlattenSeq(s) = ch[N]
  BY <1>1 DEF FlattenSeq
<1> HIDE DEF ch
<1>8. \A n \in 1..N : ch[n] = IF n = 1 THEN s[n] ELSE ch[n - 1] \o s[n]
  BY <1>6
<1>9. \A n \in Nat : n \in 1..N => ch[n] \in Seq(Data)
  <2> DEFINE T == {n \in Nat : n \in 1..N => ch[n] \in Seq(Data)}
  <2>1. 0 \in T
    OBVIOUS
  <2>2. ASSUME NEW n \in Nat, n \in T PROVE n + 1 \in T
    <3> SUFFICES ASSUME n + 1 \in 1..N PROVE ch[n + 1] \in Seq(Data)
      OBVIOUS
    <3>1. CASE n = 0
      BY <1>1, <1>8, <3>1
    <3>2. CASE n # 0
      <4>1. n \in 1..N /\ ch[n] \in Seq(Data) /\ s[n + 1] \in Seq(Data) /\ (n + 1) - 1 = n
        BY <1>1, <2>2, <3>2
      <4>2. ch[n + 1] = ch[n] \o s[n + 1]
        <5>1. n + 1 \in 1..N /\ n + 1 # 1
          BY <3>2
        <5> QED
          BY <1>8, <4>1, <5>1
      <4> QED
        BY <4>1, <4>2, ConcatProperties
    <3> QED
      BY <3>1, <3>2
  <2> HIDE DEF T
  <2>3. Nat \subseteq T
    BY <2>1, <2>2, SetInduction
  <2> QED
    BY <2>3 DEF T
<1>10. ch \in [1..N -> Seq(Data)]
  <2>1. ch = [n \in 1..N |-> ch[n]]
    <3> HIDE DEF body
    <3>1. DOMAIN body(ch) = 1..N /\ body(ch) = [n \in 1..N |-> body(ch)[n]]
      BY DEF body
    <3> QED
      BY <1>6, <3>1
  <2> QED
    BY <1>9, <2>1
<1>11. ch[1] = s[1] /\ \A i \in 2..N : ch[i] = ch[i - 1] \o s[i]
  <2>1. 1 \in 1..N /\ \A i \in 2..N : i \in 1..N /\ i # 1
    OBVIOUS
  <2> QED
    BY <1>8, <2>1
<1> QED
  BY <1>1, <1>7, <1>10, <1>11

LEMMA ThreeJoined ==
    ASSUME NEW a \in Seq(Data), NEW b \in Seq(Data), NEW c \in Seq(Data)
    PROVE  (a \o b) \o c = a \o (b \o c)
  BY ConcatAssociative

\* What is joined begins with the first chunk.
LEMMA FlattenHead ==
    ASSUME NEW s \in Seq(Seq(Data)), s # <<>>
    PROVE  /\ FlattenSeq(s) = Head(s) \o FlattenSeq(Tail(s))
           /\ FlattenSeq(s) \in Seq(Data) /\ FlattenSeq(Tail(s)) \in Seq(Data)
<1>0. \A a, b, c \in Seq(Data) : (a \o b) \o c = a \o (b \o c)
  BY ThreeJoined
<1>1. PICK f \in [1..Len(s) -> Seq(Data)] :
              /\ f[1] = s[1]
              /\ \A i \in 2..Len(s) : f[i] = f[i - 1] \o s[i]
              /\ FlattenSeq(s) = f[Len(s)]
  BY FlattenJoins
<1>2. PICK N \in Nat \ {0} : N = Len(s)
  OBVIOUS
<1>3. PICK t \in Seq(Seq(Data)) : t = Tail(s)
  BY HeadTailProperties
<1>4. Len(t) = N - 1 /\ \A i \in 1..(N - 1) : t[i] = s[i + 1]
  BY <1>2, <1>3
<1>5. Head(s) = s[1] /\ s[1] \in Seq(Data) /\ \A i \in 1..N : s[i] \in Seq(Data)
  BY <1>2
<1>6. CASE N = 1
  <2>1. t = <<>>
    BY <1>4, <1>6, EmptySeq
  <2>2. FlattenSeq(t) = <<>>
    BY <2>1 DEF FlattenSeq
  <2>3. FlattenSeq(s) = s[1]
    BY <1>1, <1>2, <1>6
  <2> QED
    BY <1>3, <1>5, <2>2, <2>3, ConcatEmptySeq, EmptySeq
<1>7. CASE N # 1
  <2>1. t # <<>> /\ Len(t) \in Nat \ {0}
    BY <1>2, <1>4, <1>7
  <2>2. PICK g \in [1..Len(t) -> Seq(Data)] :
              /\ g[1] = t[1]
              /\ \A i \in 2..Len(t) : g[i] = g[i - 1] \o t[i]
              /\ FlattenSeq(t) = g[Len(t)]
    BY <2>1, FlattenJoins
  <2> DEFINE T == {n \in Nat : n \in 1..(N - 1) => f[n + 1] = s[1] \o g[n]}
  <2>3. 0 \in T
    OBVIOUS
  <2>4. ASSUME NEW n \in Nat, n \in T PROVE n + 1 \in T
    <3> SUFFICES ASSUME n + 1 \in 1..(N - 1) PROVE f[(n + 1) + 1] = s[1] \o g[n + 1]
      BY n + 1 \in Nat
    <3>1. n + 2 \in 2..N /\ n + 1 \in 1..N /\ t[n + 1] = s[n + 2] /\ (n + 2) - 1 = n + 1 /\ (n + 1) + 1 = n + 2
      BY <1>4
    <3>2. f[n + 2] = f[n + 1] \o s[n + 2]
      BY <1>1, <1>2, <3>1
    <3>3. CASE n = 0
      <4>0. n + 2 = 2 /\ n + 1 = 1
        BY <3>3
      <4>1. f[2] = f[1] \o s[2]
        BY <3>2, <4>0
      <4>2. g[1] = s[2]
        BY <2>2, <3>1, <4>0
      <4> QED
        BY <1>1, <4>0, <4>1, <4>2, <3>1
    <3>4. CASE n # 0
      <4>1. n \in 1..(N - 1) /\ n + 1 \in 2..Len(t) /\ (n + 1) - 1 = n
        BY <1>4, <3>4
      <4>2. g[n + 1] = g[n] \o t[n + 1]
        BY <2>2, <4>1
      <4>3. f[n + 1] = s[1] \o g[n]
        BY <2>4, <4>1
      <4>4. g[n] \in Seq(Data) /\ s[n + 2] \in Seq(Data)
        BY <1>4, <1>5, <2>2, <3>1, <4>1
      <4>5. (s[1] \o g[n]) \o s[n + 2] = s[1] \o (g[n] \o s[n + 2])
        BY <1>0, <1>5, <4>4
      <4> QED
        BY <3>1, <3>2, <4>2, <4>3, <4>5
    <3> QED
      BY <3>3, <3>4
  <2> HIDE DEF T
  <2>5. Nat \subseteq T
    BY <2>3, <2>4, SetInduction
  <2>6. f[N] = s[1] \o g[N - 1]
    <3>1. N - 1 \in Nat /\ N - 1 \in 1..(N - 1) /\ (N - 1) + 1 = N
      BY <1>7
    <3> QED
      BY <2>5, <3>1 DEF T
  <2>7. N \in 1..N /\ N - 1 \in 1..Len(t)
    BY <1>4, <1>7
  <2>8. FlattenSeq(t) = g[N - 1] /\ g[N - 1] \in Seq(Data) /\ FlattenSeq(s) = f[N] /\ f[N] \in Seq(Data)
    BY <1>1, <1>2, <1>4, <2>2, <2>7
  <2> QED
    BY <1>3, <1>5, <2>6, <2>8
<1> QED
  BY <1>6, <1>7

LEMMA FlattenEmpty == FlattenSeq(<<>>) = <<>>
  BY DEF FlattenSeq

LEMMA MinOfTwo == ASSUME NEW m \in Nat, NEW n \in Nat PROVE Min({m, n}) = IF m <= n THEN m ELSE n
  BY DEF Min

LEMMA MaxOfTwo == ASSUME NEW m \in Nat, NEW n \in Nat PROVE Max({m, n}) = IF m >= n THEN m ELSE n
  BY DEF Max

\* What a recv takes and what it leaves are what there was.
LEMMA TakenIsCut ==
    ASSUME NEW recv \in Seq(Seq(Data)), recv # <<>>, NEW n \in Nat
    PROVE  /\ Taken(recv, n).bytes \in Seq(Data) /\ Taken(recv, n).rest \in Seq(Seq(Data))
           /\ FlattenSeq(Taken(recv, n).rest) \in Seq(Data)
           /\ Taken(recv, n).bytes \o FlattenSeq(Taken(recv, n).rest) = FlattenSeq(recv)
<1>1. PICK chunk \in Seq(Data) : chunk = Head(recv)
  BY HeadTailProperties
<1>2. PICK r \in Seq(Seq(Data)) : r = Tail(recv)
  BY HeadTailProperties
<1>3. PICK cut \in 0..Len(chunk) : cut = Min({n, Len(chunk)})
  <2>1. Len(chunk) \in Nat
    OBVIOUS
  <2>2. Min({n, Len(chunk)}) = IF n <= Len(chunk) THEN n ELSE Len(chunk)
    BY <2>1, MinOfTwo
  <2> QED
    BY <2>1, <2>2
<1> DEFINE b == SubSeq(chunk, 1, cut)
           c == SubSeq(chunk, cut + 1, Len(chunk))
           rest == IF cut < Len(chunk) THEN <<c>> \o r ELSE r
<1>4. Taken(recv, n).bytes = b /\ Taken(recv, n).rest = rest
  BY <1>1, <1>2, <1>3 DEF Taken
<1>5. b \in Seq(Data) /\ c \in Seq(Data) /\ b \o c = chunk
  <2>1. b \o c = SubSeq(chunk, 1, Len(chunk))
    <3>1. 1 \in 1..(Len(chunk) + 1) /\ cut \in (1 - 1)..Len(chunk) /\ Len(chunk) \in cut..Len(chunk)
      OBVIOUS
    <3> QED
      BY <3>1, ConcatAdjacentSubSeq
  <2>2. SubSeq(chunk, 1, Len(chunk)) = chunk
    BY SubSeqFull
  <2>3. b \in Seq(Data) /\ c \in Seq(Data)
    BY SubSeqProperties
  <2> QED
    BY <2>1, <2>2, <2>3
<1>6. /\ FlattenSeq(recv) = chunk \o FlattenSeq(r)
      /\ FlattenSeq(r) \in Seq(Data)
  BY <1>1, <1>2, FlattenHead
<1>7. CASE cut < Len(chunk)
  <2>1. rest = <<c>> \o r
    BY <1>7
  <2> HIDE DEF c, b, rest
  <2>2. <<c>> \o r \in Seq(Seq(Data)) /\ <<c>> \o r # <<>> /\ Head(<<c>> \o r) = c /\ Tail(<<c>> \o r) = r
    <3>1. PICK w : w = <<c>> \o r
      OBVIOUS
    <3>2. <<c>> \in Seq(Seq(Data)) /\ Len(<<c>>) = 1 /\ <<c>>[1] = c
      BY <1>5
    <3>3. /\ w \in Seq(Seq(Data)) /\ Len(w) = 1 + Len(r)
          /\ \A i \in 1..(1 + Len(r)) : w[i] = IF i <= 1 THEN <<c>>[i] ELSE r[i - 1]
      BY <3>1, <3>2, ConcatProperties
    <3>4. w # <<>> /\ Head(w) = c
      BY <3>2, <3>3
    <3>5. /\ Tail(w) \in Seq(Seq(Data)) /\ Len(Tail(w)) = Len(r)
          /\ \A i \in 1..Len(r) : Tail(w)[i] = w[i + 1]
      BY <3>3, <3>4, HeadTailProperties
    <3>6. \A i \in 1..Len(r) : i + 1 \in 1..(1 + Len(r)) /\ ~(i + 1 <= 1) /\ (i + 1) - 1 = i
      OBVIOUS
    <3>7. \A i \in 1..Len(r) : Tail(w)[i] = r[i]
      BY <3>3, <3>5, <3>6
    <3>8. Tail(w) = r
      BY <3>5, <3>7, SeqEqual
    <3> QED
      BY <3>1, <3>3, <3>4, <3>8
  <2>3. FlattenSeq(rest) = c \o FlattenSeq(r) /\ FlattenSeq(rest) \in Seq(Data)
    BY <2>1, <2>2, FlattenHead
  <2>4. b \o (c \o FlattenSeq(r)) = (b \o c) \o FlattenSeq(r)
    <3>1. \A x, y, z \in Seq(Data) : (x \o y) \o z = x \o (y \o z)
      BY ThreeJoined
    <3> QED
      BY <1>5, <1>6, <3>1
  <2> QED
    BY <1>4, <1>5, <1>6, <2>1, <2>2, <2>3, <2>4
<1>8. CASE ~(cut < Len(chunk))
  <2>1. cut = Len(chunk)
    BY <1>8
  <2>2. rest = r /\ b = chunk
    BY <2>1, SubSeqFull
  <2> HIDE DEF b, rest, c
  <2> QED
    BY <1>4, <1>5, <1>6, <2>2
<1> QED
  BY <1>7, <1>8

-----------------------------------------------------------------------------
(* The objects behind the handles.                                         *)

Listings == [from : {"vfs", "overlay"}, path : Paths, size : Nat]
Files == [kind : {"file"}, path : Paths, pos : Nat, data : Seq(Data), wrote : BOOLEAN, opened : Seq(Data)]
Finds == [kind : {"find"}, matches : SUBSET Listings, index : Nat]
Sockets == [kind : {"socket"}, recv : Seq(Seq(Data)), connected : BOOLEAN]
Objects == Files \cup Finds \cup Sockets \cup [kind : {"other"}]

\* Every handle has an object.
Handed ==
    /\ handles \in Seq(Objects) /\ got \in Seq(Seq(Data)) /\ lost \in Seq(Nat)
    /\ Len(got) = Len(handles) /\ Len(lost) = Len(handles)

\* A file that was written is what the handle last used on it holds.
Written ==
    /\ DOMAIN overlay \subseteq Paths /\ DOMAIN writer = DOMAIN overlay
    /\ \A p \in DOMAIN overlay :
          /\ writer[p] \in OfKind("file") /\ handles[writer[p]].path = p
          /\ overlay[p] = handles[writer[p]].data

\* The books of a connection: g was received, recv is to come, l bytes are lost.
Answered(g, recv, l) ==
    /\ Len(g) + Len(FlattenSeq(recv)) + l = Len(FlattenSeq(Script))
    /\ l = 0 => g \o FlattenSeq(recv) = FlattenSeq(Script)

\* What holds of an object whatever else there is.
Sound(o, g, l) ==
    /\ o.kind = "file" /\ ~o.wrote => o.data = o.opened
    /\ o.kind = "find" => IsFiniteSet(o.matches) /\ o.index <= Cardinality(o.matches)
    /\ o.kind = "socket" /\ o.connected => Answered(g, o.recv, l)

EachSound == \A h \in DOMAIN handles : Sound(handles[h], got[h], lost[h])

ObjectsInv == Handed /\ Written /\ EachSound

LEMMA ObjectsInitially == ObjectsInit => ObjectsInv
<1> SUFFICES ASSUME ObjectsInit PROVE ObjectsInv
  OBVIOUS
<1> USE DEF ObjectsInit
<1>1. Handed
  BY DEF Handed
<1>2. Written
  BY DEF Written
<1>3. EachSound
  BY DEF EachSound
<1> QED
  BY <1>1, <1>2, <1>3 DEF ObjectsInv

LEMMA ObjectsAnew == ObjectsRestart => ObjectsInv'
<1> SUFFICES ASSUME ObjectsRestart PROVE ObjectsInv'
  OBVIOUS
<1> USE DEF ObjectsRestart
<1>1. Handed'
  BY DEF Handed
<1>2. Written'
  BY DEF Written
<1>3. EachSound'
  BY DEF EachSound
<1> QED
  BY <1>1, <1>2, <1>3 DEF ObjectsInv

\* A new handle, of an object that is sound with nothing received.
LEMMA Added ==
    ASSUME ObjectsInv, NEW o \in Objects, NewHandle(o), UNCHANGED <<overlay, writer>>,
           Sound(o, <<>>, 0)
    PROVE  ObjectsInv'
<1>1. PICK n \in Nat : n = Len(handles)
  BY DEF ObjectsInv, Handed
<1>2. handles' = Append(handles, o) /\ got' = Append(got, <<>>) /\ lost' = Append(lost, 0)
  BY DEF NewHandle
<1>3. /\ handles \in Seq(Objects) /\ got \in Seq(Seq(Data)) /\ lost \in Seq(Nat)
      /\ Len(got) = n /\ Len(lost) = n /\ DOMAIN handles = 1..n
  BY <1>1 DEF ObjectsInv, Handed
<1>4. /\ handles' \in Seq(Objects) /\ Len(handles') = n + 1 /\ DOMAIN handles' = 1..(n + 1)
      /\ handles'[n + 1] = o /\ \A h \in 1..n : handles'[h] = handles[h]
  BY <1>1, <1>2, <1>3, AppendProperties
<1>5. /\ got' \in Seq(Seq(Data)) /\ Len(got') = n + 1
      /\ got'[n + 1] = <<>> /\ \A h \in 1..n : got'[h] = got[h]
  <2>1. <<>> \in Seq(Data)
    OBVIOUS
  <2> QED
    BY <2>1, <1>2, <1>3, AppendProperties
<1>6. /\ lost' \in Seq(Nat) /\ Len(lost') = n + 1
      /\ lost'[n + 1] = 0 /\ \A h \in 1..n : lost'[h] = lost[h]
  <2>1. PICK b \in Nat : b = 0
    OBVIOUS
  <2>2. lost' = Append(lost, b)
    BY <1>2, <2>1, Zenon
  <2>3. /\ lost' \in Seq(Nat) /\ Len(lost') = n + 1
        /\ lost'[n + 1] = b /\ \A h \in 1..n : lost'[h] = lost[h]
    BY <1>3, <2>2, AppendProperties
  <2> QED
    BY <2>1, <2>3
<1>7. Handed'
  BY <1>4, <1>5, <1>6 DEF Handed
<1>8. Written'
  BY <1>3, <1>4 DEF ObjectsInv, Written, OfKind
<1>9. EachSound'
  <2>1. ASSUME NEW h \in 1..(n + 1) PROVE Sound(handles'[h], got'[h], lost'[h])
    <3>1. CASE h = n + 1
      BY <3>1, <1>4, <1>5, <1>6
    <3>2. CASE h # n + 1
      <4>1. h \in 1..n
        BY <3>2
      <4>2. handles'[h] = handles[h] /\ got'[h] = got[h] /\ lost'[h] = lost[h]
        BY <4>1, <1>4, <1>5, <1>6
      <4>3. Sound(handles[h], got[h], lost[h])
        BY <4>1, <1>3 DEF ObjectsInv, EachSound
      <4> QED
        BY <4>2, <4>3
    <3> QED
      BY <3>1, <3>2
  <2> QED
    BY <2>1, <1>4 DEF EachSound
<1> QED
  BY <1>7, <1>8, <1>9 DEF ObjectsInv

\* An object changed, what it received and what it lost with it.
LEMMA Changed ==
    ASSUME ObjectsInv, NEW h \in DOMAIN handles, NEW o \in Objects, o.kind = handles[h].kind,
           handles' = [handles EXCEPT ![h] = o],
           got' \in Seq(Seq(Data)), Len(got') = Len(got), \A i \in DOMAIN got : i # h => got'[i] = got[i],
           lost' \in Seq(Nat), Len(lost') = Len(lost), \A i \in DOMAIN lost : i # h => lost'[i] = lost[i],
           Sound(o, got'[h], lost'[h])
    PROVE  /\ Handed' /\ EachSound' /\ handles'[h] = o /\ DOMAIN handles' = DOMAIN handles
           /\ \A i \in DOMAIN handles : i # h => handles'[i] = handles[i]
           /\ OfKind("file")' = OfKind("file")
<1>1. PICK n \in Nat : n = Len(handles)
  BY DEF ObjectsInv, Handed
<1>3. /\ handles \in Seq(Objects) /\ got \in Seq(Seq(Data)) /\ lost \in Seq(Nat)
      /\ Len(got) = n /\ Len(lost) = n /\ DOMAIN handles = 1..n /\ DOMAIN got = 1..n /\ DOMAIN lost = 1..n
  BY <1>1 DEF ObjectsInv, Handed
<1>4. /\ handles' \in Seq(Objects) /\ Len(handles') = n /\ DOMAIN handles' = 1..n
      /\ handles'[h] = o /\ \A i \in 1..n : i # h => handles'[i] = handles[i]
  BY <1>1, <1>3
<1>5. Len(got') = n /\ \A i \in 1..n : i # h => got'[i] = got[i]
  BY <1>3
<1>6. Len(lost') = n /\ \A i \in 1..n : i # h => lost'[i] = lost[i]
  BY <1>3
<1>7. Handed'
  BY <1>4, <1>5, <1>6 DEF Handed
<1>8. EachSound'
  <2>1. ASSUME NEW i \in 1..n PROVE Sound(handles'[i], got'[i], lost'[i])
    <3>1. CASE i = h
      BY <3>1, <1>4, <1>5, <1>6
    <3>2. CASE i # h
      <4>1. handles'[i] = handles[i] /\ got'[i] = got[i] /\ lost'[i] = lost[i]
        BY <3>2, <1>4, <1>5, <1>6
      <4>2. Sound(handles[i], got[i], lost[i])
        BY <1>3 DEF ObjectsInv, EachSound
      <4> QED
        BY <4>1, <4>2
    <3> QED
      BY <3>1, <3>2
  <2> QED
    BY <2>1, <1>4 DEF EachSound
<1>9. OfKind("file")' = OfKind("file")
  <2>1. \A i \in 1..n : handles'[i].kind = handles[i].kind
    BY <1>4
  <2> QED
    BY <1>3, <1>4, <2>1 DEF OfKind
<1> QED
  BY <1>3, <1>4, <1>7, <1>8, <1>9

\* A file that is looked up has the contents its last writer gave it.
LEMMA Looked ==
    ASSUME ObjectsInv, NEW p \in Paths
    PROVE  /\ VfsLookup(p) \in Seq(Data)
           /\ VfsLookup(p) = (IF p \in DOMAIN writer THEN handles[writer[p]].data
                             ELSE IF p \in DOMAIN VfsFiles THEN VfsFiles[p] ELSE <<>>)
<1>1. CASE p \in DOMAIN overlay
  <2>1. writer[p] \in DOMAIN handles /\ handles[writer[p]] \in Objects /\ handles[writer[p]].kind = "file"
    BY <1>1, ElementOfSeq DEF ObjectsInv, Handed, Written, OfKind
  <2>2. handles[writer[p]].data \in Seq(Data)
    BY <2>1 DEF Objects, Files, Finds, Sockets
  <2> QED
    BY <1>1, <2>2 DEF VfsLookup, ObjectsInv, Written
<1>2. CASE p \notin DOMAIN overlay
  BY <1>2, Win32Assumption DEF VfsLookup, ObjectsInv, Written
<1> QED
  BY <1>1, <1>2

\* What an enumeration finds.
LEMMA MatchesListed ==
    ASSUME ObjectsInv, NEW ps \in SUBSET Paths
    PROVE  VfsMatch(ps) \subseteq Listings /\ IsFiniteSet(VfsMatch(ps)) /\ Cardinality(VfsMatch(ps)) \in Nat
<1> DEFINE A == {[from |-> "vfs", path |-> p, size |-> Len(VfsFiles[p])] : p \in ps \cap DOMAIN VfsFiles}
           B == {[from |-> "overlay", path |-> p, size |-> Len(overlay[p])] : p \in ps \cap DOMAIN overlay}
<1>1. \A p \in DOMAIN overlay : overlay[p] \in Seq(Data)
  <2> TAKE p \in DOMAIN overlay
  <2>1. p \in Paths /\ VfsLookup(p) = overlay[p]
    BY DEF VfsLookup, ObjectsInv, Written
  <2> QED
    BY <2>1, Looked
<1>2. A \subseteq Listings
  BY Win32Assumption DEF Listings
<1>3. B \subseteq Listings
  BY <1>1 DEF Listings
<1>4. IsFiniteSet(ps \cap DOMAIN VfsFiles) /\ IsFiniteSet(ps \cap DOMAIN overlay)
  <2>1. ps \cap DOMAIN VfsFiles \in SUBSET Paths /\ ps \cap DOMAIN overlay \in SUBSET Paths
    OBVIOUS
  <2> QED
    BY <2>1, Win32Assumption, FS_Subset
<1>5. IsFiniteSet(A)
  <2> DEFINE f == [p \in ps \cap DOMAIN VfsFiles |-> [from |-> "vfs", path |-> p, size |-> Len(VfsFiles[p])]]
  <2>1. f \in Surjection(ps \cap DOMAIN VfsFiles, A)
    BY DEF Surjection
  <2> HIDE DEF f, A
  <2> QED
    BY <1>4, <2>1, FS_Surjection
<1>6. IsFiniteSet(B)
  <2> DEFINE f == [p \in ps \cap DOMAIN overlay |-> [from |-> "overlay", path |-> p, size |-> Len(overlay[p])]]
  <2>1. f \in Surjection(ps \cap DOMAIN overlay, B)
    BY DEF Surjection
  <2> HIDE DEF f, B
  <2> QED
    BY <1>4, <2>1, FS_Surjection
<1>7. VfsMatch(ps) = A \cup B
  BY DEF VfsMatch
<1> HIDE DEF A, B
<1> QED
  BY <1>2, <1>3, <1>5, <1>6, <1>7, FS_Union, FS_CardinalityType

\* An object changed, and nothing received or lost.
LEMMA Moved ==
    ASSUME ObjectsInv, NEW h \in DOMAIN handles, NEW o \in Objects,
           o.kind = handles[h].kind, Sound(o, got[h], lost[h]),
           handles' = [handles EXCEPT ![h] = o], UNCHANGED <<got, lost>>
    PROVE  /\ Handed' /\ EachSound' /\ handles'[h] = o /\ DOMAIN handles' = DOMAIN handles
           /\ \A i \in DOMAIN handles : i # h => handles'[i] = handles[i]
           /\ OfKind("file")' = OfKind("file")
<1>1. got \in Seq(Seq(Data)) /\ lost \in Seq(Nat)
  BY DEF ObjectsInv, Handed
<1>2. /\ got' \in Seq(Seq(Data)) /\ Len(got') = Len(got) /\ \A i \in DOMAIN got : i # h => got'[i] = got[i]
      /\ lost' \in Seq(Nat) /\ Len(lost') = Len(lost) /\ \A i \in DOMAIN lost : i # h => lost'[i] = lost[i]
  BY <1>1, Zenon
<1>3. Sound(o, got'[h], lost'[h])
  BY Zenon
<1> QED
  BY <1>2, <1>3, Changed

\* The object of a handle.
LEMMA ObjectOf ==
    ASSUME ObjectsInv, NEW h \in DOMAIN handles
    PROVE  /\ handles[h] \in Objects
           /\ handles[h].kind = "file" => handles[h] \in Files
           /\ handles[h].kind = "find" => handles[h] \in Finds
           /\ handles[h].kind = "socket" => handles[h] \in Sockets
           /\ Sound(handles[h], got[h], lost[h])
           /\ got[h] \in Seq(Data) /\ lost[h] \in Nat
<1>1. handles[h] \in Objects
  BY ElementOfSeq DEF ObjectsInv, Handed
<1>2. Sound(handles[h], got[h], lost[h])
  BY DEF ObjectsInv, EachSound
<1>3. got[h] \in Seq(Data) /\ lost[h] \in Nat
  BY DEF ObjectsInv, Handed
<1> QED
  BY <1>1, <1>2, <1>3 DEF Objects, Files, Finds, Sockets

LEMMA CreateKeeps ==
    ASSUME ObjectsInv, NEW p \in Paths, NEW truncate \in BOOLEAN, CreateFile(p, truncate)
    PROVE  ObjectsInv'
<1> DEFINE o == [kind |-> "file", path |-> p, pos |-> 0,
                 data |-> IF truncate THEN <<>> ELSE VfsLookup(p), wrote |-> FALSE,
                 opened |-> IF truncate THEN <<>> ELSE
                            IF p \in DOMAIN writer THEN handles[writer[p]].data
                            ELSE IF p \in DOMAIN VfsFiles THEN VfsFiles[p] ELSE <<>>]
<1>1. VfsLookup(p) \in Seq(Data) /\ o.data = o.opened /\ o.kind = "file"
  BY Looked
<1>2. NewHandle(o) /\ UNCHANGED <<overlay, writer>>
  BY DEF CreateFile
<1>3. o \in Files
  <2>0. o.data \in Seq(Data)
    BY <1>1
  <2>1. PICK a \in Seq(Data) : a = o.data /\ a = o.opened
    <3> HIDE DEF o
    <3> QED
      BY <1>1, <2>0
  <2>2. o = [kind |-> "file", path |-> p, pos |-> 0, data |-> a, wrote |-> FALSE, opened |-> a]
    BY <2>1
  <2> HIDE DEF o
  <2> QED
    BY <2>2 DEF Files
<1> HIDE DEF o
<1>4. Sound(o, <<>>, 0) /\ o \in Objects
  BY <1>1, <1>3 DEF Sound, Objects
<1> QED
  BY <1>2, <1>4, Added

LEMMA PositionKeeps ==
    ASSUME ObjectsInv, NEW h \in OfKind("file"), NEW pos \in Nat,
           handles' = [handles EXCEPT ![h].pos = pos], UNCHANGED <<overlay, writer, got, lost>>
    PROVE  ObjectsInv'
<1>1. h \in DOMAIN handles /\ handles[h].kind = "file" /\ handles[h] \in Files /\ Sound(handles[h], got[h], lost[h])
  BY ObjectOf DEF OfKind
<1>2. PICK o : o = [handles[h] EXCEPT !.pos = pos]
  OBVIOUS
<1>3. handles' = [handles EXCEPT ![h] = o]
  BY <1>2
<1>4. /\ o \in Files /\ o.kind = "file" /\ o.path = handles[h].path /\ o.data = handles[h].data
      /\ o.wrote = handles[h].wrote /\ o.opened = handles[h].opened
  BY <1>1, <1>2 DEF Files
<1>5. Sound(o, got[h], lost[h]) /\ o \in Objects
  BY <1>1, <1>4 DEF Sound, Objects
<1>6. /\ Handed' /\ EachSound' /\ handles'[h] = o /\ DOMAIN handles' = DOMAIN handles
      /\ \A i \in DOMAIN handles : i # h => handles'[i] = handles[i]
      /\ OfKind("file")' = OfKind("file")
  BY <1>1, <1>3, <1>4, <1>5, Moved
<1>7. Written'
  BY <1>4, <1>6 DEF ObjectsInv, Written, OfKind
<1> QED
  BY <1>6, <1>7 DEF ObjectsInv

\* Where a write goes is inside the file or at its end.
LEMMA WritePosIn ==
    ASSUME NEW f \in Files
    PROVE  WritePos(f) \in 0..Len(f.data)
<1>1. f.pos \in Nat /\ Len(f.data) \in Nat
  BY DEF Files
<1>2. WritePos(f) = IF f.pos <= Len(f.data) THEN f.pos ELSE Len(f.data)
  BY <1>1, MinOfTwo DEF WritePos
<1> QED
  BY <1>1, <1>2

\* A byte written is a byte of the file.
LEMMA WrittenIs ==
    ASSUME NEW data \in Seq(Data), NEW pos \in 0..Len(data), NEW d \in Data
    PROVE  WrittenAt(data, pos, d) \in Seq(Data)
<1>1. Len(data) \in Nat
  OBVIOUS
<1>2. PICK m \in Nat : m = Max({Len(data), pos + 1}) /\ m <= Len(data) + 1 /\ m >= Len(data)
                       /\ (m = Len(data) \/ m = pos + 1)
  <2>1. Max({Len(data), pos + 1}) = IF Len(data) >= pos + 1 THEN Len(data) ELSE pos + 1
    BY <1>1, MaxOfTwo
  <2> QED
    BY <1>1, <2>1
<1>3. \A i \in 1..m : i # pos + 1 => i \in 1..Len(data)
  BY <1>1, <1>2
<1>4. \A i \in 1..m : (IF i = pos + 1 THEN d ELSE data[i]) \in Data
  BY <1>3
<1>5. WrittenAt(data, pos, d) = [i \in 1..m |-> IF i = pos + 1 THEN d ELSE data[i]]
  BY <1>2 DEF WrittenAt
<1> QED
  BY <1>4, <1>5

LEMMA StoreKeeps ==
    ASSUME ObjectsInv, NEW h \in OfKind("file"), NEW next \in Seq(Data), NEW pos \in Nat,
           Stores(h, next, pos)
    PROVE  ObjectsInv'
<1>1. h \in DOMAIN handles /\ handles[h].kind = "file" /\ handles[h] \in Files
  BY ObjectOf DEF OfKind
<1>2. PICK f \in Files : f = handles[h]
  BY <1>1
<1>3. f.pos \in Nat /\ f.data \in Seq(Data) /\ f.path \in Paths /\ f.opened \in Seq(Data)
  BY DEF Files
<1>6. /\ handles' = [handles EXCEPT ![h].data = next, ![h].pos = pos, ![h].wrote = TRUE]
      /\ overlay' = Put(overlay, f.path, next) /\ writer' = Put(writer, f.path, h)
  BY <1>2 DEF Stores
<1>0. UNCHANGED <<got, lost>>
  BY DEF Stores
<1>7. PICK o : o = [kind |-> "file", path |-> f.path, pos |-> pos, data |-> next, wrote |-> TRUE, opened |-> f.opened]
  OBVIOUS
<1>8. handles' = [handles EXCEPT ![h] = o]
  <2>1. [f EXCEPT !.data = next, !.pos = pos, !.wrote = TRUE] = o
    <3>1. PICK t \in BOOLEAN : t = TRUE
      OBVIOUS
    <3>2. PICK q \in Nat : q = pos
      OBVIOUS
    <3>3. PICK e : e = [f EXCEPT !.data = next, !.pos = q, !.wrote = t]
      OBVIOUS
    <3>4. e \in Files
      BY <3>3 DEF Files
    <3>5. e.data = next /\ e.pos = q
      BY <3>3 DEF Files
    <3>6. e.wrote = t
      BY <3>3 DEF Files
    <3>7. e.path = f.path /\ e.opened = f.opened
      BY <3>3 DEF Files
    <3>8. e = [kind |-> "file", path |-> e.path, pos |-> e.pos, data |-> e.data, wrote |-> e.wrote, opened |-> e.opened]
      BY <3>4 DEF Files
    <3> QED
      BY <1>7, <3>1, <3>2, <3>3, <3>5, <3>6, <3>7, <3>8, Zenon
  <2>2. handles' = [handles EXCEPT ![h] = [handles[h] EXCEPT !.data = next, !.pos = pos, !.wrote = TRUE]]
    BY <1>1, <1>6
  <2> QED
    BY <1>2, <2>1, <2>2
<1>9. o \in Files /\ o.kind = "file" /\ o.path = f.path /\ o.data = next /\ o.wrote
  BY <1>3, <1>7 DEF Files
<1>10. Sound(o, got[h], lost[h]) /\ o \in Objects
  BY <1>9 DEF Sound, Objects
<1>11. /\ Handed' /\ EachSound' /\ handles'[h] = o /\ DOMAIN handles' = DOMAIN handles
       /\ \A i \in DOMAIN handles : i # h => handles'[i] = handles[i]
       /\ OfKind("file")' = OfKind("file")
  BY <1>0, <1>1, <1>2, <1>8, <1>9, <1>10, Moved
<1>12. Written'
  <2>1. /\ DOMAIN overlay' = DOMAIN overlay \cup {f.path} /\ DOMAIN writer' = DOMAIN writer \cup {f.path}
        /\ overlay'[f.path] = next /\ writer'[f.path] = h
        /\ \A p \in DOMAIN overlay : p # f.path => overlay'[p] = overlay[p]
        /\ \A p \in DOMAIN writer : p # f.path => writer'[p] = writer[p]
    BY <1>6 DEF Put
  <2>2. ASSUME NEW p \in DOMAIN overlay'
        PROVE  /\ writer'[p] \in OfKind("file")' /\ handles'[writer'[p]].path = p
               /\ overlay'[p] = handles'[writer'[p]].data
    <3>1. CASE p = f.path
      BY <3>1, <2>1, <1>9, <1>11
    <3>2. CASE p # f.path
      <4>1. p \in DOMAIN overlay /\ overlay'[p] = overlay[p] /\ writer'[p] = writer[p]
        BY <2>1, <3>2 DEF ObjectsInv, Written
      <4>2. writer[p] \in OfKind("file") /\ handles[writer[p]].path = p /\ overlay[p] = handles[writer[p]].data
        BY <4>1 DEF ObjectsInv, Written
      <4>3. writer[p] # h /\ writer[p] \in DOMAIN handles
        BY <1>2, <3>2, <4>2 DEF OfKind
      <4> QED
        BY <1>11, <4>1, <4>2, <4>3
    <3> QED
      BY <3>1, <3>2
  <2> QED
    BY <1>3, <2>1, <2>2 DEF ObjectsInv, Written
<1> QED
  BY <1>11, <1>12 DEF ObjectsInv

LEMMA WriteKeeps ==
    ASSUME ObjectsInv, NEW h \in OfKind("file"), WriteNothing(h) \/ \E d \in Data : WriteFile(h, d)
    PROVE  ObjectsInv'
<1>1. PICK f \in Files : f = handles[h]
  BY ObjectOf DEF OfKind
<1>2. PICK pos \in 0..Len(f.data) : pos = WritePos(f)
  BY WritePosIn
<1>3. f.data \in Seq(Data) /\ pos \in Nat /\ pos + 1 \in Nat
  BY DEF Files
<1>4. CASE WriteNothing(h)
  <2>1. Stores(h, f.data, pos)
    BY <1>1, <1>2, <1>4 DEF WriteNothing
  <2> QED
    BY <1>3, <2>1, StoreKeeps
<1>5. ASSUME NEW d \in Data, WriteFile(h, d) PROVE ObjectsInv'
  <2>1. PICK next \in Seq(Data) : next = WrittenAt(f.data, pos, d)
    BY <1>3, WrittenIs
  <2>2. PICK q \in Nat : q = pos + 1
    BY <1>3
  <2>3. Stores(h, next, q)
    BY <1>1, <1>2, <1>5, <2>1, <2>2 DEF WriteFile
  <2> QED
    BY <2>3, StoreKeeps
<1> QED
  BY <1>4, <1>5

LEMMA ReadKeeps ==
    ASSUME ObjectsInv, NEW h \in OfKind("file"), NEW n \in Nat, ReadFile(h, n)
    PROVE  ObjectsInv'
<1>1. h \in DOMAIN handles /\ handles[h] \in Files
  BY ObjectOf DEF OfKind
<1>2. PICK f \in Files : f = handles[h]
  BY <1>1
<1>3. f.pos \in Nat /\ Len(f.data) \in Nat
  BY DEF Files
<1>4. PICK step \in Nat : step = IF f.pos >= Len(f.data) THEN 0 ELSE Min({n, Len(f.data) - f.pos})
  <2>1. CASE f.pos >= Len(f.data)
    BY <2>1
  <2>2. CASE ~(f.pos >= Len(f.data))
    <3>1. Len(f.data) - f.pos \in Nat
      BY <1>3, <2>2
    <3>2. Min({n, Len(f.data) - f.pos}) \in Nat
      BY <3>1, MinOfTwo
    <3> QED
      BY <2>2, <3>2
  <2> QED
    BY <2>1, <2>2
<1>5. handles' = [handles EXCEPT ![h].pos = @ + step] /\ UNCHANGED <<overlay, writer, got, lost>>
  BY <1>2, <1>4 DEF ReadFile
<1>6. PICK pos \in Nat : pos = f.pos + step
  BY <1>3
<1>7. handles' = [handles EXCEPT ![h].pos = pos]
  BY <1>2, <1>5, <1>6
<1> QED
  BY <1>5, <1>7, PositionKeeps

\* Objects that are no files do not bear on the files.
LEMMA OtherMoved ==
    ASSUME ObjectsInv, UNCHANGED <<overlay, writer>>, NEW h \in DOMAIN handles, handles[h].kind # "file",
           Handed', EachSound', OfKind("file")' = OfKind("file"),
           \A i \in DOMAIN handles : i # h => handles'[i] = handles[i]
    PROVE  ObjectsInv'
<1>1. Written'
  BY DEF ObjectsInv, Written, OfKind
<1> QED
  BY <1>1 DEF ObjectsInv

LEMMA FindFirstKeeps ==
    ASSUME ObjectsInv, NEW ps \in SUBSET Paths, FindFirstFile(ps)
    PROVE  ObjectsInv'
<1>1. PICK M : M = VfsMatch(ps)
  OBVIOUS
<1>2. M \subseteq Listings /\ IsFiniteSet(M) /\ Cardinality(M) \in Nat
  BY <1>1, MatchesListed
<1>3. PICK o : o = [kind |-> "find", matches |-> M, index |-> 0]
  OBVIOUS
<1>4. NewHandle(o) /\ UNCHANGED <<overlay, writer>>
  BY <1>1, <1>3 DEF FindFirstFile
<1>5. o \in Objects
  BY <1>2, <1>3 DEF Objects, Finds
<1>6. Sound(o, <<>>, 0)
  BY <1>2, <1>3 DEF Sound
<1> QED
  BY <1>4, <1>5, <1>6, Added

LEMMA FindNextKeeps ==
    ASSUME ObjectsInv, NEW h \in OfKind("find"), FindNextFile(h)
    PROVE  ObjectsInv'
<1>1. h \in DOMAIN handles /\ handles[h].kind = "find" /\ handles[h] \in Finds /\ Sound(handles[h], got[h], lost[h])
  BY ObjectOf DEF OfKind
<1>2. PICK f \in Finds : f = handles[h]
  BY <1>1
<1>3. f.index \in Nat /\ IsFiniteSet(f.matches) /\ f.index < Cardinality(f.matches)
  BY <1>1, <1>2 DEF Sound, Finds, FindNextFile
<1>4. Cardinality(f.matches) \in Nat
  BY <1>3, FS_CardinalityType
<1>5. PICK o : o = [f EXCEPT !.index = f.index + 1]
  OBVIOUS
<1>6. handles' = [handles EXCEPT ![h] = o] /\ UNCHANGED <<overlay, writer, got, lost>>
  BY <1>2, <1>5 DEF FindNextFile
<1>7. o \in Finds /\ o.kind = "find" /\ o.matches = f.matches /\ o.index = f.index + 1
  BY <1>3, <1>5 DEF Finds
<1>8. Sound(o, got[h], lost[h]) /\ o \in Objects
  BY <1>3, <1>4, <1>7 DEF Sound, Objects
<1>9. /\ Handed' /\ EachSound' /\ OfKind("file")' = OfKind("file")
      /\ \A i \in DOMAIN handles : i # h => handles'[i] = handles[i]
  BY <1>1, <1>6, <1>7, <1>8, Moved
<1> QED
  BY <1>1, <1>6, <1>9, OtherMoved

LEMMA SocketKeeps ==
    ASSUME ObjectsInv, Socket \/ OpenOther
    PROVE  ObjectsInv'
<1>1. CASE Socket
  <2>1. PICK o : o = [kind |-> "socket", recv |-> <<>>, connected |-> FALSE]
    OBVIOUS
  <2>2. NewHandle(o) /\ UNCHANGED <<overlay, writer>>
    BY <1>1, <2>1 DEF Socket
  <2>3. o \in Objects /\ Sound(o, <<>>, 0)
    BY <2>1 DEF Objects, Sockets, Sound
  <2> QED
    BY <2>2, <2>3, Added
<1>2. CASE OpenOther
  <2>1. PICK o : o = [kind |-> "other"]
    OBVIOUS
  <2>2. NewHandle(o) /\ UNCHANGED <<overlay, writer>>
    BY <1>2, <2>1 DEF OpenOther
  <2>3. o \in Objects /\ Sound(o, <<>>, 0)
    BY <2>1 DEF Objects, Sound
  <2> QED
    BY <2>2, <2>3, Added
<1> QED
  BY <1>1, <1>2

LEMMA SetPositionKeeps ==
    ASSUME ObjectsInv, NEW h \in OfKind("file"), NEW pos \in 0..2, SetFilePointer(h, pos)
    PROVE  ObjectsInv'
<1>1. handles' = [handles EXCEPT ![h].pos = pos] /\ UNCHANGED <<overlay, writer, got, lost>>
  BY DEF SetFilePointer
<1>2. pos \in Nat
  OBVIOUS
<1> QED
  BY <1>1, <1>2, PositionKeeps

\* A socket's object changed, and what it received.
LEMMA SocketMoved ==
    ASSUME ObjectsInv, NEW h \in OfKind("socket"), NEW recv \in Seq(Seq(Data)), NEW c \in BOOLEAN,
           handles' = [handles EXCEPT ![h] = [kind |-> "socket", recv |-> recv, connected |-> c]],
           NEW g \in Seq(Data), got' = [got EXCEPT ![h] = g],
           NEW l \in Nat, lost' = [lost EXCEPT ![h] = l],
           c => Answered(g, recv, l),
           UNCHANGED <<overlay, writer>>
    PROVE  ObjectsInv'
<1>1. PICK o : o = [kind |-> "socket", recv |-> recv, connected |-> c]
  OBVIOUS
<1>2. o \in Objects /\ o.kind = "socket" /\ o.recv = recv /\ o.connected = c
  BY <1>1 DEF Objects, Sockets
<1>3. h \in DOMAIN handles /\ handles[h].kind = "socket"
  BY DEF OfKind
<1>4. got \in Seq(Seq(Data)) /\ lost \in Seq(Nat) /\ h \in DOMAIN got /\ h \in DOMAIN lost
  BY <1>3 DEF ObjectsInv, Handed
<1>5. got' \in Seq(Seq(Data)) /\ Len(got') = Len(got) /\ got'[h] = g /\ \A i \in DOMAIN got : i # h => got'[i] = got[i]
  BY <1>4
<1>6. lost' \in Seq(Nat) /\ Len(lost') = Len(lost) /\ \A i \in DOMAIN lost : i # h => lost'[i] = lost[i]
  BY <1>4
<1>7. lost'[h] = l
  BY <1>4, Zenon
<1>8. Sound(o, got'[h], lost'[h])
  BY <1>2, <1>5, <1>7 DEF Sound
<1>9. /\ Handed' /\ EachSound' /\ OfKind("file")' = OfKind("file")
      /\ \A i \in DOMAIN handles : i # h => handles'[i] = handles[i]
  <2>1. handles' = [handles EXCEPT ![h] = o]
    BY <1>1
  <2>2. o \in Objects /\ o.kind = handles[h].kind /\ h \in DOMAIN handles
    BY <1>2, <1>3
  <2>3. OfKind("file")' = OfKind("file") /\ Handed' /\ EachSound'
        /\ \A i \in DOMAIN handles : i # h => handles'[i] = handles[i]
    BY <1>5, <1>6, <1>8, <2>1, <2>2, Changed
  <2> QED
    BY <2>3
<1> QED
  BY <1>3, <1>9, OtherMoved

\* The object of a socket, and what it received.
LEMMA SocketOf ==
    ASSUME ObjectsInv, NEW h \in OfKind("socket")
    PROVE  /\ h \in DOMAIN handles /\ handles[h] \in Sockets
           /\ handles[h] = [kind |-> "socket", recv |-> handles[h].recv, connected |-> handles[h].connected]
           /\ handles[h].recv \in Seq(Seq(Data)) /\ handles[h].connected \in BOOLEAN
           /\ got[h] \in Seq(Data) /\ lost[h] \in Nat
           /\ handles[h].connected => Answered(got[h], handles[h].recv, lost[h])
<1>1. /\ h \in DOMAIN handles /\ handles[h].kind = "socket" /\ handles[h] \in Sockets
      /\ Sound(handles[h], got[h], lost[h]) /\ got[h] \in Seq(Data) /\ lost[h] \in Nat
  BY ObjectOf DEF OfKind
<1> QED
  BY <1>1 DEF Sound, Sockets

LEMMA ConnectKeeps ==
    ASSUME ObjectsInv, NEW h \in OfKind("socket"), Connect(h)
    PROVE  ObjectsInv'
<1>1. h \in DOMAIN handles /\ handles[h] \in Sockets
  BY SocketOf
<1>2. PICK t \in BOOLEAN : t = TRUE
  OBVIOUS
<1>3. PICK l \in Nat : l = 0
  OBVIOUS
<1>7. Script \in Seq(Seq(Data))
  BY Win32Assumption
<1>4. handles' = [handles EXCEPT ![h] = [kind |-> "socket", recv |-> Script, connected |-> t]]
  <2>1. PICK f : f = handles[h]
    OBVIOUS
  <2>2. PICK e : e = [f EXCEPT !.recv = Script, !.connected = t]
    OBVIOUS
  <2>3. e = [kind |-> "socket", recv |-> Script, connected |-> t]
    <3>1. f \in Sockets
      BY <1>1, <2>1
    <3>2. e \in Sockets
      BY <1>7, <2>2, <3>1 DEF Sockets
    <3>3. e.recv = Script
      BY <2>2, <3>1 DEF Sockets
    <3>4. e.connected = t
      BY <2>2, <3>1 DEF Sockets
    <3>5. e = [kind |-> "socket", recv |-> e.recv, connected |-> e.connected]
      BY <3>2 DEF Sockets
    <3> QED
      BY <3>3, <3>4, <3>5, Zenon
  <2>4. handles' = [handles EXCEPT ![h] = [handles[h] EXCEPT !.recv = Script, !.connected = t]]
    BY <1>1, <1>2, Zenon DEF Connect
  <2> QED
    BY <2>1, <2>2, <2>3, <2>4, Zenon
<1>5. lost' = [lost EXCEPT ![h] = l]
  BY <1>3, Zenon DEF Connect
<1>6. got' = [got EXCEPT ![h] = <<>>] /\ <<>> \in Seq(Data) /\ UNCHANGED <<overlay, writer>>
  BY DEF Connect
<1>8. <<>> \o FlattenSeq(Script) = FlattenSeq(Script)
  <2>1. FlattenSeq(Script) \in Seq(Data)
    BY <1>7, FlattenHead, FlattenEmpty
  <2> QED
    BY <2>1, ConcatEmptySeq
<1>9. Answered(<<>>, Script, l)
  <2>1. FlattenSeq(Script) \in Seq(Data) /\ Len(<<>>) = 0
    BY <1>7, FlattenHead, FlattenEmpty
  <2>2. Len(<<>>) + Len(FlattenSeq(Script)) + 0 = Len(FlattenSeq(Script))
    BY <2>1
  <2> QED
    BY <1>3, <1>8, <2>2 DEF Answered
<1> QED
  BY <1>4, <1>5, <1>6, <1>7, <1>9, SocketMoved

\* What is to come of a script, whatever is taken off it, is bytes.
LEMMA Flattened == ASSUME NEW recv \in Seq(Seq(Data)) PROVE FlattenSeq(recv) \in Seq(Data)
  BY FlattenHead, FlattenEmpty

\* Bytes b leave the script, of which f is what is left: they are received, or lost.
LEMMA BooksMove ==
    ASSUME NEW g \in Seq(Data), NEW recv \in Seq(Seq(Data)), NEW rest \in Seq(Seq(Data)), NEW l \in Nat,
           NEW b \in Seq(Data), b \o FlattenSeq(rest) = FlattenSeq(recv), Answered(g, recv, l)
    PROVE  /\ g \o b \in Seq(Data) /\ Answered(g \o b, rest, l)
           /\ l + Len(b) \in Nat /\ Answered(g, rest, l + Len(b))
<1>1. PICK f \in Seq(Data) : f = FlattenSeq(rest)
  BY Flattened
<1>2. PICK whole : whole = FlattenSeq(Script)
  OBVIOUS
<1>3. /\ Len(g) + Len(b \o f) + l = Len(whole) /\ (l = 0 => g \o (b \o f) = whole)
  BY <1>1, <1>2 DEF Answered
<1>4. /\ g \o b \in Seq(Data) /\ Len(g \o b) = Len(g) + Len(b) /\ Len(b \o f) = Len(b) + Len(f)
      /\ (g \o b) \o f = g \o (b \o f)
  BY ThreeJoined, ConcatProperties
<1>5. Len(g) \in Nat /\ Len(b) \in Nat /\ Len(f) \in Nat
  OBVIOUS
<1>6. \A x, y, z, t \in Nat : /\ x + (y + z) + t = (x + y) + z + t /\ x + (y + z) + t = x + z + (t + y)
                              /\ (t + y = 0 => t = 0 /\ y = 0) /\ t + y \in Nat
  OBVIOUS
<1>7. Len(g \o b) + Len(f) + l = Len(whole) /\ Len(g) + Len(f) + (l + Len(b)) = Len(whole)
  BY <1>3, <1>4, <1>5, <1>6
<1>8. Answered(g \o b, rest, l)
  BY <1>1, <1>2, <1>3, <1>4, <1>7 DEF Answered
<1>9. l + Len(b) = 0 => g \o f = whole
  <2> SUFFICES ASSUME l + Len(b) = 0 PROVE g \o f = whole
    OBVIOUS
  <2>1. l = 0 /\ Len(b) = 0
    BY <1>5, <1>6
  <2>2. b = <<>>
    BY <2>1, EmptySeq
  <2>3. b \o f = f
    BY <2>2, ConcatEmptySeq
  <2> QED
    BY <1>3, <2>1, <2>3
<1>10. Answered(g, rest, l + Len(b))
  BY <1>1, <1>2, <1>7, <1>9 DEF Answered
<1> QED
  BY <1>4, <1>5, <1>6, <1>8, <1>10

\* Up to n bytes of the first chunk are received, or lost.
LEMMA TakenOn ==
    ASSUME NEW g \in Seq(Data), NEW recv \in Seq(Seq(Data)), recv # <<>>, NEW n \in Nat, NEW l \in Nat
    PROVE  /\ Taken(recv, n).rest \in Seq(Seq(Data))
           /\ g \o Taken(recv, n).bytes \in Seq(Data) /\ l + Len(Taken(recv, n).bytes) \in Nat
           /\ Answered(g, recv, l) => /\ Answered(g \o Taken(recv, n).bytes, Taken(recv, n).rest, l)
                                      /\ Answered(g, Taken(recv, n).rest, l + Len(Taken(recv, n).bytes))
<1>1. PICK b \in Seq(Data) : b = Taken(recv, n).bytes
  BY TakenIsCut
<1>2. PICK rest \in Seq(Seq(Data)) : rest = Taken(recv, n).rest
  BY TakenIsCut
<1>3. b \o FlattenSeq(rest) = FlattenSeq(recv)
  BY <1>1, <1>2, TakenIsCut
<1>4. g \o b \in Seq(Data) /\ l + Len(b) \in Nat
  BY ConcatProperties
<1> QED
  BY <1>1, <1>2, <1>3, <1>4, BooksMove

\* The first chunk is lost.
LEMMA HeadLost ==
    ASSUME NEW g \in Seq(Data), NEW recv \in Seq(Seq(Data)), recv # <<>>, NEW l \in Nat
    PROVE  /\ Tail(recv) \in Seq(Seq(Data)) /\ l + Len(Head(recv)) \in Nat
           /\ Answered(g, recv, l) => Answered(g, Tail(recv), l + Len(Head(recv)))
<1>1. PICK b \in Seq(Data) : b = Head(recv)
  BY HeadTailProperties
<1>2. PICK rest \in Seq(Seq(Data)) : rest = Tail(recv)
  BY HeadTailProperties
<1>3. b \o FlattenSeq(rest) = FlattenSeq(recv)
  BY <1>1, <1>2, FlattenHead
<1>4. l + Len(b) \in Nat
  OBVIOUS
<1> QED
  BY <1>1, <1>2, <1>3, <1>4, BooksMove

\* A socket's script is shorter, and its books balance again.
LEMMA SocketTook ==
    ASSUME ObjectsInv, NEW h \in OfKind("socket"), NEW r \in Seq(Seq(Data)),
           handles' = [handles EXCEPT ![h].recv = r],
           NEW g \in Seq(Data), got' = [got EXCEPT ![h] = g],
           NEW l \in Nat, lost' = [lost EXCEPT ![h] = l],
           handles[h].connected => Answered(g, r, l),
           UNCHANGED <<overlay, writer>>
    PROVE  ObjectsInv'
<1>1. PICK recv \in Seq(Seq(Data)), c \in BOOLEAN : recv = handles[h].recv /\ c = handles[h].connected
  BY SocketOf
<1>2. handles[h] = [kind |-> "socket", recv |-> recv, connected |-> c]
  BY <1>1, SocketOf
<1>3. handles' = [handles EXCEPT ![h] = [kind |-> "socket", recv |-> r, connected |-> c]]
  <2>1. PICK f : f = handles[h]
    OBVIOUS
  <2>2. [f EXCEPT !.recv = r] = [kind |-> "socket", recv |-> r, connected |-> c]
    BY <1>2, <2>1
  <2>3. handles' = [handles EXCEPT ![h] = [handles[h] EXCEPT !.recv = r]]
    BY Zenon
  <2> QED
    BY <2>1, <2>2, <2>3, Zenon
<1>4. c => Answered(g, r, l)
  BY <1>1
<1> QED
  BY <1>3, <1>4, SocketMoved

\* What a socket has: what is to come, what was received and what is lost.
LEMMA SocketBooks ==
    ASSUME ObjectsInv, NEW h \in OfKind("socket")
    PROVE  /\ handles[h].recv \in Seq(Seq(Data)) /\ got[h] \in Seq(Data) /\ lost[h] \in Nat
           /\ got = [got EXCEPT ![h] = got[h]] /\ lost = [lost EXCEPT ![h] = lost[h]]
           /\ handles[h].connected => Answered(got[h], handles[h].recv, lost[h])
<1>1. got \in Seq(Seq(Data)) /\ lost \in Seq(Nat)
  BY DEF ObjectsInv, Handed
<1>2. got = [got EXCEPT ![h] = got[h]]
  BY <1>1
<1>3. lost = [lost EXCEPT ![h] = lost[h]]
  BY <1>1
<1> QED
  BY <1>2, <1>3, SocketOf

LEMMA RecvKeeps ==
    ASSUME ObjectsInv, NEW h \in OfKind("socket"), NEW n \in Nat, Recv(h, n) \/ RecvNull(h, n)
    PROVE  ObjectsInv'
<1>1. PICK recv \in Seq(Seq(Data)), g \in Seq(Data), l \in Nat :
         /\ recv = handles[h].recv /\ g = got[h] /\ l = lost[h]
         /\ got = [got EXCEPT ![h] = g] /\ lost = [lost EXCEPT ![h] = l]
         /\ handles[h].connected => Answered(g, recv, l)
  BY SocketBooks
<1>2. PICK t : t = Taken(recv, n)
  OBVIOUS
<1>3. recv # <<>> /\ handles' = [handles EXCEPT ![h].recv = t.rest] /\ UNCHANGED <<overlay, writer>>
  BY <1>1, <1>2 DEF Recv, RecvNull
<1>4. /\ t.rest \in Seq(Seq(Data)) /\ g \o t.bytes \in Seq(Data) /\ l + Len(t.bytes) \in Nat
      /\ Answered(g, recv, l) => Answered(g \o t.bytes, t.rest, l) /\ Answered(g, t.rest, l + Len(t.bytes))
  BY <1>2, <1>3, TakenOn
<1>5. CASE Recv(h, n)
  <2>1. got' = [got EXCEPT ![h] = g \o t.bytes] /\ lost' = [lost EXCEPT ![h] = l]
    BY <1>1, <1>2, <1>5 DEF Recv
  <2> QED
    BY <1>1, <1>3, <1>4, <2>1, SocketTook
<1>6. CASE RecvNull(h, n)
  <2>1. got' = [got EXCEPT ![h] = g] /\ lost' = [lost EXCEPT ![h] = l + Len(t.bytes)]
    BY <1>1, <1>2, <1>6 DEF RecvNull
  <2> QED
    BY <1>1, <1>3, <1>4, <2>1, SocketTook
<1> QED
  BY <1>5, <1>6

LEMMA RecvFailsKeeps ==
    ASSUME ObjectsInv, NEW h \in OfKind("socket"), RecvFails(h)
    PROVE  ObjectsInv'
<1>1. PICK recv \in Seq(Seq(Data)), g \in Seq(Data), l \in Nat :
         /\ recv = handles[h].recv /\ g = got[h] /\ l = lost[h]
         /\ got = [got EXCEPT ![h] = g] /\ lost = [lost EXCEPT ![h] = l]
         /\ handles[h].connected => Answered(g, recv, l)
  BY SocketBooks
<1>2. /\ recv # <<>> /\ handles' = [handles EXCEPT ![h].recv = Tail(recv)] /\ UNCHANGED <<overlay, writer>>
      /\ got' = [got EXCEPT ![h] = g] /\ lost' = [lost EXCEPT ![h] = l + Len(Head(recv))]
  BY <1>1 DEF RecvFails
<1> QED
  BY <1>1, <1>2, HeadLost, SocketTook

LEMMA WSARecvKeeps ==
    ASSUME ObjectsInv, NEW h \in OfKind("socket"), NEW n \in Nat, NEW bad \in 0..2, WSARecv(h, n, bad)
    PROVE  ObjectsInv'
<1>1. PICK recv \in Seq(Seq(Data)), g \in Seq(Data), l \in Nat :
         /\ recv = handles[h].recv /\ g = got[h] /\ l = lost[h]
         /\ got = [got EXCEPT ![h] = g] /\ lost = [lost EXCEPT ![h] = l]
         /\ handles[h].connected => Answered(g, recv, l)
  BY SocketBooks
<1>2. PICK one : one = Taken(recv, n)
  OBVIOUS
<1>3. PICK two : two = Taken(one.rest, n)
  OBVIOUS
<1>4. recv # <<>> /\ UNCHANGED <<overlay, writer>>
  BY <1>1 DEF WSARecv
<1>9. /\ one.rest \in Seq(Seq(Data)) /\ g \o one.bytes \in Seq(Data)
      /\ Answered(g, recv, l) => Answered(g \o one.bytes, one.rest, l)
  BY <1>2, <1>4, TakenOn
<1>5. PICK r \in Seq(Seq(Data)), g1 \in Seq(Data) :
         /\ r = one.rest /\ g1 = g \o one.bytes
         /\ handles[h].connected => Answered(g1, r, l)
  BY <1>1, <1>9, Zenon
<1>6. CASE /\ handles' = [handles EXCEPT ![h].recv = Tail(recv)]
           /\ lost' = [lost EXCEPT ![h] = @ + Len(Head(recv))] /\ UNCHANGED got
  <2>1. got' = [got EXCEPT ![h] = g] /\ lost' = [lost EXCEPT ![h] = l + Len(Head(recv))]
    BY <1>1, <1>6
  <2>2. /\ Tail(recv) \in Seq(Seq(Data)) /\ l + Len(Head(recv)) \in Nat
        /\ handles[h].connected => Answered(g, Tail(recv), l + Len(Head(recv)))
    BY <1>1, <1>4, HeadLost
  <2> QED
    BY <1>4, <1>6, <2>1, <2>2, SocketTook
<1>7. CASE /\ r # <<>>
           /\ handles' = [handles EXCEPT ![h].recv = Tail(r)]
           /\ lost' = [lost EXCEPT ![h] = @ + Len(Head(r))]
           /\ got' = [got EXCEPT ![h] = @ \o one.bytes]
  <2>1. got' = [got EXCEPT ![h] = g1] /\ lost' = [lost EXCEPT ![h] = l + Len(Head(r))]
    BY <1>1, <1>5, <1>7
  <2> QED
    BY <1>4, <1>5, <1>7, <2>1, HeadLost, SocketTook
<1>8. CASE /\ r # <<>>
           /\ handles' = [handles EXCEPT ![h].recv = two.rest]
           /\ got' = [got EXCEPT ![h] = @ \o one.bytes \o two.bytes]
           /\ UNCHANGED lost
  <2>1. /\ two.rest \in Seq(Seq(Data)) /\ g1 \o two.bytes \in Seq(Data)
        /\ handles[h].connected => Answered(g1 \o two.bytes, two.rest, l)
    BY <1>3, <1>5, <1>8, TakenOn
  <2>2. got' = [got EXCEPT ![h] = g1 \o two.bytes]
    BY <1>1, <1>5, <1>8
  <2>3. lost' = [lost EXCEPT ![h] = l]
    BY <1>1, <1>8
  <2> QED
    BY <1>4, <1>8, <2>1, <2>2, <2>3, SocketTook
<1> QED
  BY <1>1, <1>2, <1>3, <1>5, <1>6, <1>7, <1>8 DEF WSARecv

LEMMA ObjectsStay == ASSUME ObjectsInv, UNCHANGED objectVars PROVE ObjectsInv'
  BY DEF objectVars, ObjectsInv, Handed, Written, EachSound, OfKind

LEMMA CallsKeepObjects ==
    ASSUME ObjectsInv, FileCalls \/ SocketCalls \/ OtherCalls
    PROVE  ObjectsInv'
<1>1. CASE FileCalls
  <2>1. CASE \E p \in Paths, truncate \in BOOLEAN : CreateFile(p, truncate)
    BY <2>1, CreateKeeps
  <2>2. ASSUME NEW h \in OfKind("file"), \E n \in 1..2 : ReadFile(h, n) PROVE ObjectsInv'
    <3>1. 1..2 \subseteq Nat
      OBVIOUS
    <3> QED
      BY <2>2, <3>1, ReadKeeps
  <2>3. ASSUME NEW h \in OfKind("file"), WriteNothing(h) \/ \E d \in Data : WriteFile(h, d) PROVE ObjectsInv'
    BY <2>3, WriteKeeps
  <2>4. ASSUME NEW h \in OfKind("file"), \E pos \in 0..2 : SetFilePointer(h, pos) PROVE ObjectsInv'
    BY <2>4, SetPositionKeeps
  <2>5. CASE \E ps \in SUBSET Paths : FindFirstFile(ps)
    BY <2>5, FindFirstKeeps
  <2>6. CASE \E h \in OfKind("find") : FindNextFile(h)
    BY <2>6, FindNextKeeps
  <2> QED
    BY <1>1, <2>1, <2>2, <2>3, <2>4, <2>5, <2>6 DEF FileCalls
<1>2. CASE SocketCalls
  <2>0. 1..2 \subseteq Nat
    OBVIOUS
  <2>1. ASSUME NEW h \in OfKind("socket"), Connect(h) PROVE ObjectsInv'
    BY <2>1, ConnectKeeps
  <2>2. ASSUME NEW h \in OfKind("socket"), NEW n \in 1..2, Recv(h, n) \/ RecvNull(h, n) PROVE ObjectsInv'
    BY <2>0, <2>2, RecvKeeps
  <2>3. ASSUME NEW h \in OfKind("socket"), NEW n \in 1..2, NEW bad \in 0..2, WSARecv(h, n, bad) PROVE ObjectsInv'
    BY <2>0, <2>3, WSARecvKeeps
  <2>4. ASSUME NEW h \in OfKind("socket"), RecvFails(h) PROVE ObjectsInv'
    BY <2>4, RecvFailsKeeps
  <2> QED
    BY <1>2, <2>1, <2>2, <2>3, <2>4, SocketKeeps DEF SocketCalls
<1>3. CASE OtherCalls
  BY <1>3, SocketKeeps, ObjectsStay DEF OtherCalls, Records, Answers
<1> QED
  BY <1>1, <1>2, <1>3

\* What the invariant says of the run's properties.
LEMMA ObjectsShown == ObjectsInv => ObjectsTypeOK /\ WritesAreSeen /\ ScriptIsDelivered
<1> SUFFICES ASSUME ObjectsInv PROVE ObjectsTypeOK /\ WritesAreSeen /\ ScriptIsDelivered
  OBVIOUS
<1>1. ObjectsTypeOK
  <2>1. ASSUME NEW p \in DOMAIN overlay PROVE p \in Paths /\ overlay[p] \in Seq(Data)
    <3>1. p \in Paths /\ VfsLookup(p) = overlay[p]
      BY DEF VfsLookup, ObjectsInv, Written
    <3> QED
      BY <3>1, Looked
  <2>2. ASSUME NEW h \in OfKind("file") PROVE handles[h].path \in Paths /\ handles[h].data \in Seq(Data)
    <3>1. handles[h] \in Files
      BY ObjectOf DEF OfKind
    <3> QED
      BY <3>1 DEF Files
  <2>3. ASSUME NEW h \in OfKind("find") PROVE handles[h].index <= Cardinality(handles[h].matches)
    BY ObjectOf DEF OfKind, Sound
  <2> QED
    BY <2>1, <2>2, <2>3 DEF ObjectsTypeOK, ObjectsInv, Handed, Written
<1>2. WritesAreSeen
  <2>1. ASSUME NEW h \in OfKind("file"), ~handles[h].wrote PROVE handles[h].data = handles[h].opened
    BY <2>1, ObjectOf DEF OfKind, Sound
  <2> QED
    BY <2>1 DEF WritesAreSeen, ObjectsInv, Written
<1>3. ScriptIsDelivered
  BY SocketOf DEF ScriptIsDelivered, Answered
<1> QED
  BY <1>1, <1>2, <1>3

-----------------------------------------------------------------------------
(* The loader.                                                             *)

\* Where an export can lead: to code of an image, nowhere, or round and round.
Places == Links \cup {Nowhere, Endless}

\* The code of the modules that are loaded.
Codes == {c \in Keys \X STRING : c[2] \in DOMAIN Exports(c[1]) /\ ~Exports(c[1])[c[2]].fwd}

LEMMA FollowLands ==
    ASSUME Keys \subseteq DOMAIN Image, NEW chain, NEW T \in SUBSET Places, Nowhere \in T,
           \A a \in Keys, m \in STRING : chain[<<a, m>>] \in T,
           NEW at \in DOMAIN Image, NEW n \in STRING,
           n \in DOMAIN Exports(at) /\ ~Exports(at)[n].fwd => <<at, n>> \in T
    PROVE  Follow(chain, at, n) \in T
<1>1. CASE n \notin DOMAIN Exports(at)
  BY <1>1 DEF Follow
<1>2. CASE n \in DOMAIN Exports(at)
  <2>1. PICK e : e = Exports(at)[n]
    OBVIOUS
  <2>2. e.fwd => e.name \in STRING
    BY <1>2, <2>1, LoaderAssumption DEF Exports
  <2>3. Follow(chain, at, n) = IF ~e.fwd THEN <<at, n>>
                               ELSE IF Dependency(e) = {} THEN Nowhere ELSE chain[<<e.dll, e.name>>]
    BY <1>2, <2>1 DEF Follow
  <2>4. CASE ~e.fwd
    BY <1>2, <2>1, <2>3, <2>4
  <2>5. CASE e.fwd /\ Dependency(e) = {}
    BY <2>3, <2>5
  <2>6. CASE e.fwd /\ Dependency(e) # {}
    <3>1. e.dll \in Keys
      BY <2>6 DEF Dependency
    <3> QED
      BY <2>2, <2>3, <2>6, <3>1
  <2> QED
    BY <2>4, <2>5, <2>6
<1> QED
  BY <1>1, <1>2

LEMMA FuelIsThere == Fuel \in Nat \ {0}
  BY LoaderAssumption, FS_CardinalityType DEF Fuel, Exports

\* The chains are what their definition says.
LEMMA ChainIs ==
    ASSUME Keys \subseteq DOMAIN Image
    PROVE  \A j \in 0..Fuel : \A at \in DOMAIN Image, n \in STRING :
              Chain[j][<<at, n>>] = IF j = 0 THEN Endless ELSE Follow(Chain[j - 1], at, n)
<1> DEFINE S == [Links -> Places]
           s0 == [x \in Links |-> Endless]
           next(s) == [x \in Links |-> Follow(s, x[1], x[2])]
           F == [q \in S \X (1..Fuel) |-> next(q[1])]
           body(g) == [j \in 0..Fuel |->
                        [x \in Links |->
                            IF j = 0 THEN Endless ELSE Follow(g[j - 1], x[1], x[2])]]
<1>0. \A x \in Links : x[1] \in DOMAIN Image /\ x[2] \in STRING /\ x = <<x[1], x[2]>>
  BY DEF Links
<1>1. s0 \in S
  BY DEF Places
<1>2. ASSUME NEW s \in S PROVE next(s) \in S
  <2>1. ASSUME NEW at \in DOMAIN Image, NEW n \in STRING PROVE Follow(s, at, n) \in Places
    <3>1. Nowhere \in Places /\ <<at, n>> \in Places
      BY DEF Places, Links
    <3>2. \A a \in Keys, m \in STRING : s[<<a, m>>] \in Places
      BY DEF Links
    <3> QED
      BY <3>1, <3>2, FollowLands
  <2> QED
    BY <1>0, <2>1
<1>3. \A j \in 1..Fuel : \A s \in S : F[<<s, j>>] = next(s)
  BY DEF F
<1>4. Fuel \in Nat
  BY FuelIsThere
<1> HIDE DEF S, s0, next, F
<1>5. PICK g \in [0..Fuel -> S] : Recursive(g, s0, Fuel, F)
  <2>1. \A j \in 1..Fuel : \A s \in S : F[<<s, j>>] \in S
    BY <1>2, <1>3
  <2> QED
    BY <1>1, <1>4, <2>1, RecursionExists
<1>6. g = [j \in 0..Fuel |-> IF j = 0 THEN s0 ELSE next(g[j - 1])]
  <2>1. g = [j \in 0..Fuel |-> IF j = 0 THEN s0 ELSE F[<<g[j - 1], j>>]]
    BY <1>5 DEF Recursive
  <2>2. \A j \in 0..Fuel : j # 0 => j \in 1..Fuel /\ g[j - 1] \in S
    BY <1>4, <1>5
  <2>3. \A j \in 0..Fuel : j # 0 => F[<<g[j - 1], j>>] = next(g[j - 1])
    BY <1>3, <2>2
  <2> QED
    BY <2>1, <2>3
<1>7. g = body(g)
  <2>1. ASSUME NEW j \in 0..Fuel
        PROVE  (IF j = 0 THEN s0 ELSE next(g[j - 1]))
                 = [x \in Links |-> IF j = 0 THEN Endless ELSE Follow(g[j - 1], x[1], x[2])]
    <3>1. CASE j = 0
      BY <3>1 DEF s0
    <3>2. CASE j # 0
      BY <3>2 DEF next
    <3> QED
      BY <3>1, <3>2
  <2> HIDE DEF s0, next
  <2> QED
    BY <1>6, <2>1
<1>8. Chain = body(Chain)
  <2>1. Chain = CHOOSE h : h = body(h)
    BY DEF Chain
  <2> HIDE DEF body
  <2> QED
    BY <1>7, <2>1
<1>9. ASSUME NEW j \in 0..Fuel, NEW at \in DOMAIN Image, NEW n \in STRING
      PROVE  Chain[j][<<at, n>>] = IF j = 0 THEN Endless ELSE Follow(Chain[j - 1], at, n)
  <2>1. PICK c : c = Chain
    OBVIOUS
  <2>2. <<at, n>> \in Links /\ <<at, n>>[1] = at /\ <<at, n>>[2] = n
    BY DEF Links
  <2>3. c[j] = [x \in Links |-> IF j = 0 THEN Endless ELSE Follow(c[j - 1], x[1], x[2])]
    BY <1>8, <2>1
  <2>4. c[j][<<at, n>>] = IF j = 0 THEN Endless ELSE Follow(c[j - 1], at, n)
    BY <2>2, <2>3
  <2> QED
    BY <2>1, <2>4
<1> QED
  BY <1>9

\* From a module that is loaded an export leads to code of a loaded module, if it leads anywhere.
LEMMA Resolves ==
    ASSUME Keys \subseteq DOMAIN Image, NEW d \in Keys, NEW n \in STRING
    PROVE  /\ ResolveExport(d, n) \in Codes \cup {Nowhere, Endless}
           /\ n \in DOMAIN Exports(d) /\ ~Exports(d)[n].fwd => ResolveExport(d, n) = <<d, n>>
<1>1. Fuel \in Nat \ {0}
  BY FuelIsThere
<1>2. \A j \in 0..Fuel : \A at \in DOMAIN Image, m \in STRING :
              Chain[j][<<at, m>>] = IF j = 0 THEN Endless ELSE Follow(Chain[j - 1], at, m)
  BY ChainIs
<1> DEFINE T == Codes \cup {Nowhere, Endless}
           Good == {j \in Nat : j <= Fuel => \A at \in Keys, m \in STRING : Chain[j][<<at, m>>] \in T}
<1>3. 0 \in Good
  <2>1. 0 \in 0..Fuel
    BY <1>1
  <2> QED
    BY <1>2, <2>1
<1>4. ASSUME NEW j \in Nat, j \in Good PROVE j + 1 \in Good
  <2> SUFFICES ASSUME j + 1 <= Fuel PROVE \A at \in Keys, m \in STRING : Chain[j + 1][<<at, m>>] \in T
    BY j + 1 \in Nat
  <2> TAKE at \in Keys, m \in STRING
  <2>1. j + 1 \in 0..Fuel /\ j + 1 # 0 /\ (j + 1) - 1 = j /\ j <= Fuel
    BY <1>1
  <2>2. Chain[j + 1][<<at, m>>] = Follow(Chain[j], at, m)
    BY <1>2, <2>1
  <2>3. \A a \in Keys, q \in STRING : Chain[j][<<a, q>>] \in T
    BY <1>4, <2>1
  <2>4. T \in SUBSET Places /\ Nowhere \in T
    BY DEF Places, Codes, Links
  <2>5. m \in DOMAIN Exports(at) /\ ~Exports(at)[m].fwd => <<at, m>> \in T
    BY DEF Codes
  <2> HIDE DEF T
  <2> QED
    BY <2>2, <2>3, <2>4, <2>5, FollowLands
<1>5. Fuel \in Good
  <2> HIDE DEF Good
  <2> QED
    BY <1>1, <1>3, <1>4, SetInduction
<1>6. ResolveExport(d, n) \in T
  <2>1. Fuel <= Fuel
    BY <1>1
  <2>2. Chain[Fuel][<<d, n>>] \in T
    BY <1>5, <2>1
  <2> QED
    BY <2>2 DEF ResolveExport
<1>7. ASSUME n \in DOMAIN Exports(d), ~Exports(d)[n].fwd PROVE ResolveExport(d, n) = <<d, n>>
  <2>1. Fuel \in 0..Fuel /\ Fuel # 0
    BY <1>1
  <2>2. ResolveExport(d, n) = Follow(Chain[Fuel - 1], d, n)
    BY <1>2, <2>1 DEF ResolveExport
  <2> QED
    BY <1>7, <2>2 DEF Follow
<1> QED
  BY <1>6, <1>7

\* An import that is bound leads to code that is loaded, or to the thunk of its name.
LEMMA Binds ==
    ASSUME Keys \subseteq DOMAIN Image, NEW imp, imp = <<imp[1], imp[2]>>, imp[2] \in STRING,
           NEW to, to = CombinedResolve(imp), to # Endless
    PROVE  /\ to \in Codes \cup {<<Thunk, imp[2]>>}
           /\ imp[1] \in Keys /\ imp[2] \in DOMAIN Exports(imp[1]) /\ ~Exports(imp[1])[imp[2]].fwd
                 => to = imp
<1>1. CASE imp[1] \notin Keys
  BY <1>1 DEF CombinedResolve
<1>2. CASE imp[1] \in Keys
  <2>1. PICK real : real = ResolveExport(imp[1], imp[2])
    OBVIOUS
  <2>2. /\ real \in Codes \cup {Nowhere, Endless}
        /\ imp[2] \in DOMAIN Exports(imp[1]) /\ ~Exports(imp[1])[imp[2]].fwd => real = <<imp[1], imp[2]>>
    BY <1>2, <2>1, Resolves
  <2>3. to = IF real = Nowhere THEN <<Thunk, imp[2]>> ELSE real
    BY <1>2, <2>1 DEF CombinedResolve
  <2>4. imp[1] # "none"
    BY <1>2, LoaderAssumption
  <2>5. <<imp[1], imp[2]>> # Nowhere
    BY <2>4 DEF Nowhere
  <2> QED
    BY <2>2, <2>3, <2>5
<1> QED
  BY <1>1, <1>2
Regions == [base : Nat, size : Nat]
Bindings == UNION {[Image[d].imports -> (DOMAIN Image \cup {Thunk}) \X STRING] : d \in DOMAIN Image}
Modules == [key : DOMAIN Image, base : Nat, size : Nat, bound : Bindings]

\* The next image is mapped above all that were.
LoaderInv ==
    /\ main \in Regions /\ modules \in Seq(Modules) /\ mapped \in Seq(Regions)
    /\ LoaderTypeOK
    /\ ModulesApart /\ ImportsBound
    /\ ModuleBaseStart <= nextBase
    /\ \A j \in DOMAIN mapped :
          mapped[j].base + mapped[j].size <= nextBase /\ FirstBase <= mapped[j].base

\* Numbers the loader starts from.
LEMMA Bases == ModuleBaseStart \in Nat /\ FirstBase \in Nat /\ ModuleBaseStart <= FirstBase
  BY DEF ModuleBaseStart, FirstBase, Aligned

LEMMA LoaderInitially ==
    ASSUME NEW region \in Regions, LoaderInit(region)
    PROVE  LoaderInv
<1>0. main \in Regions /\ ModuleBaseStart \in Nat
  BY Bases DEF LoaderInit
<1>1. /\ modules = <<>> /\ mapped = <<>> /\ nextBase = ModuleBaseStart /\ synthetic = 0 /\ ldr = <<Main>>
      /\ MaxLoads \in Nat
  BY LoaderAssumption DEF LoaderInit
<1>2. DOMAIN modules = {} /\ DOMAIN mapped = {}
  BY <1>1
<1>3. LoaderTypeOK
  <2>1. <<Main>> \o [j \in DOMAIN modules |-> modules[j].key] = <<Main>>
    <3>1. [j \in DOMAIN modules |-> modules[j].key] = <<>>
      BY <1>2
    <3>2. <<Main>> \in Seq({Main})
      OBVIOUS
    <3> QED
      BY <3>1, <3>2, ConcatEmptySeq
  <2> QED
    BY <1>0, <1>1, <1>2, <2>1 DEF LoaderTypeOK
<1>4. ModulesApart /\ ImportsBound
  BY <1>2 DEF ModulesApart, ImportsBound
<1>5. modules \in Seq(Modules) /\ mapped \in Seq(Regions)
  BY <1>1
<1>6. ModuleBaseStart <= nextBase
  BY <1>0, <1>1
<1> QED
  BY <1>0, <1>2, <1>3, <1>4, <1>5, <1>6 DEF LoaderInv

LEMMA LoaderAnew ==
    ASSUME LoaderInv, LoaderRestart
    PROVE  LoaderInv'
<1>0. main' \in Regions /\ ModuleBaseStart \in Nat
  BY Bases DEF LoaderInv, LoaderRestart
<1>1. /\ modules' = <<>> /\ mapped' = <<>> /\ nextBase' = ModuleBaseStart /\ synthetic' = 0
      /\ ldr' = <<Main>> /\ MaxLoads \in Nat
  BY LoaderAssumption DEF LoaderRestart
<1>2. DOMAIN modules' = {} /\ DOMAIN mapped' = {}
  BY <1>1
<1>3. LoaderTypeOK'
  <2>1. <<Main>> \o [j \in DOMAIN modules' |-> modules'[j].key] = <<Main>>
    <3>1. [j \in DOMAIN modules' |-> modules'[j].key] = <<>>
      BY <1>2
    <3>2. <<Main>> \in Seq({Main})
      OBVIOUS
    <3> QED
      BY <3>1, <3>2, ConcatEmptySeq
  <2> QED
    BY <1>0, <1>1, <1>2, <2>1 DEF LoaderTypeOK
<1>4. ModulesApart' /\ ImportsBound'
  BY <1>2 DEF ModulesApart, ImportsBound
<1>5. modules' \in Seq(Modules) /\ mapped' \in Seq(Regions)
  BY <1>1
<1>6. ModuleBaseStart <= nextBase'
  BY <1>0, <1>1
<1> QED
  BY <1>0, <1>2, <1>3, <1>4, <1>5, <1>6 DEF LoaderInv

\* Another region above those there are.
LEMMA RegionAdded ==
    ASSUME LoaderInv, NEW base \in Nat, NEW size \in Nat, nextBase <= base, FirstBase <= base,
           nextBase' = base + size + 256, mapped' = Append(mapped, [base |-> base, size |-> size])
    PROVE  /\ mapped' \in Seq(Regions) /\ nextBase' \in Nat /\ ModuleBaseStart <= nextBase'
           /\ [base |-> base, size |-> size] \in ToSet(mapped') /\ ToSet(mapped) \subseteq ToSet(mapped')
           /\ \A j \in DOMAIN mapped' :
                 mapped'[j].base + mapped'[j].size <= nextBase' /\ FirstBase <= mapped'[j].base
           /\ \A i, j \in DOMAIN mapped' : i < j => mapped'[i].base + mapped'[i].size <= mapped'[j].base
<1>1. PICK r \in Regions : r = [base |-> base, size |-> size]
  BY DEF Regions
<1>2. PICK n \in Nat : n = Len(mapped)
  BY DEF LoaderInv
<1>3. mapped \in Seq(Regions) /\ DOMAIN mapped = 1..n /\ mapped' = Append(mapped, r) /\ nextBase \in Nat
  BY <1>1, <1>2 DEF LoaderInv, LoaderTypeOK
<1>4. /\ mapped' \in Seq(Regions) /\ DOMAIN mapped' = 1..(n + 1) /\ mapped'[n + 1] = r
      /\ \A j \in 1..n : mapped'[j] = mapped[j]
  BY <1>2, <1>3, AppendProperties
<1>5. \A j \in 1..n : /\ mapped[j].base \in Nat /\ mapped[j].size \in Nat
                     /\ mapped[j].base + mapped[j].size <= nextBase /\ FirstBase <= mapped[j].base
  <2>1. \A j \in 1..n : mapped[j] \in Regions
    BY <1>2, <1>3
  <2> QED
    BY <1>3, <2>1 DEF Regions, LoaderInv
<1>6. r.base = base /\ r.size = size
  BY <1>1
<1>7. ASSUME NEW j \in 1..(n + 1)
      PROVE  /\ mapped'[j].base + mapped'[j].size <= nextBase'
             /\ FirstBase <= mapped'[j].base
             /\ \A i \in 1..(n + 1) : i < j => mapped'[i].base + mapped'[i].size <= mapped'[j].base
  <2>1. CASE j = n + 1
    <3>1. mapped'[j].base = base /\ mapped'[j].size = size
      BY <2>1, <1>4, <1>6
    <3>2. ASSUME NEW i \in 1..(n + 1), i < j PROVE mapped'[i].base + mapped'[i].size <= base
      <4>1. i \in 1..n
        BY <2>1, <3>2
      <4>2. mapped'[i] = mapped[i] /\ mapped[i].base + mapped[i].size <= nextBase
            /\ mapped[i].base \in Nat /\ mapped[i].size \in Nat
        BY <4>1, <1>4, <1>5
      <4> QED
        BY <4>2, <1>3
    <3>3. base + size <= nextBase'
      OBVIOUS
    <3> QED
      BY <3>1, <3>2, <3>3
  <2>2. CASE j # n + 1
    <3>1. j \in 1..n /\ \A i \in 1..(n + 1) : i < j => i \in 1..n
      BY <2>2
    <3>2. mapped'[j] = mapped[j] /\ mapped[j].base + mapped[j].size <= nextBase
          /\ mapped[j].base \in Nat /\ mapped[j].size \in Nat /\ FirstBase <= mapped[j].base
      BY <3>1, <1>4, <1>5
    <3>3. \A i \in 1..n : i < j => mapped[i].base + mapped[i].size <= mapped[j].base
      BY <3>1, <1>3 DEF LoaderInv, ModulesApart
    <3>4. \A i \in 1..n : mapped'[i] = mapped[i]
      BY <1>4
    <3> QED
      BY <3>1, <3>2, <3>3, <3>4, <1>3
  <2> QED
    BY <2>1, <2>2
<1>8. r \in ToSet(mapped') /\ ToSet(mapped) \subseteq ToSet(mapped')
  <2>1. n + 1 \in DOMAIN mapped'
    BY <1>4
  <2> QED
    BY <1>3, <1>4, <2>1 DEF ToSet
<1>9. ModuleBaseStart <= nextBase'
  BY <1>3, Bases DEF LoaderInv
<1> QED
  BY <1>1, <1>3, <1>4, <1>7, <1>8, <1>9

\* ModulesApart's last conjunct: a sample that ends below the first image is below them all.
SampleBelow ==
    main.base + main.size <= FirstBase =>
        \A j \in DOMAIN mapped : main.base + main.size <= mapped[j].base

LEMMA RegionsSit ==
    ASSUME main' \in Regions, mapped' \in Seq(Regions),
           \A j \in DOMAIN mapped' :
              mapped'[j].base + mapped'[j].size <= nextBase' /\ FirstBase <= mapped'[j].base
    PROVE  SampleBelow'
<1>1. PICK top \in Nat : top = main'.base + main'.size
  BY DEF Regions
<1>2. \A j \in DOMAIN mapped' : mapped'[j].base \in Nat /\ FirstBase <= mapped'[j].base
  <2>1. \A j \in DOMAIN mapped' : mapped'[j] \in Regions
    OBVIOUS
  <2> QED
    BY <2>1 DEF Regions
<1>3. \A a, b, c \in Nat : a <= b /\ b <= c => a <= c
  OBVIOUS
<1>4. top <= FirstBase => \A j \in DOMAIN mapped' : top <= mapped'[j].base
  BY <1>2, <1>3, Bases
<1> QED
  BY <1>1, <1>4 DEF SampleBelow, FirstBase

\* Another module on the list.
LEMMA ModuleAdded ==
    ASSUME LoaderInv, NEW m \in Modules, m.key \notin Keys,
           modules' = Append(modules, m), ldr' = Append(ldr, m.key), synthetic' = synthetic,
           main' = main, mapped' \in Seq(Regions), nextBase' \in Nat, ModuleBaseStart <= nextBase',
           [base |-> m.base, size |-> m.size] \in ToSet(mapped'), ToSet(mapped) \subseteq ToSet(mapped'),
           \A j \in DOMAIN mapped' :
              mapped'[j].base + mapped'[j].size <= nextBase' /\ FirstBase <= mapped'[j].base,
           \A i, j \in DOMAIN mapped' : i < j => mapped'[i].base + mapped'[i].size <= mapped'[j].base,
           \A imp \in DOMAIN m.bound :
              /\ m.bound[imp] \in Codes \cup {<<Thunk, imp[2]>>}
              /\ imp[1] \in Keys /\ imp[2] \in DOMAIN Exports(imp[1]) /\ ~Exports(imp[1])[imp[2]].fwd
                    => m.bound[imp] = imp
    PROVE  LoaderInv'
<1>1. PICK n \in Nat : n = Len(modules)
  BY DEF LoaderInv
<1>2. modules \in Seq(Modules) /\ DOMAIN modules = 1..n /\ LoaderTypeOK
  BY <1>1 DEF LoaderInv
<1>3. /\ modules' \in Seq(Modules) /\ DOMAIN modules' = 1..(n + 1) /\ modules'[n + 1] = m
      /\ \A j \in 1..n : modules'[j] = modules[j]
  BY <1>1, <1>2, AppendProperties
<1>4. \A j \in 1..(n + 1) : j # n + 1 => j \in 1..n
  OBVIOUS
<1>5. \A j \in 1..n : modules[j] \in Modules /\ modules[j].key \in Keys
  <2>1. \A j \in 1..n : modules[j] \in Modules
    BY <1>2
  <2>2. \A j \in DOMAIN modules : modules[j].key \in Keys
    BY DEF Keys
  <2> QED
    BY <1>2, <2>1, <2>2
<1>6. m.key \in DOMAIN Image /\ \A j \in 1..n : modules[j].key \in DOMAIN Image
  BY <1>5 DEF Modules
<1>7. ldr' = <<Main>> \o [j \in DOMAIN modules' |-> modules'[j].key]
  <2> DEFINE T == DOMAIN Image \cup {Main}
  <2>1. PICK K : K = [j \in 1..n |-> modules[j].key]
    OBVIOUS
  <2>2. K \in Seq(T) /\ Len(K) = n
    BY <1>6, <2>1
  <2>3. Append(K, m.key) = [j \in 1..(n + 1) |-> modules'[j].key]
    <3>1. /\ Append(K, m.key) \in Seq(T) /\ Len(Append(K, m.key)) = n + 1
          /\ Append(K, m.key)[n + 1] = m.key /\ \A j \in 1..n : Append(K, m.key)[j] = K[j]
      <4>1. m.key \in T
        BY <1>6
      <4> HIDE DEF T
      <4> QED
        BY <2>2, <4>1, AppendProperties
    <3>2. \A j \in 1..(n + 1) : Append(K, m.key)[j] = modules'[j].key
      BY <1>3, <1>4, <2>1, <3>1
    <3>3. Append(K, m.key) = [j \in 1..(n + 1) |-> Append(K, m.key)[j]]
      BY <3>1
    <3> QED
      BY <3>2, <3>3
  <2>4. ldr = <<Main>> \o K
    BY <1>2, <2>1 DEF LoaderTypeOK
  <2>5. Append(<<Main>> \o K, m.key) = <<Main>> \o Append(K, m.key)
    <3>1. <<Main>> \in Seq(T) /\ m.key \in T
      BY <1>6
    <3> HIDE DEF T
    <3>2. /\ Append(<<Main>> \o K, m.key) = (<<Main>> \o K) \o <<m.key>>
          /\ Append(K, m.key) = K \o <<m.key>>
      <4>1. <<Main>> \o K \in Seq(T)
        BY <2>2, <3>1, ConcatProperties
      <4>2. \A q \in Seq(T) : Append(q, m.key) = q \o <<m.key>>
        BY <3>1, AppendIsConcat
      <4> QED
        BY <2>2, <4>1, <4>2
    <3>3. (<<Main>> \o K) \o <<m.key>> = <<Main>> \o (K \o <<m.key>>)
      <4>1. <<m.key>> \in Seq(T)
        BY <3>1
      <4> QED
        BY <2>2, <3>1, <4>1, ConcatAssociative
    <3> QED
      BY <3>2, <3>3
  <2> QED
    BY <1>3, <2>3, <2>4, <2>5
<1>8. LoaderTypeOK'
  <2>1. \A j \in 1..(n + 1) : modules'[j].key \in DOMAIN Image
    BY <1>3, <1>4, <1>6
  <2>2. \A i, j \in 1..(n + 1) : i # j => modules'[i].key # modules'[j].key
    <3>1. \A i, j \in 1..n : i # j => modules[i].key # modules[j].key
      BY <1>2 DEF LoaderTypeOK
    <3> QED
      BY <1>3, <1>4, <1>5, <3>1
  <2> QED
    BY <1>2, <1>3, <1>7, <2>1, <2>2 DEF LoaderTypeOK
<1>9. ModulesApart'
  <2>1. \A j \in 1..n : [base |-> modules[j].base, size |-> modules[j].size] \in ToSet(mapped)
    BY <1>2 DEF LoaderInv, ModulesApart
  <2>2. ASSUME NEW j \in 1..(n + 1)
        PROVE  [base |-> modules'[j].base, size |-> modules'[j].size] \in ToSet(mapped')
    BY <1>3, <1>4, <2>1
  <2>3. SampleBelow'
    <3>1. main' \in Regions
      BY DEF LoaderInv
    <3> QED
      BY <3>1, RegionsSit
  <2> QED
    BY <1>3, <2>2, <2>3 DEF ModulesApart, SampleBelow
<1>10. ImportsBound'
  <2>1. ASSUME NEW j \in 1..(n + 1), NEW imp \in DOMAIN modules'[j].bound
        PROVE  LET to == modules'[j].bound[imp]
                   before == {modules'[i].key : i \in 1..(j - 1)}
                   exported == imp[1] \in before /\ imp[2] \in DOMAIN Exports(imp[1])
               IN  /\ to[1] \in before \cup {Thunk}
                   /\ to[1] = Thunk => to[2] = imp[2]
                   /\ to[1] # Thunk => ~Exports(to[1])[to[2]].fwd
                   /\ exported /\ ~Exports(imp[1])[imp[2]].fwd => to = imp
    <3>1. CASE j = n + 1
      <4>1. {modules'[i].key : i \in 1..(j - 1)} = Keys
        <5>1. j - 1 = n
          BY <3>1
        <5>2. {modules'[i].key : i \in 1..n} = {modules[i].key : i \in 1..n}
          BY <1>3
        <5>3. Keys = {modules[i].key : i \in 1..n}
          BY <1>2 DEF Keys
        <5> QED
          BY <5>1, <5>2, <5>3
      <4>2. modules'[j] = m
        BY <1>3, <3>1
      <4>3. PICK to : to = m.bound[imp]
        OBVIOUS
      <4>4. \A c \in Codes : c[1] \in Keys /\ c[1] # Thunk /\ ~Exports(c[1])[c[2]].fwd
        <5>1. Thunk \notin DOMAIN Image
          BY LoaderAssumption
        <5>2. Thunk \notin Keys
          BY <1>2, <1>6, <5>1 DEF Keys
        <5> QED
          BY <5>2 DEF Codes
      <4>5. /\ to \in Codes \cup {<<Thunk, imp[2]>>}
            /\ imp[1] \in Keys /\ imp[2] \in DOMAIN Exports(imp[1]) /\ ~Exports(imp[1])[imp[2]].fwd
                  => to = imp
        BY <2>1, <4>2, <4>3
      <4>6. /\ to[1] \in Keys \cup {Thunk}
            /\ to[1] = Thunk => to[2] = imp[2]
            /\ to[1] # Thunk => ~Exports(to[1])[to[2]].fwd
        BY <4>4, <4>5
      <4> QED
        BY <4>1, <4>2, <4>3, <4>5, <4>6
    <3>2. CASE j # n + 1
      <4>1. j \in 1..n /\ modules'[j] = modules[j] /\ \A i \in 1..(j - 1) : modules'[i] = modules[i]
        BY <1>3, <3>2
      <4>2. {modules'[i].key : i \in 1..(j - 1)} = {modules[i].key : i \in 1..(j - 1)}
        BY <4>1
      <4>3. PICK B : B = {modules[i].key : i \in 1..(j - 1)}
        OBVIOUS
      <4>4. PICK to : to = modules[j].bound[imp]
        OBVIOUS
      <4>5. /\ to[1] \in B \cup {Thunk}
            /\ to[1] = Thunk => to[2] = imp[2]
            /\ to[1] # Thunk => ~Exports(to[1])[to[2]].fwd
            /\ imp[1] \in B /\ imp[2] \in DOMAIN Exports(imp[1]) /\ ~Exports(imp[1])[imp[2]].fwd => to = imp
        <5>1. imp \in DOMAIN modules[j].bound
          BY <2>1, <4>1
        <5>2. ImportsBound /\ j \in DOMAIN modules
          BY <1>2, <4>1 DEF LoaderInv
        <5> QED
          BY <4>3, <4>4, <5>1, <5>2 DEF ImportsBound
      <4>6. modules'[j].bound[imp] = to /\ {modules'[i].key : i \in 1..(j - 1)} = B
        BY <4>1, <4>2, <4>3, <4>4
      <4> QED
        BY <4>5, <4>6
    <3> QED
      BY <3>1, <3>2
  <2> QED
    BY <1>3, <2>1 DEF ImportsBound
<1> QED
  BY <1>3, <1>8, <1>9, <1>10 DEF LoaderInv
LEMMA LoaderStays ==
    ASSUME LoaderInv, UNCHANGED <<main, modules, mapped, nextBase, ldr>>, synthetic' \in 0..MaxLoads
    PROVE  LoaderInv'
  BY DEF LoaderInv, LoaderTypeOK, ModulesApart, ImportsBound

LEMMA LoadKeeps ==
    ASSUME LoaderInv, NEW d \in Dlls, DoLoad(d)
    PROVE  LoaderInv'
<1>1. synthetic \in 0..MaxLoads /\ MaxLoads \in Nat /\ nextBase \in Nat
  BY LoaderAssumption DEF LoaderInv, LoaderTypeOK
<1>2. CASE UNCHANGED loaderVars
  BY <1>1, <1>2, LoaderStays DEF loaderVars
<1>3. CASE synthetic < MaxLoads /\ synthetic' = synthetic + 1 /\ UNCHANGED <<main, modules, mapped, nextBase, ldr>>
  <2>1. synthetic' \in 0..MaxLoads
    BY <1>1, <1>3
  <2> QED
    BY <1>3, <2>1, LoaderStays
<1>4. CASE d \in (DOMAIN Image) \ Keys /\ LoadImage(d)
  <2>1. PICK img : img = Image[d]
    OBVIOUS
  <2>2. /\ img.size \in Nat
        /\ \A imp \in img.imports : imp = <<imp[1], imp[2]>> /\ imp[2] \in STRING
    BY <1>4, <2>1, LoaderAssumption
  <2>3. PICK base \in Nat : base = Aligned(nextBase) /\ nextBase <= base /\ FirstBase <= base
    <3>1. PICK b \in Nat : b = nextBase
      BY <1>1
    <3>2. \A a, c \in Nat : a <= c => 16 * ((a + 255) \div 16) <= 16 * ((c + 255) \div 16)
      OBVIOUS
    <3>3. \A a \in Nat : 16 * ((a + 255) \div 16) \in Nat /\ a <= 16 * ((a + 255) \div 16)
      OBVIOUS
    <3>4. ModuleBaseStart <= b /\ ModuleBaseStart \in Nat
      BY <3>1, Bases DEF LoaderInv
    <3>5. FirstBase <= Aligned(b)
      BY <3>2, <3>4 DEF FirstBase, Aligned
    <3>6. Aligned(b) \in Nat /\ b <= Aligned(b)
      BY <3>3 DEF Aligned
    <3> QED
      BY <3>1, <3>5, <3>6
  <2>4. PICK bound : bound = [imp \in img.imports |-> CombinedResolve(imp)]
    OBVIOUS
  <2>5. PICK throws \in BOOLEAN : throws <=> (img.broken = "map" \/ \E imp \in img.imports : bound[imp] = Endless)
    OBVIOUS
  <2>6. synthetic' = synthetic /\ main' = main
    BY <1>4 DEF LoadImage
  <2>7. CASE img.broken = "parse" /\ UNCHANGED <<modules, mapped, nextBase, ldr>>
    BY <1>1, <2>6, <2>7, LoaderStays
  <2>8. CASE /\ nextBase' = NextBase(base, img.size)
             /\ mapped' = Append(mapped, [base |-> base, size |-> img.size])
             /\ IF throws THEN UNCHANGED <<modules, ldr>>
                ELSE /\ modules' = Append(modules, [key |-> d, base |-> base, size |-> img.size, bound |-> bound])
                     /\ ldr' = Append(ldr, d)
    <3>1. nextBase' = base + img.size + 256
      BY <2>8 DEF NextBase
    <3>2. /\ mapped' \in Seq(Regions) /\ nextBase' \in Nat /\ ModuleBaseStart <= nextBase'
          /\ [base |-> base, size |-> img.size] \in ToSet(mapped') /\ ToSet(mapped) \subseteq ToSet(mapped')
          /\ \A j \in DOMAIN mapped' :
                mapped'[j].base + mapped'[j].size <= nextBase' /\ FirstBase <= mapped'[j].base
          /\ \A i, j \in DOMAIN mapped' : i < j => mapped'[i].base + mapped'[i].size <= mapped'[j].base
      BY <2>2, <2>3, <2>8, <3>1, RegionAdded
    <3>3. CASE throws
      <4>1. UNCHANGED <<main, modules, ldr, synthetic>>
        BY <2>6, <2>8, <3>3
      <4>2. LoaderTypeOK' /\ ImportsBound'
        BY <3>2, <4>1 DEF LoaderInv, LoaderTypeOK, ImportsBound
      <4>3. ModulesApart'
        <5>1. main' \in Regions
          BY <4>1 DEF LoaderInv
        <5>2. SampleBelow'
          BY <3>2, <5>1, RegionsSit
        <5>3. \A j \in DOMAIN modules' :
                 [base |-> modules'[j].base, size |-> modules'[j].size] \in ToSet(mapped')
          BY <3>2, <4>1 DEF LoaderInv, ModulesApart
        <5> QED
          BY <3>2, <5>2, <5>3 DEF ModulesApart, SampleBelow
      <4> QED
        BY <3>2, <4>1, <4>2, <4>3 DEF LoaderInv
    <3>4. CASE ~throws
      <4>1. PICK m : m = [key |-> d, base |-> base, size |-> img.size, bound |-> bound]
        OBVIOUS
      <4>2. m.key = d /\ m.base = base /\ m.size = img.size /\ m.bound = bound
        BY <4>1
      <4>3. modules' = Append(modules, m) /\ ldr' = Append(ldr, m.key)
        BY <2>8, <3>4, <4>1
      <4>4. Keys \subseteq DOMAIN Image
        BY DEF LoaderInv, LoaderTypeOK, Keys
      <4>5. ASSUME NEW imp \in img.imports
            PROVE  /\ bound[imp] \in Codes \cup {<<Thunk, imp[2]>>}
                   /\ imp[1] \in Keys /\ imp[2] \in DOMAIN Exports(imp[1]) /\ ~Exports(imp[1])[imp[2]].fwd
                         => bound[imp] = imp
        <5>1. PICK to : to = bound[imp]
          OBVIOUS
        <5>2. to = CombinedResolve(imp) /\ to # Endless
          BY <2>4, <2>5, <3>4, <5>1
        <5> QED
          BY <2>2, <4>4, <5>1, <5>2, Binds
      <4>6. DOMAIN bound = img.imports
        BY <2>4
      <4>7. bound \in [img.imports -> (DOMAIN Image \cup {Thunk}) \X STRING]
        <5>1. ASSUME NEW imp \in img.imports PROVE bound[imp] \in (DOMAIN Image \cup {Thunk}) \X STRING
          <6>1. bound[imp] \in Codes \cup {<<Thunk, imp[2]>>} /\ imp[2] \in STRING
            BY <2>2, <4>5
          <6> QED
            BY <4>4, <6>1 DEF Codes
        <5>2. bound = [imp \in img.imports |-> bound[imp]]
          BY <2>4
        <5> QED
          BY <5>1, <5>2
      <4>8. m \in Modules
        <5>1. bound \in Bindings
          BY <1>4, <2>1, <4>7 DEF Bindings
        <5> QED
          BY <1>4, <2>2, <4>1, <5>1 DEF Modules
      <4>9. m.key \notin Keys
        BY <1>4, <4>2
      <4>10. \A imp \in DOMAIN m.bound :
                /\ m.bound[imp] \in Codes \cup {<<Thunk, imp[2]>>}
                /\ imp[1] \in Keys /\ imp[2] \in DOMAIN Exports(imp[1]) /\ ~Exports(imp[1])[imp[2]].fwd
                      => m.bound[imp] = imp
        BY <4>2, <4>5, <4>6
      <4>11. [base |-> m.base, size |-> m.size] \in ToSet(mapped')
        BY <3>2, <4>2
      <4> QED
        BY <2>6, <3>2, <4>3, <4>8, <4>9, <4>10, <4>11, ModuleAdded
    <3> QED
      BY <3>3, <3>4
  <2> QED
    <3>1. base = Aligned(nextBase)
      BY <2>3
    <3>2. \/ img.broken = "parse" /\ UNCHANGED <<modules, mapped, nextBase, ldr>>
          \/ /\ nextBase' = NextBase(base, img.size)
             /\ mapped' = Append(mapped, [base |-> base, size |-> img.size])
             /\ IF throws THEN UNCHANGED <<modules, ldr>>
                ELSE /\ modules' = Append(modules, [key |-> d, base |-> base, size |-> img.size, bound |-> bound])
                     /\ ldr' = Append(ldr, d)
      BY <1>4, <2>1, <2>4, <2>5, <3>1 DEF LoadImage
    <3> QED
      BY <2>7, <2>8, <3>2
<1> QED
  BY <1>2, <1>3, <1>4 DEF DoLoad

-----------------------------------------------------------------------------
(* The harness.                                                            *)

PeInv == RunInv /\ ObjectsInv /\ LoaderInv

LEMMA PeInitially == Init => PeInv
<1> SUFFICES ASSUME Init PROVE PeInv
  OBVIOUS
<1>1. [base |-> sample.base, size |-> sample.size] \in Regions
  BY PeAssumption DEF Init, Regions
<1>2. LoaderInv
  BY <1>1, LoaderInitially DEF Init
<1> QED
  BY <1>2, RunInitially, ObjectsInitially DEF Init, PeInv

LEMMA WorldStays ==
    ASSUME ObjectsInv, LoaderInv, UNCHANGED <<objectVars, loaderVars>>
    PROVE  ObjectsInv' /\ LoaderInv'
<1>1. ObjectsInv'
  BY ObjectsStay
<1>2. UNCHANGED <<main, modules, mapped, nextBase, ldr, synthetic>> /\ synthetic \in 0..MaxLoads
  BY DEF loaderVars, LoaderInv, LoaderTypeOK
<1>3. LoaderInv'
  BY <1>2, LoaderStays
<1> QED
  BY <1>1, <1>3

LEMMA PeStep == PeInv /\ [Next]_vars => PeInv'
<1> SUFFICES ASSUME PeInv, [Next]_vars PROVE PeInv'
  OBVIOUS
<1>1. RunInv'
  BY RunStep DEF PeInv
<1>2. ObjectsInv /\ LoaderInv
  BY DEF PeInv
<1>3. ObjectsInv' /\ LoaderInv'
  <2>1. CASE UNCHANGED <<objectVars, loaderVars>>
    BY <1>2, <2>1, WorldStays
  <2>2. CASE ObjectsRestart /\ LoaderRestart
    BY <1>2, <2>2, ObjectsAnew, LoaderAnew
  <2>3. CASE UNCHANGED objectVars /\ \E d \in Dlls : DoLoad(d)
    BY <1>2, <2>3, ObjectsStay, LoadKeeps
  <2>4. CASE UNCHANGED loaderVars /\ (FileCalls \/ SocketCalls \/ OtherCalls)
    <3>1. UNCHANGED <<main, modules, mapped, nextBase, ldr, synthetic>> /\ synthetic \in 0..MaxLoads
      BY <1>2, <2>4 DEF loaderVars, LoaderInv, LoaderTypeOK
    <3>2. LoaderInv'
      BY <1>2, <3>1, LoaderStays
    <3> QED
      BY <1>2, <2>4, <3>2, CallsKeepObjects
  <2>5. \/ UNCHANGED <<objectVars, loaderVars>>
        \/ ObjectsRestart /\ LoaderRestart
        \/ UNCHANGED objectVars /\ \E d \in Dlls : DoLoad(d)
        \/ UNCHANGED loaderVars /\ (FileCalls \/ SocketCalls \/ OtherCalls)
    <3>1. CASE UNCHANGED vars
      BY <3>1 DEF vars, worldVars
    <3>2. CASE \E d \in Dlls : Preload(d)
      BY <3>2 DEF Preload
    <3>3. CASE LoadError \/ Starts
      BY <3>3 DEF LoadError, Starts, StartEntry, StartAttach, StartNothing, StartExport, StartDetach, worldVars
    <3>4. CASE GuestCall
      BY <3>4 DEF GuestCall
    <3>5. CASE Exits \/ Faults \/ Resumes
      BY <3>5 DEF Exits, Faults, Resumes, worldVars
    <3>6. CASE CallEnds \/ AttachReported \/ NoDetach
      BY <3>6 DEF CallEnds, AttachEnds, BodyEnds, DetachEnds, AttachReported, NoDetach, worldVars
    <3>7. CASE Retry
      BY <3>7 DEF Retry, Restart
    <3>8. CASE NextRun
      BY <3>8 DEF NextRun, Restart, worldVars
    <3> QED
      BY <3>1, <3>2, <3>3, <3>4, <3>5, <3>6, <3>7, <3>8 DEF Next, Over
  <2> QED
    BY <2>1, <2>2, <2>3, <2>4, <2>5
<1> QED
  BY <1>1, <1>3 DEF PeInv

\* The invariant holds of every analysis: the run is where its summaries say, the loader has
\* its modules apart and bound, every image above the first image's address, and the files
\* and sockets are what was done to them, whatever buffers the guest passes.
THEOREM Invariance == Spec => []PeInv
<1>1. Init => PeInv
  BY PeInitially
<1>2. PeInv /\ [Next]_vars => PeInv'
  BY PeStep
<1> QED
  BY <1>1, <1>2, PTL DEF Spec

\* The state is of its types throughout, and there is a first attempt's summary just while
\* the hybrid backend runs (runUserlandPe).
THEOREM TypeCorrect == Spec => []TypeOK
<1>1. PeInv => TypeOK
  <2> SUFFICES ASSUME PeInv PROVE TypeOK
    OBVIOUS
  <2>1. ObjectsTypeOK /\ LoaderTypeOK
    BY ObjectsShown DEF PeInv, LoaderInv
  <2>2. /\ k \in 1..(Len(Specs) + 1)
        /\ phase \in {"load", "attach", "attached", "body", "ran", "detach", "report", "over"}
        /\ seh \in {"no", "run", "used"}
        /\ result \in Failures \cup {None, "ok", "halted", "forwarder", "load-error"}
    BY DEF PeInv, RunInv, Standing, Phases, Results, Outcomes
  <2>3. first # None <=> backend = "hybrid"
    <3>1. backend \in {"js", "hybrid"} /\ (backend = "js" => first = None)
          /\ (backend = "hybrid" => first \in Refused)
      BY DEF PeInv, RunInv, Standing, Course
    <3> QED
      BY <3>1, PeAssumption
  <2> QED
    BY <2>1, <2>2, <2>3 DEF TypeOK
<1> QED
  BY <1>1, Invariance, PTL

\* However many handles are open on a file and whatever the guest reads, writes and lists in
\* between, a file holds what it was last written, a handle that did not write what the file
\* held when it was opened.  Of a connection's script, what was received, what is to come and
\* what was taken off the queue without reaching the guest, in a recv into NULL, into memory
\* that cannot be written, or after WSARecv's first buffer failed, are all of it; where
\* nothing was lost like that the guest is given the script in its order (win32.mjs).
THEOREM DataAlwaysKept == Spec => []DataIsKept
<1>1. PeInv => DataIsKept
  BY ObjectsShown DEF PeInv, DataIsKept
<1> QED
  BY <1>1, Invariance, PTL

\* For all samples and options the summaries are those of the specs, in their order, each of
\* its own run; and for all images, forwarders and failed loads the images are apart and
\* their imports bound to code that was loaded before.  The sample is apart from them where
\* it ends at or below 0x1800f0000; of a sample above that nothing is said, for an image can
\* be mapped over it (index.mjs, loader.mjs).
THEOREM RunsAlwaysSound == Spec => []RunsSound
<1>1. PeInv => RunsSound
  BY DEF PeInv, RunInv, Listed, LoaderInv, RunsSound, ModulesSound
<1> QED
  BY <1>1, Invariance, PTL

\* Once the sample has ended its process none of its code is called in that world: not its
\* export after a DllMain that exits, nor DllMain again after an export that does.
THEOREM NoCodeOnceOver == Spec => NoCodeAfterExit
<1>1. PeInv /\ [Next]_vars => [exited /\ phase' # phase => phase' \notin {"attach", "body", "detach"}]_vars
  <2> SUFFICES ASSUME PeInv, Next, exited, phase' # phase
               PROVE  phase' \notin {"attach", "body", "detach"}
    BY DEF vars, controlVars
  <2>1. phase # "load" /\ (phase = "attached" => attached # None)
    BY DEF PeInv, RunInv, Course, Phased
  <2>2. CASE Starts
    BY <2>1, <2>2 DEF Starts, StartEntry, StartAttach, StartNothing, StartExport, StartDetach, Calls,
           AttachFailed, Detaches
  <2>3. CASE LoadError \/ \E d \in Dlls : Preload(d)
    BY <2>1, <2>3 DEF LoadError, Preload
  <2>4. CASE GuestCall \/ Exits \/ Faults \/ Resumes
    BY <2>4 DEF GuestCall, Exits, Faults, Resumes, controlVars
  <2>5. CASE CallEnds \/ AttachReported \/ NoDetach
    BY <2>5 DEF CallEnds, AttachEnds, BodyEnds, DetachEnds, AttachReported, NoDetach
  <2>6. CASE Retry \/ NextRun
    BY <2>6 DEF Retry, NextRun, Restart
  <2>7. CASE Over
    BY <2>7 DEF Over, vars, controlVars
  <2> QED
    BY <2>2, <2>3, <2>4, <2>5, <2>6, <2>7 DEF Next
<1> QED
  BY <1>1, Invariance, PTL DEF Spec, NoCodeAfterExit
=============================================================================
