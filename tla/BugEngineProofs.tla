--------------------------- MODULE BugEngineProofs ---------------------------
(***************************************************************************)
(* What the bug campaigns of both analyzers promise, proved for all        *)
(* inputs, seeds, bugs, blocks and budgets: every run is of its own input  *)
(* alone, and no bug that a run raised is lost.  The invariant has two     *)
(* parts, each inductive: what the kernel is between and in the runs, and  *)
(* where the bugs are that have been raised.                               *)
(*                                                                         *)
(* And what the processor promises that raises these bugs, BugTaint, for   *)
(* all registers, addresses and orders of its hooks: the taint is of the   *)
(* input that runs.  The campaigns and the processor share no state.       *)
(***************************************************************************)
EXTENDS LinuxBugCampaign, BugTaint, SequenceTheorems, FiniteSetTheorems, WellFoundedInduction, TLAPS

Pcs == {"start", "seed", "loop", "concolic", "recheck", "seedrun", "childrun", "rerun", "done"}
Cpcs == {"idle", "next", "seedrun", "flip", "confirm", "answered"}
EngineStates == [regs : Values, rest : Values]

\* Whether the symbolic engine is installed, and whether driver code runs.
Borrowed == cpc \in {"next", "seedrun", "flip", "confirm"}
InRun == Running \/ cpc \in {"seedrun", "confirm"}

\* A kernel on which driver code may have run: its logs only grew.
Touched(k) ==
    /\ k \in [mem : Values, log : Seq(Values), dead : BOOLEAN, queue : BOOLEAN, cpu : Engines,
              engine : [Engines -> EngineStates]]
    /\ Len(k.log) \in 1..MaxLog /\ k.log[1] = "own"

Clean(k) == k.mem = "own" /\ k.log = <<"own">> /\ ~k.dead

\* The snapshots of a clean kernel, whatever its engine.
CleanSnaps == [mem : {"own"}, logLen : {1}, dead : {FALSE}, engine : EngineStates]

\* What the kernel is, in and between the runs.
Isolated ==
    /\ pc \in Pcs /\ cpc \in Cpcs /\ (cpc # "idle" => pc = "concolic")
    /\ Touched(kernel) /\ (~InRun => Clean(kernel))
    /\ Running => snap \in CleanSnaps
    /\ cpc \in {"seedrun", "confirm"} => csnap \in CleanSnaps
    /\ impls = IF pc \in {"start", "done"} THEN "own" ELSE "wrapped"
    /\ alloc = IF Running THEN "bug" ELSE IF cpc = "seedrun" THEN "concolic" ELSE "own"
    /\ pc \in {"start", "done"} => kernel.cpu = "real" /\ kernel.engine["real"].regs = "own"
    /\ pc \notin {"start", "done"} =>
          /\ first \in CleanSnaps /\ first.engine.regs = "own"
          /\ kernel.cpu = IF Borrowed THEN "concolic" ELSE "bug"
    /\ Borrowed => under = "bug"

\* What a campaign nested in this one works on.
CEntry == [buf : Inputs, cov : SUBSET Blocks]
Trackers == [enabled : BOOLEAN, blocks : SUBSET Blocks]

Nested ==
    /\ under \in Engines \cup {None}
    /\ ctracker \in Trackers
    /\ cqueue \in Seq(Inputs) /\ visited \subseteq Inputs
    /\ seed \in Inputs \cup {None} /\ witness \in Inputs \cup {None}
    /\ cpc = "confirm" => witness \in Inputs
    /\ flips \in 0..MaxBranches
    /\ queries \in 0..MaxQueries
    /\ ccorpus \in Seq(CEntry)
    /\ cseen \subseteq Blocks

\* What this campaign works on: in a run there is an input, and from a child's run to the
\* end of its iteration there is that child.
Runs == [by : Inputs, bugs : SUBSET Bugs]

Shape ==
    /\ tracker \in Trackers
    /\ next \in 0..SeedCount
    /\ input \in Inputs \cup {None} /\ (Running => input \in Inputs)
    /\ raised \subseteq Bugs /\ (~Running => raised = {})
    /\ child \in CEntry \cup {None} /\ (pc \in {"concolic", "recheck", "rerun"} => child \in CEntry)
    /\ found \in Seq(Runs)
    /\ recheck \in Seq(Inputs)
    /\ corpus \in Seq(CEntry)
    /\ seen \subseteq Blocks
    /\ hits \in [Blocks -> Nat]
    /\ iters \in 0..Iterations

\* What the stubs answer; and in a Linux campaign nothing is symbolic, so that the nested
\* campaign answers with the child it was given.
Stubbed ==
    /\ system \in {"nt", "linux"}
    /\ system = "nt" => policy = "default" /\ ~crashed
    /\ system = "linux" /\ Running => policy = input /\ saved = "default"
    /\ ~Running => policy = "default"
    /\ saved \in Inputs \cup {"default", None}
    /\ faulted \in BOOLEAN /\ symbolic \in BOOLEAN /\ crashed \in BOOLEAN
    /\ system = "linux" => /\ ~symbolic /\ flips = 0 /\ cpc # "confirm"
                          /\ (cpc # "idle" => ccorpus = <<child>>)
                          /\ recheck = <<>> /\ pc # "rerun"

ReportedKeys == {r.key : r \in reported}
FoundKeys == UNION {found[i].bugs : i \in DOMAIN found}

\* Where the bugs are: in the database, or among those the runs of this iteration raised,
\* of which the child is the witness.
Files == [key : Bugs, by : Inputs, witness : Inputs]

Accounted ==
    /\ db \in SUBSET Files
    /\ pc \notin {"concolic", "recheck", "rerun"} => child = None /\ found = <<>>
    /\ Keys(db) \cup FoundKeys = ReportedKeys
    /\ \A r \in db : [key |-> r.key, by |-> r.by, from |-> r.witness] \in reported
    /\ \A q, r \in db : q.key = r.key => q = r
    /\ \A i \in DOMAIN found : \A k \in found[i].bugs :
          [key |-> k, by |-> found[i].by, from |-> child.buf] \in reported
    /\ crashed => NullDeref \in raised \cup ReportedKeys

-----------------------------------------------------------------------------
(* Snapshots.                                                              *)

LEMMA CaptureClean ==
    ASSUME NEW k, Touched(k), Clean(k)
    PROVE  Capture(k) \in CleanSnaps /\ Capture(k).engine = k.engine[k.cpu]
<1>1. k.engine[k.cpu] \in EngineStates /\ k.mem = "own" /\ k.dead = FALSE
  BY DEF Touched, Clean
<1>2. Len(k.log) = 1
  <2>1. k.log = <<"own">> /\ Len(<<"own">>) = 1
    BY DEF Clean
  <2> QED
    BY <2>1
<1> QED
  BY <1>1, <1>2 DEF Capture, CleanSnaps

\* Whatever driver code did, restoreSnapshot brings back all but the queue and the engines
\* that are not installed.
LEMMA RestoreClean ==
    ASSUME NEW k, Touched(k), NEW s \in CleanSnaps
    PROVE  LET r == Restore(k, s) IN
           /\ Touched(r) /\ Clean(r) /\ r.cpu = k.cpu
           /\ r.engine[k.cpu] = s.engine
           /\ \A e \in Engines \ {k.cpu} : r.engine[e] = k.engine[e]
<1>1. k.log \in Seq(Values) /\ Len(k.log) \in 1..MaxLog /\ k.log[1] = "own" /\ MaxLog \in Nat \ {0}
  BY ConcolicAssumption DEF Touched
<1>2. SubSeq(k.log, 1, 1) = <<"own">>
  <2>1. /\ SubSeq(k.log, 1, 1) \in Seq(Values)
        /\ Len(SubSeq(k.log, 1, 1)) = 1
        /\ SubSeq(k.log, 1, 1)[1] = "own"
    BY <1>1
  <2>2. <<"own">> \in Seq(Values) /\ Len(<<"own">>) = 1 /\ <<"own">>[1] = "own"
    BY DEF Values
  <2>3. \A i \in 1..1 : SubSeq(k.log, 1, 1)[i] = <<"own">>[i]
    BY <2>1, <2>2
  <2> QED
    BY <2>1, <2>2, <2>3, SeqEqual
<1>3. s.mem = "own" /\ s.logLen = 1 /\ s.dead = FALSE /\ s.engine \in EngineStates
  BY DEF CleanSnaps
<1>4. k.queue \in BOOLEAN /\ k.cpu \in Engines /\ k.engine \in [Engines -> EngineStates]
  BY DEF Touched
<1>5. PICK e : e = [k.engine EXCEPT ![k.cpu] = s.engine]
  OBVIOUS
<1>6. /\ e \in [Engines -> EngineStates] /\ e[k.cpu] = s.engine
      /\ \A x \in Engines \ {k.cpu} : e[x] = k.engine[x]
  BY <1>3, <1>4, <1>5
<1>7. PICK l : l = <<"own">>
  OBVIOUS
<1>8. l \in Seq(Values) /\ Len(l) = 1 /\ l[1] = "own"
  BY <1>7 DEF Values
<1>9. Restore(k, s) = [mem |-> "own", log |-> l, dead |-> FALSE, queue |-> k.queue, cpu |-> k.cpu, engine |-> e]
  BY <1>2, <1>3, <1>5, <1>7 DEF Restore
<1>10. PICK r : r = Restore(k, s)
  OBVIOUS
<1>11. /\ r = [mem |-> r.mem, log |-> r.log, dead |-> r.dead, queue |-> r.queue, cpu |-> r.cpu, engine |-> r.engine]
       /\ r.mem = "own" /\ r.log = l /\ r.dead = FALSE /\ r.queue = k.queue /\ r.cpu = k.cpu /\ r.engine = e
  BY <1>9, <1>10
<1>12. Touched(r)
  <2>1. "own" \in Values
    BY DEF Values
  <2>2. r \in [mem : Values, log : Seq(Values), dead : BOOLEAN, queue : BOOLEAN, cpu : Engines,
               engine : [Engines -> EngineStates]]
    BY <2>1, <1>4, <1>6, <1>8, <1>11
  <2>3. Len(r.log) \in 1..MaxLog /\ r.log[1] = "own"
    <3>1. Len(r.log) = 1 /\ r.log[1] = "own"
      BY <1>8, <1>11
    <3>2. 1 \in 1..MaxLog
      BY <1>1
    <3> QED
      BY <3>1, <3>2
  <2> QED
    BY <2>2, <2>3 DEF Touched
<1>13. Clean(r)
  BY <1>7, <1>11 DEF Clean
<1> QED
  BY <1>6, <1>10, <1>11, <1>12, <1>13

\* Driver code touches nothing else of the kernel.
LEMMA RanTouched ==
    ASSUME NEW k, Touched(k), NEW l \in DriverRan(k, MaxLog)
    PROVE  Touched(l) /\ l.cpu = k.cpu
<1>1. PICK e : e = [k.engine EXCEPT ![k.cpu] = [regs |-> "run", rest |-> "run"]]
  OBVIOUS
<1>2. /\ l.mem = "run" /\ l.cpu = k.cpu /\ l.engine = e
      /\ l.dead \in {k.dead, TRUE} /\ l.queue \in {k.queue, TRUE}
      /\ l.log = k.log \/ (l.log = Append(k.log, "run") /\ Len(l.log) <= MaxLog)
      /\ l = [mem |-> l.mem, log |-> l.log, dead |-> l.dead, queue |-> l.queue,
              cpu |-> l.cpu, engine |-> l.engine]
  BY <1>1 DEF DriverRan
<1>3. k.log \in Seq(Values) /\ Len(k.log) \in 1..MaxLog /\ k.log[1] = "own" /\ "run" \in Values /\ MaxLog \in Nat \ {0}
  BY ConcolicAssumption DEF Touched, Values
<1>4. l.log \in Seq(Values) /\ Len(l.log) \in 1..MaxLog /\ l.log[1] = "own"
  <2>1. CASE l.log = k.log
    BY <2>1, <1>3
  <2>2. CASE l.log = Append(k.log, "run") /\ Len(l.log) <= MaxLog
    BY <2>2, <1>3
  <2> QED
    BY <2>1, <2>2, <1>2
<1>5. e \in [Engines -> EngineStates]
  BY <1>1 DEF Touched, EngineStates, Values
<1>6. l.dead \in BOOLEAN /\ l.queue \in BOOLEAN /\ l.cpu \in Engines /\ l.mem \in Values
  BY <1>2 DEF Touched, Values
<1> QED
  BY <1>2, <1>4, <1>5, <1>6 DEF Touched

\* Another engine is installed.
LEMMA CpuTouched ==
    ASSUME NEW k, Touched(k), NEW c \in Engines
    PROVE  LET r == [k EXCEPT !.cpu = c] IN
           Touched(r) /\ r.cpu = c /\ (Clean(k) => Clean(r)) /\ r.engine = k.engine
<1>1. PICK r : r = [k EXCEPT !.cpu = c]
  OBVIOUS
<1>2. /\ r.cpu = c /\ r.mem = k.mem /\ r.log = k.log /\ r.dead = k.dead
      /\ r \in [mem : Values, log : Seq(Values), dead : BOOLEAN, queue : BOOLEAN, cpu : Engines,
                engine : [Engines -> EngineStates]]
      /\ r.engine = k.engine
  BY <1>1 DEF Touched
<1> QED
  BY <1>1, <1>2 DEF Touched, Clean

-----------------------------------------------------------------------------
(* The kernel in and between the runs.                                     *)

\* Every step of either system is one of the driver campaign, or a fault.
LEMMA StepsAreShared == ASSUME LinuxNext PROVE RunFaults \/ (Next /\ crashed' = crashed)
  BY DEF LinuxNext, NtStep, LinuxTakeOver, LinuxStartSeed, LinuxEndSeed, LinuxSeedsDone, LinuxStartChild,
         LinuxEndChild, LinuxCallConcolic, LinuxConcolic, LinuxTakeAnswer, LinuxFileChild, LinuxGiveBack,
         LinuxBlock, Next, lvars, NoRun, RunBegins, RunIsOver

LEMMA IsolatedInitially == LinuxInit => Isolated
<1> SUFFICES ASSUME LinuxInit PROVE Isolated
  OBVIOUS
<1>1. /\ kernel = [FreshKernel(Engines, "real", FALSE) EXCEPT
                    !.engine["bug"] = [regs |-> "fresh", rest |-> "fresh"],
                    !.engine["concolic"] = [regs |-> "fresh", rest |-> "fresh"]]
      /\ pc = "start" /\ cpc = "idle" /\ impls = "own" /\ alloc = "own"
  BY DEF LinuxInit, Init, ConcolicInit
<1>2. PICK l : l = <<"own">>
  OBVIOUS
<1>3. l \in Seq(Values) /\ Len(l) = 1 /\ l[1] = "own"
  BY <1>2 DEF Values
<1>4. /\ kernel \in [mem : Values, log : Seq(Values), dead : BOOLEAN, queue : BOOLEAN, cpu : Engines,
                     engine : [Engines -> EngineStates]]
      /\ kernel.mem = "own" /\ kernel.log = l /\ ~kernel.dead /\ kernel.cpu = "real"
      /\ kernel.engine["real"].regs = "own"
  BY <1>1, <1>2, <1>3 DEF FreshKernel, Engines, EngineStates, Values
<1>5. Touched(kernel) /\ Clean(kernel)
  BY <1>2, <1>3, <1>4, ConcolicAssumption DEF Touched, Clean
<1> QED
  BY <1>1, <1>4, <1>5 DEF Isolated, Pcs, Cpcs, InRun, Running, Borrowed

\* A run starts on a clean kernel and takes its snapshot.
LEMMA BeginIsolated ==
    ASSUME Isolated, NEW buf, BeginRun(buf), pc \in {"seed", "loop", "recheck"}, cpc = "idle",
           pc' \in {"seedrun", "childrun", "rerun"}
    PROVE  Isolated'
<1>1. Clean(kernel) /\ Touched(kernel)
  BY DEF Isolated, InRun, Running
<1>2. snap' \in CleanSnaps
  BY <1>1, CaptureClean DEF BeginRun
<1> QED
  BY <1>1, <1>2 DEF BeginRun, Isolated, InRun, Running, Borrowed, Pcs, cvars

LEMMA EndIsolated ==
    ASSUME Isolated, EndRun, Running, pc' \in {"seed", "recheck", "concolic"}
    PROVE  Isolated'
<1>1. cpc = "idle"
  BY DEF Isolated, Running
<1>2. Touched(kernel) /\ snap \in CleanSnaps
  BY DEF Isolated
<1>3. Touched(kernel') /\ Clean(kernel') /\ kernel'.cpu = kernel.cpu
  BY <1>2, RestoreClean DEF EndRun
<1> QED
  BY <1>1, <1>3 DEF EndRun, Isolated, InRun, Running, Borrowed, Pcs, cvars

\* The campaign works on its tables: no part of the kernel changes.
LEMMA TablesIsolated ==
    ASSUME Isolated, UNCHANGED <<kernel, alloc, cvars, impls, first, snap>>, ~InRun, cpc = "idle",
           pc' \in Pcs, ~Running', pc \in {"start", "done"} <=> pc' \in {"start", "done"}
    PROVE  Isolated'
  BY DEF Isolated, InRun, Running, Borrowed, Pcs, cvars

LEMMA TakeOverIsolated == ASSUME Isolated, TakeOver PROVE Isolated'
<1> DEFINE x == [regs |-> kernel.engine["real"].regs, rest |-> "fresh"]
<1>1. /\ Touched(kernel) /\ Clean(kernel) /\ kernel.engine["real"].regs = "own" /\ cpc = "idle"
  BY DEF TakeOver, Isolated, InRun, Running
<1>2. x \in EngineStates /\ x.regs = "own" /\ "bug" \in Engines
  BY <1>1 DEF EngineStates, Values, Engines
<1>3. /\ kernel' = [kernel EXCEPT !.cpu = "bug", !.engine["bug"] = x]
      /\ first' = Capture(kernel')
  BY DEF TakeOver
<1> HIDE DEF x
<1>4. Touched(kernel') /\ kernel'.cpu = "bug" /\ Clean(kernel') /\ kernel'.engine["bug"] = x
  <2>1. /\ kernel'.cpu = "bug" /\ kernel'.mem = kernel.mem /\ kernel'.log = kernel.log
        /\ kernel'.dead = kernel.dead /\ kernel'.engine["bug"] = x
        /\ kernel' \in [mem : Values, log : Seq(Values), dead : BOOLEAN, queue : BOOLEAN, cpu : Engines,
                        engine : [Engines -> EngineStates]]
    BY <1>1, <1>2, <1>3 DEF Touched
  <2> QED
    BY <1>1, <2>1 DEF Touched, Clean
<1>5. first' \in CleanSnaps /\ first'.engine = x
  BY <1>3, <1>4, CaptureClean
<1> QED
  BY <1>1, <1>2, <1>4, <1>5 DEF TakeOver, Isolated, InRun, Running, Borrowed, Pcs, cvars

LEMMA GiveBackIsolated == ASSUME Isolated, GiveBack PROVE Isolated'
<1> DEFINE k == [kernel EXCEPT !.cpu = "real"]
<1>1. Touched(kernel) /\ Clean(kernel) /\ cpc = "idle" /\ first \in CleanSnaps /\ first.engine.regs = "own"
  BY DEF GiveBack, Isolated, InRun, Running
<1>2. "real" \in Engines /\ kernel' = Restore(k, first)
  BY DEF GiveBack, Engines
<1>3. Touched(k) /\ k.cpu = "real"
  BY <1>1, <1>2, CpuTouched
<1> HIDE DEF k
<1>4. Touched(kernel') /\ Clean(kernel') /\ kernel'.cpu = "real" /\ kernel'.engine["real"] = first.engine
  BY <1>1, <1>2, <1>3, RestoreClean
<1> QED
  BY <1>1, <1>4 DEF GiveBack, Isolated, InRun, Running, Borrowed, Pcs, cvars

LEMMA BlockIsolated == ASSUME Isolated, RunBlock PROVE Isolated'
<1>1. cpc = "idle" /\ Touched(kernel) /\ pc' = pc
  BY DEF RunBlock, Isolated
<1>2. Touched(kernel') /\ kernel'.cpu = kernel.cpu
  BY <1>1, RanTouched DEF RunBlock
<1> QED
  BY <1>1, <1>2 DEF RunBlock, Isolated, InRun, Running, Borrowed, Pcs, cvars

LEMMA CallIsolated == ASSUME Isolated, CallConcolic PROVE Isolated'
<1> DEFINE x == SymbolicEngine(kernel)
<1>1. Touched(kernel) /\ Clean(kernel) /\ cpc = "idle" /\ pc = "concolic" /\ kernel.cpu = "bug"
  BY DEF CallConcolic, ConcolicStart, Isolated, InRun, Running, Borrowed
<1>2. x \in EngineStates /\ "concolic" \in Engines
  BY <1>1 DEF SymbolicEngine, EngineStates, Values, Engines
<1>3. /\ kernel' = [kernel EXCEPT !.cpu = "concolic", !.engine["concolic"] = x]
      /\ cpc' = "next" /\ under' = "bug" /\ alloc' = alloc
  BY <1>1 DEF CallConcolic, ConcolicStart
<1> HIDE DEF x
<1>4. Touched(kernel') /\ kernel'.cpu = "concolic" /\ Clean(kernel')
  <2>1. /\ kernel'.cpu = "concolic" /\ kernel'.mem = kernel.mem /\ kernel'.log = kernel.log
        /\ kernel'.dead = kernel.dead /\ kernel'.engine["concolic"] = x
        /\ kernel' \in [mem : Values, log : Seq(Values), dead : BOOLEAN, queue : BOOLEAN, cpu : Engines,
                        engine : [Engines -> EngineStates]]
    BY <1>1, <1>2, <1>3 DEF Touched
  <2> QED
    BY <1>1, <2>1 DEF Touched, Clean
<1> QED
  BY <1>1, <1>3, <1>4 DEF CallConcolic, Isolated, InRun, Running, Borrowed, Cpcs, bvars

LEMMA ConcolicIsolated == ASSUME Isolated, ConcolicNext, UNCHANGED bvars PROVE Isolated'
<1>1. pc' = pc /\ impls' = impls /\ first' = first /\ snap' = snap
  BY DEF bvars
<1>2. Touched(kernel)
  BY DEF Isolated
<1>3. CASE ExploreNext
  <2>1. Clean(kernel) /\ ~Running /\ pc = "concolic"
    BY <1>3 DEF ExploreNext, Isolated, InRun, Running
  <2>2. csnap' \in CleanSnaps
    BY <1>2, <1>3, <2>1, CaptureClean DEF ExploreNext
  <2> QED
    BY <1>1, <1>2, <1>3, <2>1, <2>2 DEF ExploreNext, Isolated, InRun, Running, Borrowed, Cpcs
<1>4. CASE ConcolicBlock
  <2>1. Touched(kernel') /\ kernel'.cpu = kernel.cpu
    BY <1>2, <1>4, RanTouched DEF ConcolicBlock
  <2> QED
    BY <1>1, <1>4, <2>1 DEF ConcolicBlock, Isolated, InRun, Running, Borrowed, Cpcs
<1>5. CASE Explored
  <2>1. csnap \in CleanSnaps /\ pc = "concolic" /\ cpc' \in {"next", "flip"}
    BY <1>5 DEF Explored, Isolated
  <2>2. Touched(kernel') /\ Clean(kernel') /\ kernel'.cpu = kernel.cpu
    BY <1>2, <1>5, <2>1, RestoreClean DEF Explored
  <2> QED
    BY <1>1, <1>5, <2>1, <2>2 DEF Explored, Isolated, InRun, Running, Borrowed, Cpcs
<1>6. CASE Flip
  <2>1. Clean(kernel) /\ ~Running /\ pc = "concolic"
    BY <1>6 DEF Flip, Isolated, InRun, Running
  <2>2. cpc' = "flip" \/ (cpc' = "confirm" /\ csnap' = Capture(kernel))
    BY <1>6 DEF Flip
  <2>3. cpc' = "confirm" => csnap' \in CleanSnaps
    BY <1>2, <2>1, <2>2, CaptureClean
  <2> QED
    BY <1>1, <1>2, <1>6, <2>1, <2>2, <2>3 DEF Flip, Isolated, InRun, Running, Borrowed, Cpcs
<1>7. CASE Confirmed
  <2>1. csnap \in CleanSnaps /\ pc = "concolic" /\ cpc' = "flip"
    BY <1>7 DEF Confirmed, Isolated
  <2>2. Touched(kernel') /\ Clean(kernel') /\ kernel'.cpu = kernel.cpu
    BY <1>2, <1>7, <2>1, RestoreClean DEF Confirmed
  <2> QED
    BY <1>1, <1>7, <2>1, <2>2 DEF Confirmed, Isolated, InRun, Running, Borrowed, Cpcs
<1>8. CASE FlipsDone
  BY <1>1, <1>2, <1>8 DEF FlipsDone, Isolated, InRun, Running, Borrowed, Cpcs
<1>9. CASE ConcolicEnd
  <2>1. Clean(kernel) /\ under = "bug" /\ pc = "concolic"
    BY <1>9 DEF ConcolicEnd, Isolated, InRun, Running, Borrowed
  <2>2. "bug" \in Engines /\ kernel' = [kernel EXCEPT !.cpu = "bug"]
    BY <1>9, <2>1 DEF ConcolicEnd, Replaced, Engines
  <2>3. Touched(kernel') /\ Clean(kernel') /\ kernel'.cpu = "bug"
    BY <1>2, <2>1, <2>2, CpuTouched
  <2> QED
    BY <1>1, <1>9, <2>1, <2>3 DEF ConcolicEnd, Isolated, InRun, Running, Borrowed, Cpcs
<1> QED
  BY <1>3, <1>4, <1>5, <1>6, <1>7, <1>8, <1>9 DEF ConcolicNext

LEMMA IsolatedNext == Isolated /\ [LinuxNext]_allVars => Isolated'
<1> SUFFICES ASSUME Isolated, [LinuxNext]_allVars PROVE Isolated'
  OBVIOUS
<1>1. CASE StartSeed \/ StartChild \/ StartRecheck
  <2>1. /\ pc \in {"seed", "loop", "recheck"} /\ pc' \in {"seedrun", "childrun", "rerun"}
        /\ \E buf : BeginRun(buf)
    BY <1>1 DEF StartSeed, StartChild, StartRecheck
  <2> QED
    BY <2>1, BeginIsolated DEF Isolated
<1>2. CASE EndSeed \/ EndChild \/ EndRecheck
  BY <1>2, EndIsolated DEF EndSeed, EndChild, EndRecheck, Running
<1>3. CASE SeedsDone
  BY <1>3, TablesIsolated DEF SeedsDone, Isolated, InRun, Running, Pcs
<1>4. CASE FileChild
  BY <1>4, TablesIsolated DEF FileChild, Isolated, InRun, Running, Pcs
<1>5. CASE TakeAnswer
  BY <1>5 DEF TakeAnswer, ConcolicReturn, Isolated, InRun, Running, Borrowed, Pcs, Cpcs
<1>6. CASE ConcolicNext /\ UNCHANGED bvars
  BY <1>6, ConcolicIsolated
<1>7. CASE RunFaults
  BY <1>7 DEF RunFaults, Isolated, InRun, Running, Borrowed, cvars
<1>8. CASE UNCHANGED allVars
  BY <1>8 DEF allVars, vars, bvars, cvars, Isolated, InRun, Running, Borrowed
<1>9. CASE TakeOver \/ GiveBack \/ RunBlock \/ CallConcolic
  BY <1>9, TakeOverIsolated, GiveBackIsolated, BlockIsolated, CallIsolated
<1> QED
  BY <1>1, <1>2, <1>3, <1>4, <1>5, <1>6, <1>7, <1>8, <1>9, StepsAreShared DEF Next

-----------------------------------------------------------------------------
(* Numbers and recursion.                                                  *)

\* A set of numbers has a least one.
LEMMA LeastNumber ==
    ASSUME NEW T \in SUBSET Nat, T # {}
    PROVE  \E x \in T : \A y \in T : x <= y
<1>1. \E x \in T : \A y \in T : ~(<<y, x>> \in OpToRel(<, Nat))
  <2> HIDE DEF OpToRel
  <2> QED
    BY NatLessThanWellFounded, WFMin
<1>2. ASSUME NEW x \in Nat, NEW y \in Nat, ~(<<y, x>> \in OpToRel(<, Nat)) PROVE x <= y
  BY <1>2 DEF OpToRel
<1> QED
  BY <1>1, <1>2

\* Induction on a set of numbers.
LEMMA SetInduction ==
    ASSUME NEW S, 0 \in S, \A n \in Nat : n \in S => n + 1 \in S
    PROVE  Nat \subseteq S
<1> DEFINE T == Nat \ S
<1> SUFFICES ASSUME T # {} PROVE FALSE
  OBVIOUS
<1>1. T \in SUBSET Nat
  OBVIOUS
<1> HIDE DEF T
<1>2. PICK x \in T : \A y \in T : x <= y
  BY <1>1, LeastNumber
<1>3. x # 0 /\ x - 1 \in Nat
  BY <1>2 DEF T
<1>4. x - 1 \in S
  BY <1>2, <1>3 DEF T
<1> QED
  BY <1>2, <1>3, <1>4 DEF T

Recursive(g, s0, N, F) == g = [n \in 0..N |-> IF n = 0 THEN s0 ELSE F[<<g[n - 1], n>>]]

\* A function defined by recursion from 0 to N exists.
LEMMA RecursionExists ==
    ASSUME NEW S, NEW s0 \in S, NEW N \in Nat, NEW F,
           \A n \in 1..N : \A s \in S : F[<<s, n>>] \in S
    PROVE  \E g \in [0..N -> S] : Recursive(g, s0, N, F)
<1> DEFINE Upto(g, m) == /\ g \in [0..m -> S]
                         /\ \A n \in 0..m : g[n] = IF n = 0 THEN s0 ELSE F[<<g[n - 1], n>>]
           T == {m \in Nat : m <= N => \E g : Upto(g, m)}
<1>1. 0 \in T
  <2> DEFINE g == [n \in 0..0 |-> s0]
  <2>1. Upto(g, 0)
    OBVIOUS
  <2> QED
    BY <2>1
<1>2. ASSUME NEW m \in Nat, m \in T PROVE m + 1 \in T
  <2> SUFFICES ASSUME m + 1 <= N PROVE \E g : Upto(g, m + 1)
    OBVIOUS
  <2>1. PICK g : Upto(g, m)
    BY <1>2
  <2> DEFINE h == [n \in 0..(m + 1) |-> IF n = m + 1 THEN F[<<g[m], m + 1>>] ELSE g[n]]
  <2>2. F[<<g[m], m + 1>>] \in S
    BY <2>1
  <2>3. h \in [0..(m + 1) -> S]
    BY <2>1, <2>2
  <2>4. ASSUME NEW n \in 0..(m + 1) PROVE h[n] = IF n = 0 THEN s0 ELSE F[<<h[n - 1], n>>]
    <3>1. CASE n = m + 1
      BY <3>1, <2>1
    <3>2. CASE n # m + 1 /\ n # 0
      <4>1. n \in 0..m /\ n - 1 \in 0..(m + 1) /\ n - 1 # m + 1
        BY <3>2
      <4>2. h[n] = g[n] /\ h[n - 1] = g[n - 1]
        BY <3>2, <4>1
      <4> HIDE DEF h
      <4> QED
        BY <3>2, <4>1, <4>2, <2>1
    <3>3. CASE n = 0
      <4>1. 0 \in 0..m /\ 0 \in 0..(m + 1) /\ 0 # m + 1
        OBVIOUS
      <4>2. g[0] = s0
        BY <2>1, <4>1
      <4>3. h[0] = g[0]
        BY <4>1
      <4> HIDE DEF h
      <4> QED
        BY <3>3, <4>2, <4>3
    <3> QED
      BY <3>1, <3>2, <3>3
  <2> QED
    BY <2>3, <2>4
<1>3. N \in T
  <2> HIDE DEF T
  <2> QED
    BY <1>1, <1>2, SetInduction
<1>4. PICK g : Upto(g, N)
  BY <1>3
<1>5. Recursive(g, s0, N, F)
  BY <1>4 DEF Recursive
<1> QED
  BY <1>4, <1>5

-----------------------------------------------------------------------------
(* Scores: fractions with a positive denominator.                          *)

Scores == Nat \X (Nat \ {0})

\* A product keeps the order, and strictly so.
LEMMA TimesOrder ==
    ASSUME NEW a \in Nat, NEW b \in Nat, NEW n \in Nat
    PROVE  /\ a <= b => a * n <= b * n
           /\ n # 0 /\ a < b => a * n < b * n
           /\ a * n \in Nat /\ b * n \in Nat
<1>1. a * n \in Nat /\ b * n \in Nat
  OBVIOUS
<1>2. ASSUME a <= b PROVE a * n <= b * n
  <2>1. PICK d \in Nat : b = a + d
    <3>1. b - a \in Nat /\ b = a + (b - a)
      BY <1>2
    <3> QED
      BY <3>1
  <2>2. b * n = a * n + d * n /\ d * n \in Nat
    BY <2>1
  <2> QED
    BY <1>1, <2>2
<1>3. ASSUME n # 0, a < b PROVE a * n < b * n
  <2>1. PICK d \in Nat : b = a + 1 + d
    <3>1. b - a - 1 \in Nat /\ b = a + 1 + (b - a - 1)
      BY <1>3
    <3> QED
      BY <3>1
  <2>2. b * n = a * n + n + d * n /\ d * n \in Nat /\ n > 0
    BY <1>3, <2>1
  <2> QED
    BY <1>1, <2>2
<1> QED
  BY <1>1, <1>2, <1>3

\* What is not below x is not below anything x is not above.
LEMMA BelowFollows ==
    ASSUME NEW x \in Scores, NEW y \in Scores, NEW z \in Scores, ~Below(y, x), Below(y, z)
    PROVE  Below(x, z)
<1> PICK a \in Nat, b \in Nat, c \in Nat, p \in Nat \ {0}, q \in Nat \ {0}, r \in Nat \ {0} :
      x = <<a, p>> /\ y = <<b, q>> /\ z = <<c, r>>
  BY SMTT(20) DEF Scores
<1>1. a * q <= b * p /\ b * r < c * q
  BY DEF Below
<1>2. /\ a * q \in Nat /\ b * p \in Nat /\ b * r \in Nat /\ c * q \in Nat /\ a * r \in Nat /\ c * p \in Nat
  BY TimesOrder
<1>3. (a * q) * r <= (b * p) * r
  BY <1>1, <1>2, TimesOrder
<1>4. (b * r) * p < (c * q) * p
  BY <1>1, <1>2, TimesOrder
<1>5. (a * r) * q = (a * q) * r /\ (b * p) * r = (b * r) * p /\ (c * p) * q = (c * q) * p
  OBVIOUS
<1>6. (a * r) * q < (c * p) * q
  BY <1>3, <1>4, <1>5, <1>2, TimesOrder
<1>7. ~(c * p <= a * r)
  BY <1>2, <1>6, TimesOrder
<1> QED
  BY <1>2, <1>7 DEF Below

\* Of scores in a row there is a first with the highest.
LEMMA FirstHighest ==
    ASSUME NEW n \in Nat \ {0}, NEW s \in [1..n -> Scores]
    PROVE  \E i \in 1..n : \A j \in 1..n : ~Below(s[i], s[j]) /\ (j < i => Below(s[j], s[i]))
<1> DEFINE High(i, m) == \A j \in 1..m : ~Below(s[i], s[j]) /\ (j < i => Below(s[j], s[i]))
           T == {m \in Nat : m + 1 <= n => \E i \in 1..(m + 1) : High(i, m + 1)}
<1>1. ASSUME NEW x \in Scores PROVE ~Below(x, x)
  <2>1. x[1] * x[2] \in Nat
    BY TimesOrder DEF Scores
  <2> QED
    BY <2>1 DEF Below
<1>2. 0 \in T
  <2>1. High(1, 1)
    BY <1>1
  <2> QED
    BY <2>1
<1>3. ASSUME NEW m \in Nat, m \in T PROVE m + 1 \in T
  <2> SUFFICES ASSUME m + 2 <= n PROVE \E i \in 1..(m + 2) : High(i, m + 2)
    OBVIOUS
  <2>1. PICK i \in 1..(m + 1) : High(i, m + 1)
    BY <1>3
  <2>2. /\ m + 2 \in 1..n /\ i \in 1..n /\ i \in 1..(m + 2) /\ i < m + 2
        /\ \A j \in 1..(m + 2) : j \in 1..n /\ (j = m + 2 \/ j \in 1..(m + 1))
    BY <2>1
  <2>3. CASE Below(s[i], s[m + 2])
    <3>1. ASSUME NEW j \in 1..(m + 1) PROVE Below(s[j], s[m + 2]) /\ ~Below(s[m + 2], s[j])
      <4>1. ~Below(s[i], s[j]) /\ s[i] \in Scores /\ s[j] \in Scores /\ s[m + 2] \in Scores
        BY <2>1, <2>2
      <4>2. Below(s[j], s[m + 2])
        BY <4>1, <2>3, BelowFollows
      <4>3. \A p, q \in Scores : Below(p, q) => ~Below(q, p)
        <5> TAKE p, q \in Scores
        <5>1. p[1] * q[2] \in Nat /\ q[1] * p[2] \in Nat
          BY TimesOrder DEF Scores
        <5> QED
          BY <5>1 DEF Below
      <4> QED
        BY <4>1, <4>2, <4>3
    <3>2. High(m + 2, m + 2)
      BY <1>1, <2>2, <3>1
    <3> QED
      BY <3>2
  <2>4. CASE ~Below(s[i], s[m + 2])
    <3>1. High(i, m + 2)
      BY <2>1, <2>2, <2>4
    <3> QED
      BY <2>2, <3>1
  <2> QED
    BY <2>3, <2>4
<1>4. n - 1 \in T
  <2> HIDE DEF T
  <2> QED
    BY <1>2, <1>3, SetInduction
<1> QED
  BY <1>4

LEMMA HitsAreFinite ==
    ASSUME NEW cov \in SUBSET Blocks, NEW h \in [Blocks -> Nat]
    PROVE  IsFiniteSet(cov) /\ IsFiniteSet(HitsOf(cov, h))
<1> DEFINE Own1(b) == {b} \X (1..(IF h[b] = 0 THEN 1 ELSE h[b]))
           f == [b \in cov |-> Own1(b)]
           S == {Own1(b) : b \in cov}
<1>1. IsFiniteSet(cov)
  BY CorpusAssumption, FS_Subset
<1>2. f \in Surjection(cov, S)
  BY DEF Surjection
<1>3. IsFiniteSet(S)
  <2> HIDE DEF f, S
  <2> QED
    BY <1>1, <1>2, FS_Surjection
<1>4. ASSUME NEW b \in cov PROVE IsFiniteSet(Own1(b))
  <2>1. IsFiniteSet({b})
    BY FS_Singleton
  <2>2. PICK n \in Int : n = IF h[b] = 0 THEN 1 ELSE h[b]
    <3>1. h[b] \in Nat
      OBVIOUS
    <3> QED
      BY <3>1
  <2>3. IsFiniteSet(1..n)
    BY FS_Interval
  <2> QED
    BY <2>1, <2>2, <2>3, FS_Product
<1>5. \A t \in S : IsFiniteSet(t)
  BY <1>4
<1>6. IsFiniteSet(UNION S)
  <2> HIDE DEF S
  <2> QED
    BY <1>3, <1>5, FS_UNION
<1> QED
  BY <1>1, <1>6 DEF HitsOf

LEMMA ScoreIsFraction ==
    ASSUME NEW cov \in SUBSET Blocks, NEW h \in [Blocks -> Nat]
    PROVE  Score(cov, h, 0) \in Scores
<1>1. IsFiniteSet(cov) /\ IsFiniteSet(HitsOf(cov, h))
  BY HitsAreFinite
<1>2. Cardinality(HitsOf(cov, h)) \in Nat /\ Cardinality(cov) \in Nat
  BY <1>1, FS_CardinalityType
<1>3. cov # {} => Cardinality(cov) # 0
  BY <1>1, FS_EmptySet
<1> QED
  BY <1>2, <1>3 DEF Score, Scores

-----------------------------------------------------------------------------
(* Corpora.                                                                *)

\* buildGlobalHitCounts counts.
LEMMA CountsAreNumbers ==
    ASSUME NEW c \in Seq(CEntry)
    PROVE  Counts(c) \in [Blocks -> Nat]
<1>1. ASSUME NEW b \in Blocks PROVE Cardinality(Covers(c, b)) \in Nat
  <2>1. DOMAIN c = 1..Len(c) /\ Len(c) \in Nat /\ 1 \in Int /\ Len(c) \in Int
    OBVIOUS
  <2>2. IsFiniteSet(DOMAIN c)
    BY <2>1, FS_Interval
  <2>3. Covers(c, b) \in SUBSET DOMAIN c
    BY DEF Covers
  <2> QED
    BY <2>2, <2>3, FS_Subset, FS_CardinalityType
<1> QED
  BY <1>1 DEF Counts

\* An eviction drops an entry there is.
LEMMA WorstIsEntry ==
    ASSUME NEW c \in Seq(CEntry), c # <<>>, NEW h \in [Blocks -> Nat]
    PROVE  Worst(c, h) \in DOMAIN c
<1> DEFINE Sc(j) == Score(c[j].cov, h, 0)
           s == [j \in 1..Len(c) |-> Sc(j)]
<1>1. DOMAIN c = 1..Len(c) /\ Len(c) \in Nat \ {0}
  OBVIOUS
<1>2. ASSUME NEW j \in 1..Len(c) PROVE Sc(j) \in Scores
  <2>1. c[j] \in CEntry
    BY <1>1
  <2>2. c[j].cov \in SUBSET Blocks
    BY <2>1 DEF CEntry
  <2> QED
    BY <2>2, ScoreIsFraction
<1>3. s \in [1..Len(c) -> Scores]
  BY <1>2
<1> DEFINE n == Len(c)
<1>4. \E i \in 1..n : \A j \in 1..n : ~Below(s[i], s[j]) /\ (j < i => Below(s[j], s[i]))
  <2>1. n \in Nat \ {0} /\ s \in [1..n -> Scores]
    BY <1>1, <1>3
  <2> HIDE DEF s, n
  <2> QED
    BY <2>1, FirstHighest
<1>5. \E i \in DOMAIN c : \A j \in DOMAIN c : ~Below(Sc(i), Sc(j)) /\ (j < i => Below(Sc(j), Sc(i)))
  <2>1. \A j \in 1..n : s[j] = Sc(j)
    OBVIOUS
  <2> HIDE DEF s, Sc
  <2> QED
    BY <1>1, <1>4, <2>1
<1> QED
  BY <1>5 DEF Worst

\* What is left is what was there, each entry once.
LEMMA RemovesOne ==
    ASSUME NEW c \in Seq(CEntry), NEW i \in DOMAIN c
    PROVE  /\ RemoveAt(c, i) \in Seq(CEntry)
           /\ Len(RemoveAt(c, i)) = Len(c) - 1
           /\ \A k \in DOMAIN RemoveAt(c, i) :
                 LET j == IF k < i THEN k ELSE k + 1 IN j \in DOMAIN c /\ RemoveAt(c, i)[k] = c[j]
<1> DEFINE l == SubSeq(c, 1, i - 1)
           r == SubSeq(c, i + 1, Len(c))
<1>1. i \in 1..Len(c) /\ Len(c) \in Nat /\ DOMAIN c = 1..Len(c)
  OBVIOUS
<1>2. l \in Seq(CEntry) /\ Len(l) = i - 1 /\ \A k \in 1..(i - 1) : l[k] = c[k]
  BY <1>1
<1>3. r \in Seq(CEntry) /\ Len(r) = Len(c) - i /\ \A k \in 1..(Len(c) - i) : r[k] = c[i + k]
  BY <1>1
<1>4. RemoveAt(c, i) = l \o r
  BY DEF RemoveAt
<1> HIDE DEF l, r
<1>5. /\ l \o r \in Seq(CEntry) /\ Len(l \o r) = Len(l) + Len(r)
      /\ \A k \in 1..(Len(l) + Len(r)) : (l \o r)[k] = IF k <= Len(l) THEN l[k] ELSE r[k - Len(l)]
  BY <1>2, <1>3, ConcatProperties
<1>6. ASSUME NEW k \in 1..(Len(c) - 1)
      PROVE  LET j == IF k < i THEN k ELSE k + 1 IN j \in DOMAIN c /\ (l \o r)[k] = c[j]
  <2>1. CASE k < i
    BY <2>1, <1>1, <1>2, <1>3, <1>5
  <2>2. CASE ~(k < i)
    <3>1. k - (i - 1) \in 1..(Len(c) - i) /\ i + (k - (i - 1)) = k + 1 /\ ~(k <= i - 1)
          /\ k \in 1..(Len(l) + Len(r)) /\ k + 1 \in DOMAIN c
      BY <2>2, <1>1, <1>2, <1>3, SMTT(20)
    <3>2. (l \o r)[k] = r[k - (i - 1)]
      BY <3>1, <1>2, <1>5
    <3> QED
      BY <2>2, <3>1, <3>2, <1>3
  <2> QED
    BY <2>1, <2>2
<1>7. Len(l \o r) = Len(c) - 1
  BY <1>1, <1>2, <1>3, <1>5
<1>8. DOMAIN (l \o r) = 1..(Len(c) - 1)
  BY <1>5, <1>7
<1> QED
  BY <1>4, <1>5, <1>6, <1>7, <1>8


-----------------------------------------------------------------------------
(* What the campaigns work on.                                             *)

LEMMA MinOfTwo == ASSUME NEW m \in Nat, NEW n \in Nat PROVE Min({m, n}) = IF m <= n THEN m ELSE n
  BY DEF Min

LEMMA HookedTracks ==
    ASSUME NEW t \in Trackers, NEW b
    PROVE  Hooked(t, b) \in Trackers
  BY DEF Trackers, Hooked

LEMMA TrackersStart == Recording \in Trackers /\ Paused \in Trackers
  BY DEF Trackers, Recording, Paused

LEMMA NestedInitially == LinuxInit => Nested
<1> SUFFICES ASSUME LinuxInit PROVE Nested
  OBVIOUS
<1>1. <<>> \in Seq(Inputs) /\ <<>> \in Seq(CEntry)
  OBVIOUS
<1> QED
  BY <1>1, TrackersStart, ConcolicAssumption DEF LinuxInit, Init, ConcolicInit, Nested

\* The nested campaign starts from the child alone.
LEMMA NestedStarts == ASSUME Nested, Isolated, child \in CEntry, CallConcolic PROVE Nested'
<1> DEFINE e == <<child>>
<1>1. e \in Seq(CEntry) /\ Len(e) = 1 /\ DOMAIN e = {1} /\ e[1] = child
  OBVIOUS
<1>2. child.buf \in Inputs /\ child.cov \in SUBSET Blocks
  BY DEF CEntry
<1>3. Min({4, Len(e)}) = 1
  <2> HIDE DEF e
  <2> QED
    BY <1>1, MinOfTwo
<1>4. Buffers(e) \in Seq(Inputs) /\ Len(Buffers(e)) = 1
  <2>1. Buffers(e) = [i \in 1..1 |-> e[i].buf]
    BY <1>1 DEF Buffers
  <2>2. \A i \in 1..1 : e[i].buf \in Inputs
    BY <1>1, <1>2
  <2> HIDE DEF e
  <2> QED
    BY <2>1, <2>2
<1>5. SubSeq(Buffers(e), 1, 1) \in Seq(Inputs)
  <2> HIDE DEF e
  <2> QED
    BY <1>4
<1>6. UNION {e[i].cov : i \in DOMAIN e} \subseteq Blocks /\ {e[i].buf : i \in 1..1} \subseteq Inputs
  <2> HIDE DEF e
  <2> QED
    BY <1>1, <1>2
<1>7. ConcolicStart(e)
  BY DEF CallConcolic
<1>8. kernel.cpu \in Engines
  BY DEF Isolated, Touched
<1> HIDE DEF e
<1> QED
  BY <1>1, <1>3, <1>5, <1>6, <1>7, <1>8, ConcolicAssumption DEF ConcolicStart, Nested

LEMMA NestedSteps == ASSUME Nested, ConcolicNext PROVE Nested'
<1>1. CASE ExploreNext
  <2>1. cqueue # <<>> /\ cqueue \in Seq(Inputs)
    BY <1>1 DEF ExploreNext, Explores, Nested
  <2>2. Head(cqueue) \in Inputs /\ Tail(cqueue) \in Seq(Inputs)
    BY <2>1
  <2> QED
    BY <1>1, <2>2, TrackersStart DEF ExploreNext, Nested
<1>2. CASE ConcolicBlock
  <2>1. ctracker' \in Trackers
    BY <1>2, HookedTracks DEF ConcolicBlock, Nested
  <2> QED
    BY <1>2, <2>1 DEF ConcolicBlock, Nested
<1>3. CASE Explored
  <2>1. ctracker.blocks \in SUBSET Blocks
    BY DEF Nested, Trackers
  <2>2. cqueue' \in Seq(Inputs) /\ cpc' \in {"next", "flip"}
    BY <1>3 DEF Explored, Nested
  <2> QED
    BY <1>3, <2>1, <2>2, TrackersStart DEF Explored, Nested
<1>4. CASE Flip
  <2>1. flips - 1 \in 0..MaxBranches /\ queries + 1 \in 0..MaxQueries
    BY <1>4, ConcolicAssumption DEF Flip, Nested
  <2>2. ctracker' \in Trackers /\ witness' \in Inputs \cup {None} /\ (cpc' = "confirm" => witness' \in Inputs)
    BY <1>4, TrackersStart DEF Flip, Nested
  <2> QED
    BY <1>4, <2>1, <2>2 DEF Flip, Nested
<1>5. CASE Confirmed
  <2>1. ctracker.blocks \in SUBSET Blocks /\ witness \in Inputs /\ cqueue \in Seq(Inputs) /\ ccorpus \in Seq(CEntry)
    BY <1>5 DEF Confirmed, Nested, Trackers
  <2>2. [buf |-> witness, cov |-> ctracker.blocks] \in CEntry
    BY <2>1 DEF CEntry
  <2>3. Append(ccorpus, [buf |-> witness, cov |-> ctracker.blocks]) \in Seq(CEntry) /\ Append(cqueue, witness) \in Seq(Inputs)
    BY <2>1, <2>2
  <2>4. /\ ccorpus' \in {ccorpus, Append(ccorpus, [buf |-> witness, cov |-> ctracker.blocks])}
        /\ cqueue' \in {cqueue, Append(cqueue, witness)}
        /\ visited' \in {visited, visited \cup {witness}}
    BY <1>5 DEF Confirmed
  <2>5. ccorpus' \in Seq(CEntry) /\ cqueue' \in Seq(Inputs) /\ visited' \subseteq Inputs
    BY <2>1, <2>3, <2>4 DEF Nested
  <2> QED
    BY <1>5, <2>1, <2>5, TrackersStart DEF Confirmed, Nested
<1>6. CASE FlipsDone
  BY <1>6 DEF FlipsDone, Nested
<1>7. CASE ConcolicEnd
  BY <1>7 DEF ConcolicEnd, Nested
<1> QED
  BY <1>1, <1>2, <1>3, <1>4, <1>5, <1>6, <1>7 DEF ConcolicNext

LEMMA NestedNext == Nested /\ Isolated /\ Shape /\ [LinuxNext]_allVars => Nested'
<1> SUFFICES ASSUME Nested, Isolated, Shape, [LinuxNext]_allVars PROVE Nested'
  OBVIOUS
<1>1. CASE UNCHANGED cvars
  BY <1>1 DEF cvars, Nested
<1>2. CASE CallConcolic
  <2>1. child \in CEntry
    BY <1>2 DEF CallConcolic, Shape
  <2> QED
    BY <1>2, <2>1, NestedStarts
<1>3. CASE TakeAnswer
  <2>1. <<>> \in Seq(Inputs) /\ <<>> \in Seq(CEntry)
    OBVIOUS
  <2> QED
    BY <1>3, <2>1, ConcolicAssumption DEF TakeAnswer, ConcolicReturn, Nested
<1>4. CASE ConcolicNext
  BY <1>4, NestedSteps
<1>5. CASE UNCHANGED allVars
  BY <1>5, <1>1 DEF allVars, vars
<1>6. CASE RunFaults
  BY <1>6, <1>1 DEF RunFaults
<1>7. \/ TakeOver \/ SeedsDone \/ FileChild \/ GiveBack \/ RunBlock => UNCHANGED cvars
  BY DEF TakeOver, SeedsDone, FileChild, GiveBack, RunBlock
<1>8. StartSeed \/ StartChild \/ StartRecheck \/ EndSeed \/ EndChild \/ EndRecheck => UNCHANGED cvars
  BY DEF StartSeed, StartChild, StartRecheck, EndSeed, EndChild, EndRecheck, BeginRun, EndRun
<1> QED
  BY <1>1, <1>2, <1>3, <1>4, <1>5, <1>6, <1>7, <1>8, StepsAreShared DEF Next

\* The answer's inputs but for the child, entry by entry.
LEMMA OthersDef ==
    ASSUME ccorpus \in Seq(CEntry)
    PROVE  /\ Others \in [0..Len(ccorpus) -> Seq(Inputs)]
           /\ Others[0] = <<>>
           /\ \A n \in 1..Len(ccorpus) : Others[n] = Besides(Others[n - 1], ccorpus[n].buf)
<1> DEFINE N == Len(ccorpus)
           S == Seq(Inputs)
           F == [p \in S \X (1..N) |-> Besides(p[1], ccorpus[p[2]].buf)]
           Defines(g) == g = [n \in 0..N |-> IF n = 0 THEN <<>> ELSE Besides(g[n - 1], ccorpus[n].buf)]
<1>1. N \in Nat /\ <<>> \in S
  OBVIOUS
<1>2. \A n \in 1..N : ccorpus[n].buf \in Inputs
  <2>1. \A n \in 1..N : ccorpus[n] \in CEntry
    OBVIOUS
  <2> QED
    BY <2>1 DEF CEntry
<1>3. \A n \in 1..N : \A d \in S : Besides(d, ccorpus[n].buf) \in S
  BY <1>2 DEF Besides
<1>4. \A n \in 1..N : \A d \in S : F[<<d, n>>] \in S /\ F[<<d, n>>] = Besides(d, ccorpus[n].buf)
  BY <1>3
<1>5. PICK g \in [0..N -> S] : Recursive(g, <<>>, N, F)
  <2> HIDE DEF F, N, S
  <2> QED
    BY <1>1, <1>4, RecursionExists
<1>6. \A n \in 0..N : g[n] = IF n = 0 THEN <<>> ELSE Besides(g[n - 1], ccorpus[n].buf)
  <2> HIDE DEF F, S
  <2>1. \A n \in 0..N : n # 0 => n \in 1..N /\ n - 1 \in 0..N
    BY <1>1
  <2>2. \A n \in 0..N : g[n] = IF n = 0 THEN <<>> ELSE F[<<g[n - 1], n>>]
    BY <1>5 DEF Recursive
  <2> QED
    BY <1>4, <2>1, <2>2
<1>7. Defines(g)
  BY <1>6
<1>8. Others = CHOOSE f : Defines(f)
  BY DEF Others
<1>9. Defines(Others)
  BY <1>7, <1>8
<1>10. \A n \in 0..N : Others[n] = IF n = 0 THEN <<>> ELSE Besides(Others[n - 1], ccorpus[n].buf)
  BY <1>9
<1>11. \A n \in 0..N : Others[n] \in S
  <2> DEFINE T == {n \in Nat : n \in 0..N => Others[n] \in S}
  <2>1. 0 \in T
    BY <1>1, <1>10
  <2>2. ASSUME NEW n \in Nat, n \in T PROVE n + 1 \in T
    <3> SUFFICES ASSUME n + 1 \in 0..N PROVE Others[n + 1] \in S
      OBVIOUS
    <3>1. n \in 0..N /\ Others[n] \in S /\ (n + 1) - 1 = n /\ n + 1 \in 1..N /\ n + 1 # 0
      BY <2>2
    <3>2. Others[n + 1] = Besides(Others[n], ccorpus[n + 1].buf)
      BY <1>10, <3>1
    <3> QED
      BY <1>3, <3>1, <3>2
  <2>3. Nat \subseteq T
    <3> HIDE DEF T
    <3> QED
      BY <2>1, <2>2, SetInduction
  <2> QED
    BY <2>3, <1>1
<1>12. Others \in [0..N -> S]
  BY <1>9, <1>11
<1> QED
  BY <1>10, <1>12, <1>1

LEMMA FilingDef ==
    ASSUME found \in Seq(Runs), db \in SUBSET Files, child.buf \in Inputs
    PROVE  /\ Filing \in [0..Len(found) -> SUBSET Files]
           /\ Filing[0] = db
           /\ \A n \in 1..Len(found) : Filing[n] = Filed(Filing[n - 1], found[n], child.buf)
<1> DEFINE N == Len(found)
           S == SUBSET Files
           F == [p \in S \X (1..N) |-> Filed(p[1], found[p[2]], child.buf)]
           Defines(g) == g = [n \in 0..N |-> IF n = 0 THEN db ELSE Filed(g[n - 1], found[n], child.buf)]
<1>1. N \in Nat /\ db \in S
  OBVIOUS
<1>2. \A n \in 1..N : found[n] \in Runs
  OBVIOUS
<1>3. \A n \in 1..N : \A d \in S : Filed(d, found[n], child.buf) \in S
  BY <1>2 DEF Filed, Files, Runs
<1>4. \A n \in 1..N : \A d \in S : F[<<d, n>>] \in S /\ F[<<d, n>>] = Filed(d, found[n], child.buf)
  <2> HIDE DEF S
  <2> QED
    BY <1>3
<1>5. PICK g \in [0..N -> S] : Recursive(g, db, N, F)
  <2> HIDE DEF F, N, S
  <2> QED
    BY <1>1, <1>4, RecursionExists
<1>6. \A n \in 0..N : g[n] = IF n = 0 THEN db ELSE Filed(g[n - 1], found[n], child.buf)
  <2> HIDE DEF F, S
  <2>1. \A n \in 0..N : n # 0 => n \in 1..N /\ n - 1 \in 0..N
    BY <1>1
  <2>2. \A n \in 0..N : g[n] = IF n = 0 THEN db ELSE F[<<g[n - 1], n>>]
    BY <1>5 DEF Recursive
  <2> QED
    BY <1>4, <2>1, <2>2
<1>7. Defines(g)
  BY <1>6
<1>8. Filing = CHOOSE f : Defines(f)
  BY DEF Filing
<1>9. Defines(Filing)
  BY <1>7, <1>8
<1>10. \A n \in 0..N : Filing[n] = IF n = 0 THEN db ELSE Filed(Filing[n - 1], found[n], child.buf)
  BY <1>9
<1>11. \A n \in 0..N : Filing[n] \in S
  <2> DEFINE T == {n \in Nat : n \in 0..N => Filing[n] \in S}
  <2> HIDE DEF S
  <2>1. 0 \in T
    BY <1>1, <1>10
  <2>2. ASSUME NEW n \in Nat, n \in T PROVE n + 1 \in T
    <3> SUFFICES ASSUME n + 1 \in 0..N PROVE Filing[n + 1] \in S
      OBVIOUS
    <3>1. n \in 0..N /\ Filing[n] \in S /\ (n + 1) - 1 = n /\ n + 1 \in 1..N /\ n + 1 # 0
      BY <2>2
    <3>2. Filing[n + 1] = Filed(Filing[n], found[n + 1], child.buf)
      BY <1>10, <3>1
    <3> QED
      BY <1>3, <3>1, <3>2
  <2>3. Nat \subseteq T
    <3> HIDE DEF T
    <3> QED
      BY <2>1, <2>2, SetInduction
  <2> QED
    BY <2>3, <1>1
<1>12. Filing \in [0..N -> S]
  BY <1>9, <1>11
<1> QED
  BY <1>10, <1>12, <1>1

LEMMA SeedsThereAre == SeedCount \in Nat /\ SeedCount <= Len(Seeds)
<1>1. Len(Seeds) \in Nat /\ SeedRuns \in Nat
  BY BugAssumption
<1> QED
  BY <1>1, MinOfTwo DEF SeedCount

LEMMA ShapeInitially == LinuxInit => Shape
<1> SUFFICES ASSUME LinuxInit PROVE Shape
  OBVIOUS
<1>1. <<>> \in Seq(Inputs) /\ <<>> \in Seq(CEntry) /\ <<>> \in Seq(Runs)
  OBVIOUS
<1> QED
  BY <1>1, TrackersStart, SeedsThereAre, BugAssumption DEF LinuxInit, Init, Shape, Running

\* A run has an input.
LEMMA BeginShape ==
    ASSUME Shape, NEW buf \in Inputs, BeginRun(buf),
           UNCHANGED <<child, found, corpus, seen, hits>>, pc' = "rerun" => pc = "recheck",
           pc' \in {"seedrun", "childrun", "rerun"},
           recheck' \in Seq(Inputs), next' \in 0..SeedCount, iters' \in 0..Iterations
    PROVE  Shape'
  BY TrackersStart DEF Shape, BeginRun, Running

\* A run with its coverage, and what it raised.
LEMMA RunMakes ==
    ASSUME Shape, Running
    PROVE  /\ input \in Inputs /\ tracker.blocks \in SUBSET Blocks
           /\ [buf |-> input, cov |-> tracker.blocks] \in CEntry
           /\ [by |-> input, bugs |-> raised] \in Runs
  BY DEF Shape, Running, Trackers, CEntry, Runs

LEMMA EndSeedShape == ASSUME Shape, EndSeed PROVE Shape'
<1>1. Running
  BY DEF EndSeed, Running
<1>2. tracker.blocks \in SUBSET Blocks /\ input \in Inputs
  BY <1>1, RunMakes
<1>3. corpus' \in Seq(CEntry)
  <2>1. corpus \in Seq(CEntry) /\ corpus' = [corpus EXCEPT ![next].cov = tracker.blocks]
    BY DEF Shape, EndSeed
  <2>2. /\ Len(corpus) \in Nat /\ DOMAIN corpus = 1..Len(corpus) /\ DOMAIN corpus' = 1..Len(corpus)
    BY <2>1
  <2>3. ASSUME NEW i \in 1..Len(corpus) PROVE corpus'[i] \in CEntry
    <3>1. corpus[i] \in CEntry
      BY <2>1
    <3>2. corpus'[i] = IF i = next THEN [corpus[i] EXCEPT !.cov = tracker.blocks] ELSE corpus[i]
      BY <2>1, <2>2
    <3> QED
      BY <1>2, <3>1, <3>2 DEF CEntry
  <2>4. corpus' = [i \in 1..Len(corpus) |-> corpus'[i]]
    BY <2>1, <2>2
  <2> QED
    BY <2>2, <2>3, <2>4
<1> QED
  BY <1>2, <1>3, TrackersStart DEF EndSeed, EndRun, Shape, Running

LEMMA EndChildShape == ASSUME Shape, EndChild PROVE Shape'
<1>1. Running
  BY DEF EndChild, Running
<1>2. /\ child' \in CEntry
      /\ \E r \in Runs : found' = <<r>>
  BY <1>1, RunMakes DEF EndChild
<1>3. found' \in Seq(Runs)
  BY <1>2
<1> QED
  BY <1>2, <1>3, TrackersStart DEF EndChild, EndRun, Shape, Running

LEMMA EndRecheckShape == ASSUME Shape, EndRecheck PROVE Shape'
<1>1. Running
  BY DEF EndRecheck, Running
<1>2. tracker.blocks \in SUBSET Blocks
  BY <1>1, RunMakes
<1>3. /\ \E e \in CEntry : corpus' = corpus \/ corpus' = Append(corpus, e)
      /\ \E r \in Runs : found' = Append(found, r)
  BY <1>1, RunMakes DEF EndRecheck
<1>4. corpus' \in Seq(CEntry)
  <2>1. corpus \in Seq(CEntry)
    BY DEF Shape
  <2>2. PICK e \in CEntry : corpus' = corpus \/ corpus' = Append(corpus, e)
    BY <1>3
  <2> QED
    BY <2>1, <2>2
<1>5. found' \in Seq(Runs)
  <2>1. found \in Seq(Runs)
    BY DEF Shape
  <2>2. PICK r \in Runs : found' = Append(found, r)
    BY <1>3
  <2> QED
    BY <2>1, <2>2
<1> QED
  BY <1>2, <1>4, <1>5, TrackersStart DEF EndRecheck, EndRun, Shape, Running

\* An eviction leaves a corpus.
LEMMA EvictLeaves ==
    ASSUME NEW c \in Seq(CEntry), NEW h \in [Blocks -> Nat]
    PROVE  Evict(c, h) \in Seq(CEntry)
<1>1. CASE Len(c) > Cap
  <2>1. c # <<>>
    <3>1. Len(<<>>) = 0
      OBVIOUS
    <3> QED
      BY <1>1, <3>1, CorpusAssumption
  <2>2. RemoveAt(c, Worst(c, h)) \in Seq(CEntry)
    BY <2>1, WorstIsEntry, RemovesOne
  <2> QED
    BY <1>1, <2>2 DEF Evict
<1>2. CASE ~(Len(c) > Cap)
  BY <1>2 DEF Evict
<1> QED
  BY <1>1, <1>2

LEMMA FileChildShape == ASSUME Shape, FileChild PROVE Shape'
<1>1. child \in CEntry /\ child.cov \in SUBSET Blocks
  BY DEF FileChild, Shape, CEntry
<1>2. <<>> \in Seq(Runs)
  OBVIOUS
<1>3. corpus' \in Seq(CEntry) /\ hits' \in [Blocks -> Nat] /\ seen' \subseteq Blocks
  <2>1. CASE KeepsChild
    <3>1. Append(corpus, child) \in Seq(CEntry) /\ hits \in [Blocks -> Nat]
      BY <1>1 DEF Shape
    <3>2. corpus' = Evict(Append(corpus, child), hits) /\ hits' = Counts(corpus') /\ seen' = seen \cup child.cov
      BY <2>1 DEF FileChild
    <3>3. corpus' \in Seq(CEntry)
      BY <3>1, <3>2, EvictLeaves
    <3>4. hits' \in [Blocks -> Nat]
      BY <3>2, <3>3, CountsAreNumbers
    <3> QED
      BY <1>1, <3>2, <3>3, <3>4 DEF Shape
  <2>2. CASE ~KeepsChild
    BY <2>2 DEF FileChild, Shape
  <2> QED
    BY <2>1, <2>2
<1> QED
  BY <1>2, <1>3 DEF FileChild, Shape, Running

LEMMA ShapeNext == Shape /\ Nested /\ Isolated /\ [LinuxNext]_allVars => Shape'
<1> SUFFICES ASSUME Shape, Nested, Isolated, [LinuxNext]_allVars PROVE Shape'
  OBVIOUS
<1>1. CASE TakeOver
  <2>1. Seeds \in Seq(Inputs) /\ DOMAIN Seeds = 1..Len(Seeds) /\ Len(Seeds) \in Nat
    BY BugAssumption
  <2>2. \A i \in 1..Len(Seeds) : [buf |-> Seeds[i], cov |-> {}] \in CEntry
    BY <2>1 DEF CEntry
  <2>3. corpus' = [i \in 1..Len(Seeds) |-> [buf |-> Seeds[i], cov |-> {}]]
    BY <1>1, <2>1 DEF TakeOver
  <2>4. corpus' \in Seq(CEntry)
    BY <2>1, <2>2, <2>3
  <2> QED
    BY <1>1, <2>4, TrackersStart DEF TakeOver, Shape, Running
<1>2. CASE StartSeed
  <2>1. next + 1 \in 0..SeedCount /\ next + 1 \in 1..Len(Seeds)
    BY <1>2, SeedsThereAre, BugAssumption DEF StartSeed, Shape
  <2>2. Seeds[next + 1] \in Inputs
    BY <2>1, BugAssumption
  <2>3. BeginRun(Seeds[next + 1])
    BY <1>2 DEF StartSeed
  <2> QED
    BY <1>2, <2>1, <2>2, <2>3, BeginShape DEF StartSeed, Shape
<1>3. CASE StartChild
  <2>1. PICK parent \in DOMAIN corpus : \E buf \in Reach[corpus[parent].buf] : BeginRun(buf)
    BY <1>3 DEF StartChild
  <2>2. corpus[parent].buf \in Inputs
    <3>1. corpus[parent] \in CEntry
      BY <2>1 DEF Shape
    <3> QED
      BY <3>1 DEF CEntry
  <2>3. PICK buf \in Inputs : BeginRun(buf)
    BY <2>1, <2>2, BugAssumption
  <2>4. iters + 1 \in 0..Iterations
    BY <1>3, BugAssumption DEF StartChild, Shape
  <2> QED
    BY <1>3, <2>3, <2>4, BeginShape DEF StartChild, Shape
<1>4. CASE StartRecheck
  <2>1. recheck \in Seq(Inputs) /\ recheck # <<>>
    BY <1>4 DEF StartRecheck, Shape
  <2>2. Head(recheck) \in Inputs /\ Tail(recheck) \in Seq(Inputs)
    BY <2>1
  <2> QED
    BY <1>4, <2>2, BeginShape DEF StartRecheck, Shape
<1>5. CASE EndSeed \/ EndChild \/ EndRecheck \/ FileChild
  BY <1>5, EndSeedShape, EndChildShape, EndRecheckShape, FileChildShape
<1>6. CASE SeedsDone
  <2>1. hits' \in [Blocks -> Nat]
    BY <1>6, CountsAreNumbers DEF SeedsDone, Shape
  <2> QED
    BY <1>6, <2>1 DEF SeedsDone, Shape, Running
<1>7. CASE TakeAnswer
  <2>1. Len(ccorpus) \in 0..Len(ccorpus) /\ ccorpus \in Seq(CEntry)
    BY DEF Nested
  <2>2. recheck' \in Seq(Inputs)
    BY <1>7, <2>1, OthersDef DEF TakeAnswer
  <2> QED
    BY <1>7, <2>2 DEF TakeAnswer, Shape, Running
<1>8. CASE RunBlock
  <2>1. tracker' \in Trackers
    BY <1>8, HookedTracks DEF RunBlock, Shape
  <2>2. raised' \subseteq Bugs
    BY <1>8 DEF RunBlock, Shape
  <2> QED
    BY <1>8, <2>1, <2>2 DEF RunBlock, Shape, Running
<1>9. CASE CallConcolic \/ (ConcolicNext /\ UNCHANGED bvars)
  BY <1>9 DEF CallConcolic, bvars, Shape, Running
<1>10. CASE GiveBack
  BY <1>10, TrackersStart DEF GiveBack, Shape, Running
<1>11. CASE RunFaults
  BY <1>11, LinuxAssumption DEF RunFaults, Shape, Running
<1>12. CASE UNCHANGED allVars
  BY <1>12 DEF allVars, vars, bvars, Shape, Running
<1> QED
  BY <1>1, <1>2, <1>3, <1>4, <1>5, <1>6, <1>7, <1>8, <1>9, <1>10, <1>11, <1>12, StepsAreShared DEF Next

-----------------------------------------------------------------------------
(* The stubs.                                                              *)

LEMMA StubbedInitially == LinuxInit => Stubbed
  BY DEF LinuxInit, Init, ConcolicInit, Stubbed, Running

\* The driver campaign has none of it.
LEMMA NtStubbed == ASSUME Stubbed, NtStep PROVE Stubbed'
  BY DEF NtStep, Stubbed, lvars

\* A Linux run begins with what its input says, and ends with what was before.
LEMMA RunStubbed ==
    ASSUME Stubbed, Shape', Isolated, Linux,
           \/ RunBegins /\ ~Running /\ Running' /\ pc' # "rerun"
           \/ RunIsOver /\ Running /\ ~Running',
           UNCHANGED <<cvars, recheck>>, Running \/ cpc = "idle"
    PROVE  Stubbed'
<1>1. cpc = "idle" /\ cpc' = "idle" /\ flips' = flips
  BY DEF Isolated, Running, cvars
<1>2. input' \in Inputs \cup {None}
  BY DEF Shape
<1>3. CASE RunBegins /\ ~Running /\ Running' /\ pc' # "rerun"
  <2>1. input' \in Inputs
    BY <1>3 DEF Shape
  <2> QED
    BY <1>1, <1>3, <2>1 DEF Linux, RunBegins, PolicyFrom, Stubbed
<1>4. CASE RunIsOver /\ Running /\ ~Running'
  <2>1. pc' # "rerun"
    BY <1>4 DEF Running
  <2> QED
    BY <1>1, <1>4, <2>1 DEF Linux, RunIsOver, PolicyBack, Stubbed
<1> QED
  BY <1>3, <1>4

LEMMA AnswerStubbed == ASSUME Stubbed, Shape, Isolated, LinuxTakeAnswer PROVE Stubbed'
<1>1. ccorpus = <<child>> /\ child \in CEntry /\ system = "linux"
  BY DEF LinuxTakeAnswer, TakeAnswer, Linux, Stubbed, Shape
<1>2. PICK c : c = <<child>>
  OBVIOUS
<1>3. c \in Seq(CEntry) /\ Len(c) = 1 /\ c[1] = child
  BY <1>1, <1>2
<1>4. ccorpus \in Seq(CEntry) /\ Len(ccorpus) = 1 /\ ccorpus[1] = child
  BY <1>1, <1>2, <1>3
<1>5. Others[0] = <<>> /\ \A n \in 1..Len(ccorpus) : Others[n] = Besides(Others[n - 1], ccorpus[n].buf)
  BY <1>4, OthersDef
<1>6. Others[1] = <<>>
  BY <1>4, <1>5 DEF Besides
<1>7. recheck' = <<>>
  BY <1>4, <1>6 DEF LinuxTakeAnswer, TakeAnswer
<1> QED
  BY <1>7 DEF LinuxTakeAnswer, TakeAnswer, ConcolicReturn, NoRun, Linux, Stubbed, Running

\* With nothing symbolic there is no branch to flip.
LEMMA ConcolicStubbed == ASSUME Stubbed, Isolated, LinuxConcolic PROVE Stubbed'
<1>1. system = "linux" /\ system' = system /\ ~symbolic /\ symbolic' = FALSE /\ flips = 0 /\ flips' = 0
  BY DEF LinuxConcolic, Stubbed, BufferTag
<1>2. UNCHANGED <<pc, input, child, recheck>> /\ cpc # "confirm"
  BY DEF LinuxConcolic, bvars, Stubbed
<1>3. cpc # "idle" /\ ccorpus' = ccorpus /\ cpc' # "confirm"
  BY <1>1, <1>2 DEF LinuxConcolic, ConcolicNext, ExploreNext, ConcolicBlock, Explored, Flip, Confirmed,
     FlipsDone, ConcolicEnd, Stubbed
<1> QED
  BY <1>1, <1>2, <1>3 DEF LinuxConcolic, NoRun, Stubbed, Running

LEMMA StubbedNext == Stubbed /\ Shape /\ Shape' /\ Isolated /\ [LinuxNext]_allVars => Stubbed'
<1> SUFFICES ASSUME Stubbed, Shape, Shape', Isolated, [LinuxNext]_allVars PROVE Stubbed'
  OBVIOUS
<1>1. CASE NtStep
  BY <1>1, NtStubbed
<1>2. CASE LinuxTakeOver \/ LinuxSeedsDone \/ LinuxGiveBack
  BY <1>2 DEF LinuxTakeOver, LinuxSeedsDone, LinuxGiveBack, TakeOver, SeedsDone, GiveBack, Linux, NoRun,
     Stubbed, Running, cvars, Isolated
<1>3. CASE LinuxFileChild
  BY <1>3 DEF LinuxFileChild, FileChild, Linux, NoRun, Stubbed, Running, cvars, Isolated
<1>4. CASE LinuxStartSeed \/ LinuxStartChild
  <2>1. /\ RunBegins /\ ~Running /\ Running' /\ pc' # "rerun" /\ UNCHANGED <<cvars, recheck>> /\ Linux
        /\ cpc = "idle"
    BY <1>4 DEF LinuxStartSeed, LinuxStartChild, StartSeed, StartChild, BeginRun, Running, Isolated
  <2> QED
    BY <2>1, RunStubbed
<1>5. CASE LinuxEndSeed \/ LinuxEndChild
  <2>1. /\ RunIsOver /\ Running /\ ~Running' /\ UNCHANGED <<cvars, recheck>> /\ Linux
    BY <1>5 DEF LinuxEndSeed, LinuxEndChild, EndSeed, EndChild, EndRun, Running
  <2> QED
    BY <2>1, RunStubbed
<1>6. CASE LinuxCallConcolic
  BY <1>6 DEF LinuxCallConcolic, CallConcolic, ConcolicStart, bvars, NoRun, Linux, Stubbed, Running
<1>7. CASE LinuxConcolic
  BY <1>7, ConcolicStubbed
<1>8. CASE LinuxTakeAnswer
  BY <1>8, AnswerStubbed
<1>9. CASE LinuxBlock
  BY <1>9 DEF LinuxBlock, RunBlock, Linux, Stubbed, Running, cvars
<1>10. CASE RunFaults
  BY <1>10 DEF RunFaults, Linux, Stubbed, Running, cvars
<1>11. CASE UNCHANGED allVars
  BY <1>11 DEF allVars, vars, bvars, cvars, lvars, Stubbed, Running
<1> QED
  BY <1>1, <1>2, <1>3, <1>4, <1>5, <1>6, <1>7, <1>8, <1>9, <1>10, <1>11 DEF LinuxNext

-----------------------------------------------------------------------------
(* The bugs.                                                               *)

\* Each key once.
Unique(d) == \A q, r \in d : q.key = r.key => q = r

\* BugDB.add files what is new, and nothing else.
LEMMA FiledAdds ==
    ASSUME NEW d \in SUBSET Files, NEW run \in Runs, NEW w \in Inputs, Unique(d),
           NEW f, f = Filed(d, run, w)
    PROVE  /\ f \in SUBSET Files /\ Unique(f)
           /\ Keys(f) = Keys(d) \cup run.bugs
           /\ \A r \in f : r \in d \/ (r.key \in run.bugs /\ r.by = run.by /\ r.witness = w)
<1> DEFINE more == {[key |-> k, by |-> run.by, witness |-> w] : k \in run.bugs \ Keys(d)}
<1>1. f = d \cup more
  BY DEF Filed
<1>2. run.by \in Inputs /\ run.bugs \in SUBSET Bugs
  BY DEF Runs
<1>3. \A r \in more : r \in Files /\ r.key \in run.bugs \ Keys(d) /\ r.by = run.by /\ r.witness = w
  BY <1>2 DEF Files
<1>4. ASSUME NEW k \in run.bugs \ Keys(d) PROVE \E r \in more : r.key = k
  <2>1. [key |-> k, by |-> run.by, witness |-> w] \in more
    OBVIOUS
  <2> QED
    BY <2>1
<1>5. \A q, r \in more : q.key = r.key => q = r
  OBVIOUS
<1>6. \A r \in d : r.key \in Keys(d)
  BY DEF Keys
<1> HIDE DEF more
<1>7. f \in SUBSET Files /\ Unique(f)
  BY <1>1, <1>3, <1>5, <1>6 DEF Unique
<1>8. Keys(f) = Keys(d) \cup run.bugs
  <2>1. ASSUME NEW k \in Keys(f) PROVE k \in Keys(d) \cup run.bugs
    BY <1>1, <1>3, <2>1 DEF Keys
  <2>2. ASSUME NEW k \in Keys(d) PROVE k \in Keys(f)
    BY <1>1, <2>2 DEF Keys
  <2>3. ASSUME NEW k \in run.bugs \ Keys(d) PROVE k \in Keys(f)
    BY <1>1, <1>4, <2>3 DEF Keys
  <2> QED
    BY <2>1, <2>2, <2>3
<1> QED
  BY <1>1, <1>3, <1>7, <1>8

LEMMA AccountedInitially == LinuxInit => Accounted
<1> SUFFICES ASSUME LinuxInit PROVE Accounted
  OBVIOUS
<1>1. db = {} /\ found = <<>> /\ reported = {} /\ child = None /\ ~crashed /\ pc = "start" /\ DOMAIN found = {}
  BY DEF LinuxInit, Init
<1>2. Keys(db) = {} /\ ReportedKeys = {} /\ FoundKeys = {}
  BY <1>1 DEF Keys, ReportedKeys, FoundKeys
<1> QED
  BY <1>1, <1>2 DEF Accounted

\* The database and the runs of the iteration stay.
LEMMA NothingReported ==
    ASSUME Accounted, UNCHANGED <<db, found, child, reported>>,
           raised \subseteq raised', crashed' => crashed \/ NullDeref \in raised',
           pc' \notin {"concolic", "recheck", "rerun"} => pc \notin {"concolic", "recheck", "rerun"}
    PROVE  Accounted'
<1>1. Keys(db)' = Keys(db) /\ ReportedKeys' = ReportedKeys /\ FoundKeys' = FoundKeys
  BY DEF Keys, ReportedKeys, FoundKeys
<1> QED
  BY <1>1 DEF Accounted

\* What a run raised is reported under the child in hand.
Witness == IF child = None THEN input ELSE child.buf

LEMMA RunReports ==
    ASSUME EndRun, Shape
    PROVE  /\ ReportedKeys' = ReportedKeys \cup raised
           /\ reported \subseteq reported'
           /\ \A k \in raised : [key |-> k, by |-> input, from |-> Witness] \in reported'
<1> DEFINE more == {[key |-> k, by |-> input, from |-> Witness] : k \in raised}
<1>1. reported' = reported \cup more
  BY DEF EndRun, Witness
<1>2. \A r \in more : r.key \in raised
  OBVIOUS
<1>3. \A k \in raised : [key |-> k, by |-> input, from |-> Witness] \in more
  OBVIOUS
<1>4. ASSUME NEW k \in raised PROVE \E r \in more : r.key = k
  <2>1. [key |-> k, by |-> input, from |-> Witness] \in more
    OBVIOUS
  <2> QED
    BY <2>1
<1> HIDE DEF more
<1>5. ReportedKeys' = ReportedKeys \cup raised
  <2>1. ASSUME NEW k \in ReportedKeys' PROVE k \in ReportedKeys \cup raised
    BY <1>1, <1>2, <2>1 DEF ReportedKeys
  <2>2. ASSUME NEW k \in ReportedKeys PROVE k \in ReportedKeys'
    BY <1>1, <2>2 DEF ReportedKeys
  <2>3. ASSUME NEW k \in raised PROVE k \in ReportedKeys'
    BY <1>1, <1>4, <2>3 DEF ReportedKeys
  <2> QED
    BY <2>1, <2>2, <2>3
<1> QED
  BY <1>1, <1>3, <1>5

LEMMA EndSeedAccounted == ASSUME Accounted, Shape, EndSeed, crashed' = crashed PROVE Accounted'
<1> DEFINE run == [by |-> input, bugs |-> raised]
<1>1. child = None /\ found = <<>> /\ child' = None /\ found' = <<>> /\ pc' = "seed" /\ Running
  BY DEF Accounted, EndSeed, Running
<1>2. FoundKeys = {} /\ FoundKeys' = {} /\ DOMAIN found' = {}
  BY <1>1 DEF FoundKeys
<1>3. run \in Runs /\ input \in Inputs /\ run.by = input /\ run.bugs = raised
  BY <1>1, RunMakes
<1>4. /\ ReportedKeys' = ReportedKeys \cup raised /\ reported \subseteq reported'
      /\ \A k \in raised : [key |-> k, by |-> input, from |-> input] \in reported'
  BY <1>1, RunReports DEF EndSeed, Witness
<1>5. db' = Filed(db, run, input)
  BY DEF EndSeed
<1> HIDE DEF run
<1>6. /\ db' \in SUBSET Files /\ Unique(db') /\ Keys(db') = Keys(db) \cup raised
      /\ \A r \in db' : r \in db \/ (r.key \in raised /\ r.by = input /\ r.witness = input)
  <2>1. db \in SUBSET Files /\ Unique(db)
    BY DEF Accounted, Unique
  <2> QED
    BY <1>3, <1>5, <2>1, FiledAdds
<1>7. \A r \in db' : [key |-> r.key, by |-> r.by, from |-> r.witness] \in reported'
  BY <1>4, <1>6 DEF Accounted
<1>8. crashed' => NullDeref \in ReportedKeys'
  BY <1>4 DEF Accounted
<1> QED
  BY <1>1, <1>2, <1>4, <1>6, <1>7, <1>8 DEF Accounted, Unique

LEMMA EndChildAccounted == ASSUME Accounted, Shape, Shape', EndChild, crashed' = crashed PROVE Accounted'
<1>1. child = None /\ found = <<>> /\ child'.buf = input /\ pc' \in {"recheck", "concolic"} /\ db' = db
  BY DEF Accounted, EndChild
<1>2. FoundKeys = {}
  BY <1>1 DEF FoundKeys
<1>3. DOMAIN found' = {1} /\ found'[1].bugs = raised /\ found'[1].by = input
  BY DEF EndChild
<1>4. FoundKeys' = raised
  BY <1>3 DEF FoundKeys
<1>5. /\ ReportedKeys' = ReportedKeys \cup raised /\ reported \subseteq reported'
      /\ \A k \in raised : [key |-> k, by |-> input, from |-> input] \in reported'
  BY <1>1, RunReports DEF EndChild, Witness
<1>6. Keys(db)' = Keys(db)
  BY <1>1 DEF Keys
<1> QED
  BY <1>1, <1>2, <1>3, <1>4, <1>5, <1>6 DEF Accounted

LEMMA EndRecheckAccounted == ASSUME Accounted, Shape, EndRecheck, crashed' = crashed PROVE Accounted'
<1>1. /\ child \in CEntry /\ child # None /\ child' = child /\ pc' = "recheck" /\ db' = db
      /\ found \in Seq(Runs) /\ found' = Append(found, [by |-> input, bugs |-> raised])
  BY BugAssumption DEF EndRecheck, Shape, CEntry
<1>2. PICK run : run = [by |-> input, bugs |-> raised]
  OBVIOUS
<1>3. run \in Runs /\ run.by = input /\ run.bugs = raised
  BY <1>2, RunMakes DEF EndRecheck, Running
<1>4. /\ DOMAIN found' = DOMAIN found \cup {Len(found) + 1} /\ found'[Len(found) + 1] = run
      /\ \A i \in DOMAIN found : found'[i] = found[i]
  BY <1>1, <1>2, <1>3
<1>5. FoundKeys' = FoundKeys \cup raised
  <2>1. ASSUME NEW k \in FoundKeys' PROVE k \in FoundKeys \cup raised
    <3>1. PICK i \in DOMAIN found' : k \in found'[i].bugs
      BY <2>1 DEF FoundKeys
    <3>2. CASE i \in DOMAIN found
      BY <1>4, <3>1, <3>2 DEF FoundKeys
    <3>3. CASE i = Len(found) + 1
      BY <1>3, <1>4, <3>1, <3>3
    <3> QED
      BY <1>4, <3>2, <3>3
  <2>2. ASSUME NEW k \in FoundKeys PROVE k \in FoundKeys'
    <3>1. PICK i \in DOMAIN found : k \in found[i].bugs
      BY <2>2 DEF FoundKeys
    <3> QED
      BY <1>4, <3>1 DEF FoundKeys
  <2>3. ASSUME NEW k \in raised PROVE k \in FoundKeys'
    BY <1>3, <1>4, <2>3 DEF FoundKeys
  <2> QED
    BY <2>1, <2>2, <2>3
<1>6. /\ ReportedKeys' = ReportedKeys \cup raised /\ reported \subseteq reported'
      /\ \A k \in raised : [key |-> k, by |-> input, from |-> child.buf] \in reported'
  BY <1>1, RunReports DEF EndRecheck, Witness
<1>7. Keys(db)' = Keys(db)
  BY <1>1 DEF Keys
<1>8. \A i \in DOMAIN found' : \A k \in found'[i].bugs :
         [key |-> k, by |-> found'[i].by, from |-> child'.buf] \in reported'
  BY <1>1, <1>3, <1>4, <1>6 DEF Accounted
<1> QED
  BY <1>1, <1>5, <1>6, <1>7, <1>8 DEF Accounted

\* Filing the runs of the iteration one by one.
Filed1(d, n) ==
    /\ d \in SUBSET Files /\ Unique(d)
    /\ Keys(d) = Keys(db) \cup UNION {found[i].bugs : i \in 1..n}
    /\ \A r \in d : [key |-> r.key, by |-> r.by, from |-> r.witness] \in reported

LEMMA FilingKeeps ==
    ASSUME Accounted, Shape, child \in CEntry
    PROVE  Filed1(Filing[Len(found)], Len(found))
<1> DEFINE T == {n \in Nat : n \in 0..Len(found) => Filed1(Filing[n], n)}
<1>1. found \in Seq(Runs) /\ db \in SUBSET Files /\ child.buf \in Inputs /\ Len(found) \in Nat
      /\ DOMAIN found = 1..Len(found)
  BY DEF Accounted, Shape, CEntry
<1>2. /\ Filing[0] = db
      /\ \A n \in 1..Len(found) : Filing[n] = Filed(Filing[n - 1], found[n], child.buf)
  BY <1>1, FilingDef
<1>3. 0 \in T
  <2>1. 1..0 = {}
    OBVIOUS
  <2>2. Filed1(db, 0)
    BY <2>1 DEF Accounted, Filed1, Unique
  <2> QED
    BY <1>2, <2>2
<1>4. ASSUME NEW n \in Nat, n \in T PROVE n + 1 \in T
  <2> SUFFICES ASSUME n + 1 \in 0..Len(found) PROVE Filed1(Filing[n + 1], n + 1)
    OBVIOUS
  <2>1. n \in 0..Len(found) /\ n + 1 \in 1..Len(found) /\ (n + 1) - 1 = n /\ 1..(n + 1) = (1..n) \cup {n + 1}
    BY <1>1
  <2>2. PICK d : d = Filing[n]
    OBVIOUS
  <2>3. Filed1(d, n)
    BY <1>4, <2>1, <2>2
  <2>4. PICK f : f = Filing[n + 1]
    OBVIOUS
  <2>5. f = Filed(d, found[n + 1], child.buf)
    BY <1>2, <2>1, <2>2, <2>4
  <2>6. PICK run \in Runs : run = found[n + 1]
    BY <1>1, <2>1
  <2>7. /\ f \in SUBSET Files /\ Unique(f) /\ Keys(f) = Keys(d) \cup run.bugs
        /\ \A r \in f : r \in d \/ (r.key \in run.bugs /\ r.by = run.by /\ r.witness = child.buf)
    <3>1. d \in SUBSET Files /\ Unique(d)
      BY <2>3 DEF Filed1
    <3> QED
      BY <1>1, <2>5, <2>6, <3>1, FiledAdds
  <2>8. \A k \in run.bugs : [key |-> k, by |-> run.by, from |-> child.buf] \in reported
    BY <1>1, <2>1, <2>6 DEF Accounted
  <2>9. \A r \in f : [key |-> r.key, by |-> r.by, from |-> r.witness] \in reported
    BY <2>3, <2>7, <2>8 DEF Filed1
  <2>10. UNION {found[i].bugs : i \in 1..(n + 1)} = (UNION {found[i].bugs : i \in 1..n}) \cup run.bugs
    BY <2>1, <2>6
  <2>11. Keys(f) = Keys(db) \cup UNION {found[i].bugs : i \in 1..(n + 1)}
    BY <2>3, <2>7, <2>10 DEF Filed1
  <2> QED
    BY <2>4, <2>7, <2>9, <2>11 DEF Filed1
<1>5. Nat \subseteq T
  <2> HIDE DEF T
  <2> QED
    BY <1>3, <1>4, SetInduction
<1> QED
  BY <1>1, <1>5

LEMMA FileChildAccounted == ASSUME Accounted, Shape, FileChild, crashed' = crashed PROVE Accounted'
<1>1. /\ child \in CEntry /\ child' = None /\ found' = <<>> /\ reported' = reported /\ raised' = raised
      /\ pc' = "loop" /\ DOMAIN found' = {} /\ DOMAIN found = 1..Len(found)
  BY DEF FileChild, Shape
<1>2. ReportedKeys' = ReportedKeys /\ FoundKeys' = {}
  BY <1>1 DEF ReportedKeys, FoundKeys
<1>3. CASE KeepsChild
  <2>1. Filed1(db', Len(found))
    BY <1>1, <1>3, FilingKeeps DEF FileChild
  <2>2. FoundKeys = UNION {found[i].bugs : i \in 1..Len(found)}
    BY <1>1 DEF FoundKeys
  <2> QED
    BY <1>1, <1>2, <2>1, <2>2 DEF Accounted, Filed1, Unique
<1>4. CASE ~KeepsChild
  <2>1. FoundKeys = {}
    BY <1>4 DEF KeepsChild, AnyFound, FoundKeys
  <2>2. db' = db /\ Keys(db)' = Keys(db)
    BY <1>4 DEF FileChild, Keys
  <2> QED
    BY <1>1, <1>2, <2>1, <2>2 DEF Accounted
<1> QED
  BY <1>3, <1>4

LEMMA AccountedNext == Accounted /\ Shape /\ Shape' /\ [LinuxNext]_allVars => Accounted'
<1> SUFFICES ASSUME Accounted, Shape, Shape', [LinuxNext]_allVars PROVE Accounted'
  OBVIOUS
<1>1. CASE RunFaults
  BY <1>1, NothingReported DEF RunFaults
<1>2. CASE Next /\ crashed' = crashed
  <2>1. CASE TakeOver \/ SeedsDone \/ GiveBack \/ CallConcolic \/ TakeAnswer \/ (ConcolicNext /\ UNCHANGED bvars)
    BY <1>2, <2>1, NothingReported DEF TakeOver, SeedsDone, GiveBack, CallConcolic, TakeAnswer, bvars, Accounted
  <2>2. CASE StartSeed \/ StartChild \/ StartRecheck
    BY <1>2, <2>2, NothingReported DEF StartSeed, StartChild, StartRecheck, BeginRun, Accounted
  <2>3. CASE RunBlock
    BY <1>2, <2>3, NothingReported DEF RunBlock, Accounted
  <2>4. CASE EndSeed \/ EndChild \/ EndRecheck \/ FileChild
    BY <1>2, <2>4, EndSeedAccounted, EndChildAccounted, EndRecheckAccounted, FileChildAccounted
  <2> QED
    BY <1>2, <2>1, <2>2, <2>3, <2>4 DEF Next
<1>3. CASE UNCHANGED allVars
  BY <1>3, NothingReported DEF allVars, vars, bvars, lvars
<1> QED
  BY <1>1, <1>2, <1>3, StepsAreShared

-----------------------------------------------------------------------------
(* The theorems.                                                           *)

Inv == Isolated /\ Nested /\ Shape /\ Stubbed /\ Accounted

\* Every reachable state of either campaign satisfies the invariant.
THEOREM Invariance == LinuxSpec => []Inv
<1>1. LinuxInit => Inv
  BY IsolatedInitially, NestedInitially, ShapeInitially, StubbedInitially, AccountedInitially DEF Inv
<1>2. Inv /\ [LinuxNext]_allVars => Inv'
  <2> SUFFICES ASSUME Inv, [LinuxNext]_allVars PROVE Inv'
    OBVIOUS
  <2>1. Isolated /\ Nested /\ Shape /\ Stubbed /\ Accounted
    BY DEF Inv
  <2>2. Isolated' /\ Nested'
    BY <2>1, IsolatedNext, NestedNext
  <2>3. Shape'
    BY <2>1, ShapeNext
  <2>4. Stubbed' /\ Accounted'
    BY <2>1, <2>3, StubbedNext, AccountedNext
  <2> QED
    BY <2>2, <2>3, <2>4 DEF Inv
<1> QED
  BY <1>1, <1>2, PTL DEF LinuxSpec

\* The kernel, what both campaigns work on and the stubs have their types, and in a Linux
\* campaign the nested campaign never leaves an input to be run again.
THEOREM TypeCorrect == LinuxSpec => []LinuxTypeOK
<1>1. Inv => LinuxTypeOK
  <2> SUFFICES ASSUME Inv PROVE LinuxTypeOK
    OBVIOUS
  <2>1. kernel \in KernelType(Engines, MaxLog)
    <3>1. /\ kernel \in [mem : Values, log : Seq(Values), dead : BOOLEAN, queue : BOOLEAN, cpu : Engines,
                         engine : [Engines -> EngineStates]]
          /\ Len(kernel.log) \in 1..MaxLog
      BY DEF Inv, Isolated, Touched
    <3>2. kernel.log \in [1..Len(kernel.log) -> Values] /\ Len(kernel.log) \in 0..MaxLog
      BY <3>1
    <3>3. kernel.log \in UNION {[1..n -> Values] : n \in 0..MaxLog}
      BY <3>2
    <3> QED
      BY <3>1, <3>3 DEF KernelType, EngineStates
  <2>2. ConcolicTypeOK
    BY <2>1 DEF Inv, ConcolicTypeOK, Nested, Isolated, Cpcs, Trackers, CEntry
  <2>3. TypeOK
    <3>1. db \subseteq [key : Bugs, by : Inputs, witness : Inputs]
      BY DEF Inv, Accounted, Files
    <3> QED
      BY <2>2, <3>1 DEF Inv, TypeOK, Shape, Isolated, Trackers, CEntry, Runs
  <2>4. policy \in Inputs \cup {"default"}
    BY DEF Inv, Stubbed, Shape
  <2> QED
    BY <2>3, <2>4 DEF Inv, Stubbed, LinuxTypeOK
<1> QED
  BY <1>1, Invariance, PTL

\* Every run of either engine is of its own input alone, and leaves nothing behind:
\* processor, wrapped functions and allocator, kernel and stub policy.
THEOREM RunsNeverMix == LinuxSpec => []RunsAreIsolated
<1>1. Inv => RunsAreIsolated
  <2> SUFFICES ASSUME Inv PROVE RunsAreIsolated
    OBVIOUS
  <2>1. TracedRuns
    BY DEF Inv, Isolated, TracedRuns, Running, Borrowed
  <2>2. KernelAsFound
    BY DEF Inv, Isolated, KernelAsFound, InRun, Clean
  <2>3. StubsFollowInput
    <3>1. ASSUME crashed, pc \in {"loop", "done"} PROVE NullDeref \in Keys(db)
      <4>1. found = <<>> /\ DOMAIN found = {}
        BY <3>1 DEF Inv, Accounted
      <4>2. raised \subseteq Bugs /\ NullDeref \in raised \cup ReportedKeys
        BY <3>1 DEF Inv, Accounted, Shape
      <4>3. raised = {}
        BY <3>1 DEF Inv, Shape, Running
      <4> QED
        BY <4>1, <4>2, <4>3 DEF Inv, Accounted, FoundKeys
    <3> QED
      BY <3>1 DEF Inv, Stubbed, StubsFollowInput
  <2> QED
    BY <2>1, <2>2, <2>3 DEF RunsAreIsolated
<1> QED
  BY <1>1, Invariance, PTL

\* Between two children the database has every bug raised so far, once, with a witness
\* that shows it.
THEOREM NoBugIsLost == LinuxSpec => []BugsAreKept
<1>1. Inv => BugsAreKept
  <2> SUFFICES ASSUME Inv, pc \in {"loop", "done"}
               PROVE  /\ Keys(db) = {r.key : r \in reported}
                      /\ Cardinality(db) = Cardinality(Keys(db))
                      /\ \A r \in db : [key |-> r.key, by |-> r.by, from |-> r.witness] \in reported
    BY DEF BugsAreKept
  <2>1. Accounted /\ FoundKeys = {}
    BY DEF Inv, Accounted, FoundKeys
  <2>2. IsFiniteSet(Keys(db))
    <3>1. Keys(db) \in SUBSET Bugs
      BY <2>1 DEF Accounted, Keys, Files
    <3> QED
      BY <3>1, BugAssumption, FS_Subset
  <2> DEFINE key == [r \in db |-> r.key]
  <2>3. key \in Injection(db, Keys(db)) /\ key \in Surjection(db, Keys(db))
    BY <2>1 DEF Accounted, Keys, Injection, Surjection, IsInjective
  <2>4. Cardinality(db) = Cardinality(Keys(db))
    <3> HIDE DEF key
    <3> QED
      BY <2>2, <2>3, FS_Injection
  <2> QED
    BY <2>1, <2>4 DEF Accounted, ReportedKeys
<1> QED
  BY <1>1, Invariance, PTL

-----------------------------------------------------------------------------
(* The taint engine.                                                       *)

\* The ids that may be found anywhere now: those of the input that runs, or, when taint of
\* the input before was left in an operand, any that was handed out.
Allowed == IF running /\ ~carried THEN OfThisInput \cup {0} ELSE 0..(nextId - 1)

Words(S) == {s \in Seq(S) : Len(s) = Width}
Operands(S) == {s \in Seq(S) : Len(s) <= Width /\ Tainted(s)}
SinkNames == {s.id : s \in Catalog} \cup RaisedElsewhere
Degrees == {"full", "bounded", "influenced"}
BugsOf(S) == [sink : SinkNames \ {"DOUBLE_FETCH"}, degree : Degrees, ids : Seq(S)]
Fetch(a) == Bug("DOUBLE_FETCH", "full", <<a>>)
FetchBugs == {Fetch(a) : a \in Addresses}

Counted ==
    /\ running \in BOOLEAN /\ flags \in BOOLEAN /\ lengths \in BOOLEAN /\ carried \in BOOLEAN
    /\ runs \in 0..InputRuns /\ hooks \in 0..MaxHooks
    /\ nextId \in Nat \ {0} /\ (running => nextId >= 2 * BufLen)
    /\ holds \in [RegNames -> Addresses \cup {NoTaint}]
    /\ reads \in [Addresses -> Nat]

\* Where there are ids.
Placed ==
    /\ mem \in [Cells -> Allowed]
    /\ reg \in [RegNames -> Words(Allowed) \cup {NoTaint}]
    /\ load \in Operands(Allowed) \cup {NoTaint}
    /\ pending \in Operands(Allowed) \cup {NoTaint}
    /\ bugs \in Seq(BugsOf(Allowed) \cup FetchBugs)

Kept == running => \A c \in Cells \ stored : mem[c] = IF c < BufLen THEN FirstId + c ELSE 0

FetchesOf(s, a) == {i \in DOMAIN s : s[i] = Fetch(a)}
Once(a) == Cardinality(FetchesOf(bugs, a)) = IF reads[a] >= 2 THEN 1 ELSE 0

TaintInv == Counted /\ Placed /\ Kept /\ \A a \in Addresses : Once(a)

-----------------------------------------------------------------------------
(* Operands.                                                               *)

LEMMA Sizing ==
    ASSUME TaintAssumption
    PROVE  /\ Width \in Nat /\ Width \in 1..Width
           /\ \A n \in Sizes : n \in Nat /\ n \in 1..Width
<1>1. Width \in Nat \ {0} /\ Sizes \subseteq 1..Width
  BY DEF TaintAssumption
<1>2. ASSUME NEW n \in Sizes PROVE n \in Nat /\ n \in 1..Width
  BY <1>1
<1> QED
  BY <1>1, <1>2

LEMMA AllowedIds == ASSUME TaintAssumption, Counted PROVE Allowed \subseteq 0..(nextId - 1) /\ 0 \in Allowed
<1>1. BufLen \in Nat \ {0} /\ nextId \in Nat \ {0} /\ (running => nextId >= 2 * BufLen)
  BY DEF TaintAssumption, Counted
<1>2. CASE running /\ ~carried
  <2>1. Allowed = FirstId..(FirstId + BufLen - 1) \cup {0}
    BY <1>2 DEF Allowed, OfThisInput
  <2>2. FirstId \in Nat /\ FirstId + BufLen - 1 <= nextId - 1
    BY <1>1, <1>2 DEF FirstId
  <2> QED
    BY <1>1, <2>1, <2>2
<1>3. CASE ~(running /\ ~carried)
  BY <1>1, <1>3 DEF Allowed
<1> QED
  BY <1>2, <1>3

LEMMA CellsOfAnOperand ==
    ASSUME TaintAssumption, NEW a \in Addresses, NEW n \in Sizes, NEW i \in 1..n
    PROVE  a \in Nat /\ n \in Nat /\ a + i - 1 \in Cells
<1>1. a \in Nat /\ n \in 1..Width /\ Width \in Nat /\ a + Width - 1 \in Cells
  BY DEF TaintAssumption, Addresses
<1>2. a + i - 1 \in 0..(a + Width - 1)
  BY <1>1
<1> QED
  BY <1>1, <1>2 DEF TaintAssumption

LEMMA PartOfAWord ==
    ASSUME NEW S, Width \in Nat, NEW w \in Words(S), NEW n \in 1..Width
    PROVE  SubSeq(w, 1, n) \in Seq(S) /\ Len(SubSeq(w, 1, n)) = n
<1>1. w \in Seq(S) /\ Len(w) = Width
  BY DEF Words
<1> QED
  BY <1>1, SubSeqProperties

LEMMA RegTaintHas ==
    ASSUME TaintAssumption, NEW S, reg \in [RegNames -> Words(S) \cup {NoTaint}],
           NEW r \in RegNames, NEW n \in 1..Width
    PROVE  RegTaint(r, n) \in Seq(S) /\ Len(RegTaint(r, n)) <= Width
<1>1. Width \in Nat
  BY Sizing
<1>2. CASE reg[r] = NoTaint
  <2>1. RegTaint(r, n) = <<>>
    BY <1>2 DEF RegTaint
  <2> QED
    BY <2>1, <1>1
<1>3. CASE reg[r] # NoTaint
  <2>1. reg[r] \in Words(S)
    BY <1>3
  <2>2. RegTaint(r, n) = SubSeq(reg[r], 1, n)
    BY <1>3 DEF RegTaint
  <2>3. SubSeq(reg[r], 1, n) \in Seq(S) /\ Len(SubSeq(reg[r], 1, n)) = n
    BY <1>1, <2>1, PartOfAWord
  <2>4. n <= Width
    BY <1>1
  <2> QED
    BY <2>2, <2>3, <2>4
<1> QED
  BY <1>2, <1>3

LEMMA RangeTaintHas ==
    ASSUME TaintAssumption, NEW S, mem \in [Cells -> S], NEW a \in Addresses, NEW n \in Sizes
    PROVE  RangeTaint(a, n) \in Seq(S) /\ Len(RangeTaint(a, n)) <= Width
<1>1. n \in 1..Width /\ Width \in Nat
  BY DEF TaintAssumption
<1>2. \A i \in 1..n : mem[a + i - 1] \in S
  BY CellsOfAnOperand
<1>3. RangeTaint(a, n) \in [1..n -> S]
  BY <1>2 DEF RangeTaint
<1>4. RangeTaint(a, n) \in Seq(S) /\ Len(RangeTaint(a, n)) = n
  BY <1>1, <1>3
<1> QED
  BY <1>1, <1>4

LEMMA KnownOperand ==
    ASSUME NEW S, NEW ids \in Seq(S), Len(ids) <= Width
    PROVE  Known(ids) \in Operands(S) \cup {NoTaint}
  BY DEF Known, Operands

LEMMA PaddedWord ==
    ASSUME TaintAssumption, NEW S, 0 \in S, NEW ids \in Seq(S), NEW n \in Nat
    PROVE  Padded(ids, n) \in Words(S)
<1>1. Width \in Nat
  BY DEF TaintAssumption
<1>2. Padded(ids, n) \in [1..Width -> S]
  BY <1>1 DEF Padded
<1> QED
  BY <1>1, <1>2 DEF Words

LEMMA RegAfterHas ==
    ASSUME TaintAssumption, NEW S, 0 \in S, reg \in [RegNames -> Words(S) \cup {NoTaint}],
           pending \in Operands(S) \cup {NoTaint}, NEW r \in RegNames, NEW n \in Nat
    PROVE  RegAfter(r, n) \in [RegNames -> Words(S) \cup {NoTaint}]
<1>1. (IF pending = NoTaint THEN NoTaint ELSE Padded(pending, n)) \in Words(S) \cup {NoTaint}
  BY PaddedWord DEF Operands
<1> QED
  BY <1>1 DEF RegAfter

LEMMA MemAfterHas ==
    ASSUME TaintAssumption, 0 \in Allowed, mem \in [Cells -> Allowed],
           pending \in Operands(Allowed) \cup {NoTaint}, NEW a \in Addresses, NEW n \in Sizes
    PROVE  /\ MemAfter(a, n) \in [Cells -> Allowed]
           /\ \A c \in Cells \ (a..(a + n - 1)) : MemAfter(a, n)[c] = mem[c]
<1>1. a \in Nat /\ n \in Nat /\ Cells \subseteq Nat
  BY SMTT(20) DEF TaintAssumption, Addresses
<1>2. ASSUME NEW c \in Cells, c \in a..(a + n - 1), pending # NoTaint, c - a < Len(pending)
      PROVE  pending[c - a + 1] \in Allowed
  <2>1. pending \in Seq(Allowed)
    BY <1>2 DEF Operands
  <2>2. c - a + 1 \in 1..Len(pending)
    BY <1>1, <1>2, <2>1
  <2> QED
    BY <2>1, <2>2
<1>3. MemAfter(a, n) \in [Cells -> Allowed]
  BY <1>2 DEF MemAfter
<1>4. ASSUME NEW c \in Cells \ (a..(a + n - 1)) PROVE MemAfter(a, n)[c] = mem[c]
  BY DEF MemAfter
<1> QED
  BY <1>3, <1>4

LEMMA LeastIsMin == ASSUME NEW T \in SUBSET Nat, T # {} PROVE Min(T) \in T
<1>1. PICK x \in T : \A y \in T : x <= y
  BY LeastNumber
<1> QED
  BY <1>1 DEF Min

LEMMA AddrTaintHas ==
    ASSUME TaintAssumption, NEW S, reg \in [RegNames -> Words(S) \cup {NoTaint}], NEW a
    PROVE  AddrTaint(a) = NoTaint \/ AddrTaint(a) \in Seq(S)
<1> DEFINE atAddr == {i \in DOMAIN Regs : Tainted(RegTaint(Regs[i], Width)) /\ holds[Regs[i]] = a}
<1>1. Regs \in Seq(STRING) /\ Width \in 1..Width
  BY DEF TaintAssumption
<1>2. CASE atAddr = {}
  BY <1>2 DEF AddrTaint
<1>3. CASE atAddr # {}
  <2>1. \A i \in atAddr : i \in 1..Len(Regs) /\ Len(Regs) \in Nat
    BY <1>1
  <2>2. Min(atAddr) \in atAddr
    <3> HIDE DEF atAddr
    <3>1. atAddr \in SUBSET Nat
      BY <2>1
    <3> QED
      BY <3>1, <1>3, LeastIsMin
  <2>3. Min(atAddr) \in 1..Len(Regs)
    BY <2>1, <2>2
  <2>4. Regs[Min(atAddr)] \in RegNames
    <3> HIDE DEF atAddr
    <3> QED
      BY <2>3, <1>1 DEF RegNames, ToSet
  <2>5. RegTaint(Regs[Min(atAddr)], Width) \in Seq(S)
    BY <2>4, <1>1, RegTaintHas
  <2> QED
    BY <2>5, <1>3 DEF AddrTaint
<1> QED
  BY <1>2, <1>3

-----------------------------------------------------------------------------
(* Bugs.                                                                   *)

\* A finite set as a sequence has its elements.
LEMMA AsSequence ==
    ASSUME NEW S, IsFiniteSet(S)
    PROVE  SetToSeq(S) \in Seq(S)
<1>1. Cardinality(S) \in Nat /\ \E f : f \in Bijection(1..Cardinality(S), S)
  BY FS_CardinalityType DEF ExistsBijection
<1>2. PICK f : f \in Bijection(1..Cardinality(S), S)
  BY <1>1
<1>3. f \in [1..Cardinality(S) -> S] /\ IsInjective(f)
  BY <1>2 DEF Bijection, Injection, IsInjective
<1>4. SetToSeq(S) \in [1..Cardinality(S) -> S]
  BY <1>3 DEF SetToSeq
<1> QED
  BY <1>1, <1>4

\* The sinks, with what counts of them.
LEMMA CatalogCases ==
    ASSUME NEW s \in Catalog
    PROVE  /\ s.id \in SinkNames \ {"DOUBLE_FETCH"}
           /\ \/ s.params = {Param(0, "dstAddr"), Param(2, "length")}
              \/ s.params = {Param(0, "physAddr")}
              \/ s.params = {Param(0, "pid")}
              \/ s.params = {Param(2, "path")}
              \/ s.params = {Param(1, "size")}
<1>1. \E id, apis, params :
        /\ s = Sink(id, apis, params)
        /\ id \in {"RTLCOPYMEM_TAINTED_DST_OR_LEN", "MM_MAP_IOSPACE_TAINTED",
                   "OBJ_OPEN_TAINTED_PID", "ZW_FILE_TAINTED_PATH", "POOL_OVERFLOW_TAINTED_SIZE"}
        /\ \/ params = {Param(0, "dstAddr"), Param(2, "length")}
           \/ params = {Param(0, "physAddr")}
           \/ params = {Param(0, "pid")}
           \/ params = {Param(2, "path")}
           \/ params = {Param(1, "size")}
  BY Zenon DEF Catalog
<1>2. PICK id, apis, params :
        /\ s = Sink(id, apis, params)
        /\ id \in {"RTLCOPYMEM_TAINTED_DST_OR_LEN", "MM_MAP_IOSPACE_TAINTED",
                   "OBJ_OPEN_TAINTED_PID", "ZW_FILE_TAINTED_PATH", "POOL_OVERFLOW_TAINTED_SIZE"}
        /\ \/ params = {Param(0, "dstAddr"), Param(2, "length")}
           \/ params = {Param(0, "physAddr")}
           \/ params = {Param(0, "pid")}
           \/ params = {Param(2, "path")}
           \/ params = {Param(1, "size")}
  BY <1>1
<1>3. s.id = id /\ s.params = params
  BY <1>2 DEF Sink
<1>4. s.id \in SinkNames
  BY DEF SinkNames
<1> QED
  BY <1>2, <1>3, <1>4

LEMMA CatalogFinite == IsFiniteSet(Catalog) /\ \A s \in Catalog : IsFiniteSet(s.params)
<1>1. \A a, b, c, d, e : IsFiniteSet({a, b, c, d, e})
  <2> TAKE a, b, c, d, e
  <2>1. IsFiniteSet({a})
    BY FS_Singleton
  <2>2. IsFiniteSet({a} \cup {b})
    BY <2>1, FS_AddElement
  <2>3. IsFiniteSet({a} \cup {b} \cup {c})
    BY <2>2, FS_AddElement
  <2>4. IsFiniteSet({a} \cup {b} \cup {c} \cup {d})
    BY <2>3, FS_AddElement
  <2>5. IsFiniteSet({a} \cup {b} \cup {c} \cup {d} \cup {e})
    BY <2>4, FS_AddElement
  <2>6. {a, b, c, d, e} = {a} \cup {b} \cup {c} \cup {d} \cup {e}
    OBVIOUS
  <2> QED
    BY <2>5, <2>6
<1>2. IsFiniteSet(Catalog)
  BY <1>1 DEF Catalog
<1>3. ASSUME NEW s \in Catalog PROVE IsFiniteSet(s.params)
  <2>1. \A a, b : IsFiniteSet({a, b}) /\ IsFiniteSet({a})
    <3> TAKE a, b
    <3>1. {a, b} = {a, b, a, a, b} /\ {a} = {a, a, a, a, a}
      OBVIOUS
    <3> QED
      BY <3>1, <1>1
  <2>2. \E a, b : s.params = {a, b} \/ s.params = {a}
    BY CatalogCases
  <2> QED
    BY <2>1, <2>2
<1> QED
  BY <1>2, <1>3

LEMMA CatalogParams == ASSUME NEW s \in Catalog, NEW p \in s.params PROVE p.idx \in 0..2
<1>1. \A i, role : Param(i, role).idx = i
  BY DEF Param
<1> QED
  BY <1>1, CatalogCases

\* The bugs of one call are bugs of its sinks, and finitely many.
LEMMA ApiBugsHave ==
    ASSUME TaintAssumption, NEW S, reg \in [RegNames -> Words(S) \cup {NoTaint}], NEW api
    PROVE  SetToSeq(ApiBugs(api)) \in Seq(BugsOf(S))
<1> DEFINE bug(s, p) == Bug(s.id, RoleDegree(p.role), RegTaint(ArgRegs[p.idx + 1], Width))
           sinks == SinksForApi(api)
           taken(s) == {q \in s.params : \/ Tainted(RegTaint(ArgRegs[q.idx + 1], Width))
                                         \/ q.role = "length" /\ lengths}
           ofSink(s) == {bug(s, p) : p \in taken(s)}
<1>1. ASSUME NEW s \in Catalog, NEW p \in s.params PROVE bug(s, p) \in BugsOf(S)
  <2>1. p.idx \in 0..2 /\ s.id \in SinkNames \ {"DOUBLE_FETCH"}
    BY CatalogParams, CatalogCases
  <2>2. p.idx + 1 \in 1..Len(ArgRegs) /\ ArgRegs \in Seq(RegNames)
    BY <2>1 DEF TaintAssumption, RegNames
  <2>3. RegTaint(ArgRegs[p.idx + 1], Width) \in Seq(S)
    <3>1. ArgRegs[p.idx + 1] \in RegNames
      BY <2>2
    <3>2. Width \in 1..Width
      BY Sizing
    <3> QED
      BY <3>1, <3>2, RegTaintHas
  <2>4. RoleDegree(p.role) \in Degrees
    BY DEF RoleDegree, Degrees
  <2> QED
    BY <2>1, <2>3, <2>4 DEF Bug, BugsOf
<1>2. sinks \subseteq Catalog /\ \A s \in sinks : taken(s) \subseteq s.params
  BY DEF SinksForApi
<1>3. ApiBugs(api) = UNION {ofSink(s) : s \in sinks}
  BY DEF ApiBugs
<1> HIDE DEF bug, taken, sinks
<1>4. ApiBugs(api) \subseteq BugsOf(S)
  BY <1>1, <1>2, <1>3
<1>5. ASSUME NEW s \in sinks PROVE IsFiniteSet(ofSink(s))
  <2> DEFINE f == [p \in taken(s) |-> bug(s, p)]
  <2>1. IsFiniteSet(taken(s))
    BY <1>2, CatalogFinite, FS_Subset
  <2>2. f \in Surjection(taken(s), ofSink(s))
    BY DEF Surjection
  <2> QED
    BY <2>1, <2>2, FS_Surjection
<1> HIDE DEF ofSink
<1> DEFINE all == {ofSink(s) : s \in sinks}
<1>6. IsFiniteSet(all)
  <2> DEFINE f == [s \in sinks |-> ofSink(s)]
  <2>1. IsFiniteSet(sinks)
    BY <1>2, CatalogFinite, FS_Subset
  <2>2. f \in Surjection(sinks, all)
    BY DEF Surjection
  <2> QED
    BY <2>1, <2>2, FS_Surjection
<1>7. IsFiniteSet(ApiBugs(api))
  <2>1. \A T \in all : IsFiniteSet(T)
    BY <1>5
  <2> HIDE DEF all
  <2>2. IsFiniteSet(UNION all)
    BY <1>6, <2>1, FS_UNION
  <2> QED
    BY <1>3, <2>2 DEF all
<1>8. SetToSeq(ApiBugs(api)) \in Seq(ApiBugs(api))
  BY <1>7, AsSequence
<1> QED
  BY <1>4, <1>8

\* Bugs that are no double fetch leave the fetches as they are; a double fetch adds one.
LEMMA OtherBugs ==
    ASSUME NEW S, NEW T, NEW s \in Seq(BugsOf(T) \cup FetchBugs), NEW t \in Seq(BugsOf(S)),
           NEW a \in Addresses
    PROVE  FetchesOf(s \o t, a) = FetchesOf(s, a)
<1>1. \A i \in 1..Len(t) : t[i] # Fetch(a)
  BY DEF BugsOf, Fetch, Bug
<1>2. /\ DOMAIN (s \o t) = 1..(Len(s) + Len(t))
      /\ \A i \in 1..(Len(s) + Len(t)) : (s \o t)[i] = IF i <= Len(s) THEN s[i] ELSE t[i - Len(s)]
  OBVIOUS
<1>3. Len(s) \in Nat /\ Len(t) \in Nat /\ DOMAIN s = 1..Len(s)
  OBVIOUS
<1>4. ASSUME NEW i \in 1..(Len(s) + Len(t)), ~(i <= Len(s)) PROVE (s \o t)[i] # Fetch(a)
  BY <1>1, <1>2, <1>3, <1>4
<1>5. \A i \in 1..(Len(s) + Len(t)) : (s \o t)[i] = Fetch(a) <=> i \in 1..Len(s) /\ s[i] = Fetch(a)
  BY <1>2, <1>3, <1>4
<1> QED
  BY <1>2, <1>3, <1>5 DEF FetchesOf

LEMMA FetchBug ==
    ASSUME NEW T, NEW s \in Seq(T), NEW b \in Addresses, NEW a \in Addresses
    PROVE  /\ Cardinality(FetchesOf(s, a)) \in Nat
           /\ Cardinality(FetchesOf(Append(s, Fetch(b)), a))
                = Cardinality(FetchesOf(s, a)) + (IF a = b THEN 1 ELSE 0)
<1> DEFINE u == Append(s, Fetch(b))
<1>1. Len(s) \in Nat /\ DOMAIN s = 1..Len(s) /\ DOMAIN u = 1..(Len(s) + 1)
  OBVIOUS
<1>2. u[Len(s) + 1] = Fetch(b) /\ \A i \in 1..Len(s) : u[i] = s[i]
  OBVIOUS
<1>3. Fetch(b) = Fetch(a) <=> b = a
  <2>1. Fetch(b) = Fetch(a) => <<b>> = <<a>>
    BY DEF Fetch, Bug
  <2>2. <<b>> = <<a>> => b = a
    OBVIOUS
  <2> QED
    BY <2>1, <2>2
<1> HIDE DEF u
<1>4. FetchesOf(s, a) \subseteq 1..Len(s) /\ IsFiniteSet(FetchesOf(s, a))
  <2>1. FetchesOf(s, a) \subseteq 1..Len(s)
    BY <1>1 DEF FetchesOf
  <2>2. IsFiniteSet(1..Len(s))
    BY <1>1, FS_Interval
  <2> QED
    BY <2>1, <2>2, FS_Subset
<1>5. FetchesOf(u, a) = IF a = b THEN FetchesOf(s, a) \cup {Len(s) + 1} ELSE FetchesOf(s, a)
  BY <1>1, <1>2, <1>3 DEF FetchesOf
<1>6. Len(s) + 1 \notin FetchesOf(s, a)
  BY <1>1, <1>4
<1> QED
  BY <1>4, <1>5, <1>6, FS_AddElement, FS_CardinalityType DEF u

\* Bugs that are no double fetch, raised on top of the others.
LEMMA BugsRaised ==
    ASSUME TaintAssumption, NEW S, bugs \in Seq(BugsOf(S) \cup FetchBugs), \A a \in Addresses : Once(a),
           NEW t \in Seq(BugsOf(S)), bugs' = bugs \o t, reads' = reads
    PROVE  bugs' \in Seq(BugsOf(S) \cup FetchBugs) /\ \A a \in Addresses : Once(a)'
<1>1. bugs' \in Seq(BugsOf(S) \cup FetchBugs)
  OBVIOUS
<1>2. ASSUME NEW a \in Addresses PROVE Once(a)'
  <2>1. FetchesOf(bugs \o t, a) = FetchesOf(bugs, a)
    BY OtherBugs
  <2>2. Once(a)
    OBVIOUS
  <2> QED
    BY <2>1, <2>2 DEF Once
<1> QED
  BY <1>1, <1>2

LEMMA WiderSeq == ASSUME NEW S, NEW T, S \subseteq T, NEW s \in Seq(S) PROVE s \in Seq(T)
  OBVIOUS

LEMMA OneBug == ASSUME NEW S, NEW b \in S PROVE <<b>> \in Seq(S)
  OBVIOUS

LEMMA Allowing == ASSUME Tracking PROVE Allowed' = Allowed /\ FirstId' = FirstId
  BY DEF Tracking, Allowed, OfThisInput, FirstId

\* A hook that leaves ids where they may be keeps the invariant.
LEMMA HookKeeps ==
    ASSUME TaintAssumption, TaintInv, Tracking,
           hooks' \in 0..MaxHooks, flags' \in BOOLEAN,
           holds' \in [RegNames -> Addresses \cup {NoTaint}],
           reads' \in [Addresses -> Nat],
           mem' \in [Cells -> Allowed],
           reg' \in [RegNames -> Words(Allowed) \cup {NoTaint}],
           load' \in Operands(Allowed) \cup {NoTaint},
           pending' \in Operands(Allowed) \cup {NoTaint},
           bugs' \in Seq(BugsOf(Allowed) \cup FetchBugs),
           \A c \in Cells \ stored' : c \notin stored /\ mem'[c] = mem[c],
           \A a \in Addresses : Once(a)'
    PROVE  TaintInv'
<1>1. Allowed' = Allowed /\ FirstId' = FirstId
  BY Allowing
<1>2. Counted'
  BY DEF TaintInv, Counted, Tracking
<1>3. Placed'
  BY <1>1 DEF Placed
<1>4. Kept'
  BY <1>1 DEF TaintInv, Kept, Tracking
<1> QED
  BY <1>2, <1>3, <1>4 DEF TaintInv

LEMMA Called == ASSUME TaintAssumption, TaintInv, HookCalled PROVE hooks' \in 0..MaxHooks
  BY DEF TaintAssumption, TaintInv, Counted, HookCalled

LEMMA BugsStay == ASSUME UNCHANGED <<bugs, reads>>, \A a \in Addresses : Once(a)
                  PROVE  \A a \in Addresses : Once(a)'
  BY DEF Once

-----------------------------------------------------------------------------
(* The hooks.                                                              *)

LEMMA AddrBug ==
    ASSUME TaintAssumption, NEW S, reg \in [RegNames -> Words(S) \cup {NoTaint}], NEW a,
           AddrTaint(a) # NoTaint, NEW d \in Degrees
    PROVE  /\ Bug("ARBITRARY_READ_DEREF", d, AddrTaint(a)) \in BugsOf(S)
           /\ Bug("ARBITRARY_WRITE_DEREF", d, AddrTaint(a)) \in BugsOf(S)
<1>1. AddrTaint(a) \in Seq(S)
  BY AddrTaintHas
<1> QED
  BY <1>1 DEF Bug, BugsOf, SinkNames, RaisedElsewhere

LEMMA LoadMemKeeps ==
    ASSUME TaintAssumption, TaintInv, NEW a \in Addresses, NEW n \in Sizes, NEW op \in BOOLEAN,
           LoadMem(a, n, op)
    PROVE  TaintInv'
<1> DEFINE at == AddrTaint(a)
           ids == RangeTaint(a, n)
           B == BugsOf(Allowed)
           x == IF at = NoTaint THEN <<>> ELSE <<Bug("ARBITRARY_READ_DEREF", "full", at)>>
           y == IF Tainted(ids) /\ Fetched(a) THEN <<Fetch(a)>> ELSE <<>>
           m == bugs \o x
<1>1. /\ HookCalled /\ Tracking /\ UNCHANGED <<mem, reg, holds, flags, stored>>
      /\ bugs' = bugs \o x \o y
      /\ reads' = IF Tainted(ids) THEN [reads EXCEPT ![a] = @ + 1] ELSE reads
      /\ load' = Known(ids)
      /\ pending' = IF op THEN load' ELSE pending
  BY DEF LoadMem, Fetch
<1>2. Placed /\ Counted /\ \A b \in Addresses : Once(b)
  BY DEF TaintInv
<1>3. ids \in Seq(Allowed) /\ Len(ids) <= Width
  BY <1>2, RangeTaintHas DEF Placed
<1>4. load' \in Operands(Allowed) \cup {NoTaint}
  BY <1>1, <1>3, KnownOperand
<1>5. pending' \in Operands(Allowed) \cup {NoTaint}
  BY <1>1, <1>2, <1>4 DEF Placed
<1>6. x \in Seq(B)
  <2>1. CASE at = NoTaint
    BY <2>1
  <2>2. CASE at # NoTaint
    <3>1. Bug("ARBITRARY_READ_DEREF", "full", at) \in B
      BY <1>2, <2>2, AddrBug DEF Placed, Degrees
    <3> QED
      BY <2>2, <3>1, OneBug
  <2> QED
    BY <2>1, <2>2
<1>7. m \in Seq(B \cup FetchBugs) /\ \A b \in Addresses : FetchesOf(m, b) = FetchesOf(bugs, b)
  <2>1. bugs \in Seq(B \cup FetchBugs)
    BY <1>2 DEF Placed
  <2> HIDE DEF x
  <2>2. m \in Seq(B \cup FetchBugs)
    BY <2>1, <1>6
  <2> QED
    BY <2>1, <2>2, <1>6, OtherBugs
<1>8. reads' \in [Addresses -> Nat]
  BY <1>1, <1>2 DEF Counted
<1> HIDE DEF x, m, ids
<1>9. bugs' = IF Tainted(ids) /\ Fetched(a) THEN Append(m, Fetch(a)) ELSE m
  <2>1. CASE Tainted(ids) /\ Fetched(a)
    <3>1. bugs' = m \o <<Fetch(a)>>
      BY <1>1, <2>1 DEF m
    <3> QED
      BY <3>1, <2>1, <1>7, AppendProperties, ConcatProperties
  <2>2. CASE ~(Tainted(ids) /\ Fetched(a))
    <3>1. bugs' = m \o <<>>
      BY <1>1, <2>2 DEF m
    <3> QED
      BY <3>1, <2>2, <1>7, ConcatEmptySeq
  <2> QED
    BY <2>1, <2>2
<1>10. bugs' \in Seq(B \cup FetchBugs)
  <2>1. Fetch(a) \in FetchBugs
    BY DEF FetchBugs
  <2> QED
    BY <2>1, <1>7, <1>9
<1>11. ASSUME NEW b \in Addresses PROVE Once(b)'
  <2>1. Once(b) /\ reads[b] \in Nat
    BY <1>2 DEF Counted
  <2>2. Cardinality(FetchesOf(m, b)) = IF reads[b] >= 2 THEN 1 ELSE 0
    BY <2>1, <1>7 DEF Once
  <2>3. CASE Tainted(ids) /\ Fetched(a)
    <3>1. Cardinality(FetchesOf(bugs', b)) = Cardinality(FetchesOf(m, b)) + (IF b = a THEN 1 ELSE 0)
      BY <1>7, <1>9, <2>3, FetchBug
    <3>2. reads[a] = 1 /\ reads'[b] = IF b = a THEN 2 ELSE reads[b]
      BY <1>1, <1>2, <2>3 DEF Fetched, Counted
    <3> QED
      BY <2>1, <2>2, <3>1, <3>2 DEF Once
  <2>4. CASE ~(Tainted(ids) /\ Fetched(a))
    <3>1. Cardinality(FetchesOf(bugs', b)) = IF reads[b] >= 2 THEN 1 ELSE 0
      BY <1>9, <2>2, <2>4
    <3>2. reads'[b] = IF Tainted(ids) /\ b = a THEN reads[b] + 1 ELSE reads[b]
      BY <1>1, <1>2 DEF Counted
    <3>3. Tainted(ids) => reads[a] # 1
      BY <2>4 DEF Fetched
    <3>4. reads[b] >= 2 <=> reads'[b] >= 2
      BY <2>1, <3>2, <3>3
    <3> QED
      BY <3>1, <3>4 DEF Once
  <2> QED
    BY <2>3, <2>4
<1>12. /\ hooks' \in 0..MaxHooks /\ flags' \in BOOLEAN
       /\ holds' \in [RegNames -> Addresses \cup {NoTaint}]
       /\ mem' \in [Cells -> Allowed]
       /\ reg' \in [RegNames -> Words(Allowed) \cup {NoTaint}]
       /\ \A c \in Cells \ stored' : c \notin stored /\ mem'[c] = mem[c]
  BY <1>1, <1>2, Called DEF Counted, Placed
<1> QED
  BY <1>1, <1>4, <1>5, <1>8, <1>10, <1>11, <1>12, HookKeeps

LEMMA LoadRegKeeps ==
    ASSUME TaintAssumption, TaintInv, NEW r \in RegNames, NEW n \in Sizes, LoadReg(r, n)
    PROVE  TaintInv'
<1>1. /\ HookCalled /\ Tracking /\ UNCHANGED <<mem, reg, holds, reads, flags, bugs, stored>>
      /\ load' = Known(RegTaint(r, n)) /\ pending' = load'
  BY DEF LoadReg
<1>2. Placed /\ Counted /\ \A b \in Addresses : Once(b)
  BY DEF TaintInv
<1>3. n \in 1..Width
  BY DEF TaintAssumption
<1>4. load' \in Operands(Allowed) \cup {NoTaint}
  BY <1>1, <1>2, <1>3, RegTaintHas, KnownOperand DEF Placed
<1>5. /\ hooks' \in 0..MaxHooks /\ flags' \in BOOLEAN
      /\ holds' \in [RegNames -> Addresses \cup {NoTaint}]
      /\ reads' \in [Addresses -> Nat]
      /\ mem' \in [Cells -> Allowed]
      /\ reg' \in [RegNames -> Words(Allowed) \cup {NoTaint}]
      /\ bugs' \in Seq(BugsOf(Allowed) \cup FetchBugs)
      /\ \A c \in Cells \ stored' : c \notin stored /\ mem'[c] = mem[c]
  BY <1>1, <1>2, Called DEF Counted, Placed
<1>6. \A b \in Addresses : Once(b)'
  BY <1>1, <1>2, BugsStay
<1> QED
  BY <1>1, <1>4, <1>5, <1>6, HookKeeps

LEMMA StoreMemKeeps ==
    ASSUME TaintAssumption, TaintInv, NEW a \in Addresses, NEW n \in Sizes, StoreMem(a, n)
    PROVE  TaintInv'
<1> DEFINE at == AddrTaint(a)
           bug == Bug("ARBITRARY_WRITE_DEREF", ControlDegree(at), at)
<1>1. /\ HookCalled /\ Tracking /\ UNCHANGED <<reg, holds, reads, flags>>
      /\ bugs' = IF at = NoTaint THEN bugs ELSE Append(bugs, bug)
      /\ mem' = MemAfter(a, n)
      /\ stored' = stored \cup a..(a + n - 1)
      /\ load' = NoTaint /\ pending' = NoTaint
  BY DEF StoreMem
<1>2. Placed /\ Counted /\ \A b \in Addresses : Once(b)
  BY DEF TaintInv
<1>3. 0 \in Allowed
  BY <1>2, AllowedIds
<1>4. /\ mem' \in [Cells -> Allowed]
      /\ \A c \in Cells \ stored' : c \notin stored /\ mem'[c] = mem[c]
  <2>1. mem \in [Cells -> Allowed] /\ pending \in Operands(Allowed) \cup {NoTaint}
    BY <1>2 DEF Placed
  <2>2. /\ MemAfter(a, n) \in [Cells -> Allowed]
        /\ \A c \in Cells \ (a..(a + n - 1)) : MemAfter(a, n)[c] = mem[c]
    BY <1>3, <2>1, MemAfterHas
  <2>3. \A c \in Cells \ stored' : c \notin stored /\ c \in Cells \ (a..(a + n - 1))
    BY <1>1
  <2>4. mem' = MemAfter(a, n)
    BY <1>1
  <2> QED
    BY <2>2, <2>3, <2>4
<1>5. bugs' \in Seq(BugsOf(Allowed) \cup FetchBugs) /\ \A b \in Addresses : Once(b)'
  <2>1. CASE at = NoTaint
    BY <1>1, <1>2, <2>1, BugsStay DEF Placed
  <2>2. CASE at # NoTaint
    <3>1. ControlDegree(at) \in Degrees
      BY DEF ControlDegree, Degrees
    <3>2. bug \in BugsOf(Allowed)
      BY <1>2, <2>2, <3>1, AddrBug DEF Placed
    <3>3. bugs \in Seq(BugsOf(Allowed) \cup FetchBugs)
      BY <1>2 DEF Placed
    <3> HIDE DEF bug
    <3>4. bugs' = bugs \o <<bug>>
      BY <1>1, <2>2, <3>3
    <3> QED
      BY <1>1, <1>2, <3>2, <3>3, <3>4, OneBug, BugsRaised
  <2> QED
    BY <2>1, <2>2
<1>6. /\ hooks' \in 0..MaxHooks /\ flags' \in BOOLEAN
      /\ holds' \in [RegNames -> Addresses \cup {NoTaint}]
      /\ reads' \in [Addresses -> Nat]
      /\ reg' \in [RegNames -> Words(Allowed) \cup {NoTaint}]
  BY <1>1, <1>2, Called DEF Counted, Placed
<1> QED
  BY <1>1, <1>4, <1>5, <1>6, HookKeeps

LEMMA WriteRegKeeps ==
    ASSUME TaintAssumption, TaintInv, NEW r \in RegNames, NEW n \in Sizes, WriteReg(r, n)
    PROVE  TaintInv'
<1>1. /\ HookCalled /\ Tracking /\ UNCHANGED <<mem, reads, load, flags, bugs, stored>>
      /\ reg' = RegAfter(r, n) /\ pending' = NoTaint
  BY DEF WriteReg
<1>2. PICK v \in Addresses \cup {NoTaint} : holds' = [holds EXCEPT ![r] = v]
  BY DEF WriteReg
<1>3. Placed /\ Counted /\ \A b \in Addresses : Once(b)
  BY DEF TaintInv
<1>4. n \in Nat /\ 0 \in Allowed
  <2>1. n \in Nat
    BY Sizing
  <2> QED
    BY <2>1, <1>3, AllowedIds
<1>5. reg' \in [RegNames -> Words(Allowed) \cup {NoTaint}]
  BY <1>1, <1>3, <1>4, RegAfterHas DEF Placed
<1>6. holds' \in [RegNames -> Addresses \cup {NoTaint}]
  BY <1>2, <1>3 DEF Counted
<1>7. /\ hooks' \in 0..MaxHooks /\ flags' \in BOOLEAN
      /\ reads' \in [Addresses -> Nat]
      /\ mem' \in [Cells -> Allowed]
      /\ load' \in Operands(Allowed) \cup {NoTaint}
      /\ bugs' \in Seq(BugsOf(Allowed) \cup FetchBugs)
      /\ \A c \in Cells \ stored' : c \notin stored /\ mem'[c] = mem[c]
  BY <1>1, <1>3, Called DEF Counted, Placed
<1>8. \A b \in Addresses : Once(b)'
  BY <1>1, <1>3, BugsStay
<1> QED
  BY <1>1, <1>5, <1>6, <1>7, <1>8, HookKeeps

LEMMA AluKeeps ==
    ASSUME TaintAssumption, TaintInv, NEW n \in Sizes, Alu(n)
    PROVE  TaintInv'
<1> DEFINE ids == IF load = NoTaint THEN <<>> ELSE Padded(load, n)
<1>1. /\ HookCalled /\ Tracking /\ UNCHANGED <<mem, reg, holds, reads, bugs, stored>>
      /\ pending' = Known(ids) /\ flags' = Tainted(ids) /\ load' = NoTaint
  BY DEF Alu
<1>2. Placed /\ Counted /\ \A b \in Addresses : Once(b)
  BY DEF TaintInv
<1>3. n \in Nat /\ Width \in Nat /\ 0 \in Allowed
  <2>1. n \in Nat /\ Width \in Nat
    BY Sizing
  <2> QED
    BY <2>1, <1>2, AllowedIds
<1>4. ids \in Seq(Allowed) /\ Len(ids) <= Width
  <2>1. CASE load = NoTaint
    BY <2>1, <1>3
  <2>2. CASE load # NoTaint
    <3>1. Padded(load, n) \in Words(Allowed)
      BY <1>2, <1>3, <2>2, PaddedWord DEF Placed, Operands
    <3> QED
      BY <2>2, <3>1, <1>3 DEF Words
  <2> QED
    BY <2>1, <2>2
<1> HIDE DEF ids
<1>5. pending' \in Operands(Allowed) \cup {NoTaint}
  BY <1>1, <1>4, KnownOperand
<1>6. flags' \in BOOLEAN
  BY <1>1 DEF Tainted
<1>7. /\ hooks' \in 0..MaxHooks
      /\ holds' \in [RegNames -> Addresses \cup {NoTaint}]
      /\ reads' \in [Addresses -> Nat]
      /\ mem' \in [Cells -> Allowed]
      /\ reg' \in [RegNames -> Words(Allowed) \cup {NoTaint}]
      /\ bugs' \in Seq(BugsOf(Allowed) \cup FetchBugs)
      /\ \A c \in Cells \ stored' : c \notin stored /\ mem'[c] = mem[c]
  BY <1>1, <1>2, Called DEF Counted, Placed
<1>8. \A b \in Addresses : Once(b)'
  BY <1>1, <1>2, BugsStay
<1> QED
  BY <1>1, <1>5, <1>6, <1>7, <1>8, HookKeeps

\* A hook that only raises bugs.
LEMMA RaisingKeeps ==
    ASSUME TaintAssumption, TaintInv, Tracking, hooks' \in 0..MaxHooks,
           UNCHANGED <<mem, reg, holds, reads, load, pending, flags, stored>>,
           NEW t \in Seq(BugsOf(Allowed)), bugs' = bugs \o t
    PROVE  TaintInv'
<1>1. Placed /\ Counted /\ \A b \in Addresses : Once(b)
  BY DEF TaintInv
<1>2. bugs' \in Seq(BugsOf(Allowed) \cup FetchBugs) /\ \A b \in Addresses : Once(b)'
  BY <1>1, BugsRaised DEF Placed
<1>3. /\ flags' \in BOOLEAN
      /\ holds' \in [RegNames -> Addresses \cup {NoTaint}]
      /\ reads' \in [Addresses -> Nat]
      /\ mem' \in [Cells -> Allowed]
      /\ reg' \in [RegNames -> Words(Allowed) \cup {NoTaint}]
      /\ load' \in Operands(Allowed) \cup {NoTaint}
      /\ pending' \in Operands(Allowed) \cup {NoTaint}
      /\ \A c \in Cells \ stored' : c \notin stored /\ mem'[c] = mem[c]
  BY <1>1 DEF Counted, Placed
<1> QED
  BY <1>2, <1>3, HookKeeps

LEMMA CallApiKeeps == ASSUME TaintAssumption, TaintInv, NEW api, CallApi(api) PROVE TaintInv'
<1>1. SetToSeq(ApiBugs(api)) \in Seq(BugsOf(Allowed))
  BY ApiBugsHave DEF TaintInv, Placed
<1>2. hooks' \in 0..MaxHooks
  BY Called DEF CallApi
<1> QED
  BY <1>1, <1>2, RaisingKeeps DEF CallApi

LEMMA PlainBug ==
    ASSUME NEW sink \in RaisedElsewhere \ {"DOUBLE_FETCH"}, NEW d \in Degrees, NEW S
    PROVE  Bug(sink, d, <<>>) \in BugsOf(S)
<1>1. <<>> \in Seq(S)
  OBVIOUS
<1> QED
  BY <1>1 DEF Bug, BugsOf, SinkNames

LEMMA PlainBugKeeps ==
    ASSUME TaintAssumption, TaintInv, Tracking, hooks' \in 0..MaxHooks,
           UNCHANGED <<mem, reg, holds, reads, load, pending, flags, stored>>,
           NEW sink \in RaisedElsewhere \ {"DOUBLE_FETCH"}, NEW d \in Degrees,
           bugs' = Append(bugs, Bug(sink, d, <<>>))
    PROVE  TaintInv'
<1> DEFINE b == Bug(sink, d, <<>>)
<1>1. b \in BugsOf(Allowed)
  BY PlainBug
<1>2. bugs \in Seq(BugsOf(Allowed) \cup FetchBugs)
  BY DEF TaintInv, Placed
<1> HIDE DEF b
<1>3. <<b>> \in Seq(BugsOf(Allowed)) /\ Append(bugs, b) = bugs \o <<b>>
  BY <1>1, <1>2
<1>4. bugs' = bugs \o <<b>>
  BY <1>3 DEF b
<1> QED
  BY <1>3, <1>4, RaisingKeeps

LEMMA PortOrControlKeeps ==
    ASSUME TaintAssumption, TaintInv,
           NEW sink \in {"PORT_IO_TAINTED", "WRMSR_TAINTED", "MOV_CR_TAINTED"}, PortOrControl(sink)
    PROVE  TaintInv'
<1>1. sink \in RaisedElsewhere \ {"DOUBLE_FETCH"} /\ "full" \in Degrees
  BY DEF RaisedElsewhere, Degrees
<1>2. hooks' \in 0..MaxHooks
  BY Called DEF PortOrControl
<1> QED
  BY <1>1, <1>2, PlainBugKeeps DEF PortOrControl

LEMMA FaultKeeps == ASSUME TaintAssumption, TaintInv, Fault PROVE TaintInv'
<1>1. "NULL_DEREF" \in RaisedElsewhere \ {"DOUBLE_FETCH"} /\ "influenced" \in Degrees
  BY DEF RaisedElsewhere, Degrees
<1>2. hooks' \in 0..MaxHooks
  BY DEF Fault, TaintAssumption
<1> QED
  BY <1>1, <1>2, PlainBugKeeps DEF Fault

-----------------------------------------------------------------------------
(* An input begins and ends.                                               *)

LEMMA NoBugs ==
    ASSUME NEW S
    PROVE  <<>> \in Seq(S) /\ \A a : Cardinality(FetchesOf(<<>>, a)) = 0
  BY FS_EmptySet DEF FetchesOf

LEMMA EnableTaintKeeps == ASSUME TaintAssumption, TaintInv, EnableTaint PROVE TaintInv'
<1>1. /\ ~running /\ runs < InputRuns /\ running' = TRUE /\ runs' = runs + 1 /\ hooks' = 0
      /\ mem' = Labelled /\ reads' = [a \in Addresses |-> 0] /\ flags' = FALSE
      /\ reg' = [r \in RegNames |-> NoTaint]
      /\ nextId' = nextId + BufLen + (BufLen - 1)
      /\ lengths' = TRUE /\ bugs' = <<>> /\ stored' = {}
      /\ carried' = (load # NoTaint \/ pending # NoTaint)
      /\ UNCHANGED <<holds, load, pending>>
  BY DEF EnableTaint, Reset
<1>2. Placed /\ Counted
  BY DEF TaintInv
<1>3. BufLen \in Nat \ {0} /\ nextId \in Nat \ {0} /\ MaxHooks \in Nat /\ InputRuns \in Nat
  BY <1>2 DEF TaintAssumption, Counted
<1>4. Counted'
  <2>1. carried' \in BOOLEAN
    BY <1>1
  <2>2. runs' \in 0..InputRuns /\ hooks' \in 0..MaxHooks
    BY <1>1, <1>2, <1>3 DEF Counted
  <2>3. nextId' \in Nat \ {0} /\ nextId' >= 2 * BufLen
    BY <1>1, <1>3
  <2>4. holds' \in [RegNames -> Addresses \cup {NoTaint}] /\ reads' \in [Addresses -> Nat]
    BY <1>1, <1>2 DEF Counted
  <2> QED
    BY <1>1, <2>1, <2>2, <2>3, <2>4 DEF Counted
<1>5. /\ FirstId' = nextId
      /\ Allowed = 0..(nextId - 1)
      /\ Allowed' = IF carried' THEN 0..(nextId' - 1) ELSE nextId..(nextId + BufLen - 1) \cup {0}
  <2>1. FirstId' = nextId
    BY <1>1, <1>3 DEF FirstId
  <2>2. Allowed = 0..(nextId - 1)
    BY <1>1 DEF Allowed
  <2>3. Allowed' = IF ~carried' THEN OfThisInput' \cup {0} ELSE 0..(nextId' - 1)
    BY <1>1 DEF Allowed
  <2>4. OfThisInput' = nextId..(nextId + BufLen - 1)
    BY <2>1 DEF OfThisInput
  <2> QED
    BY <2>1, <2>2, <2>3, <2>4
<1>6. \A c \in Cells : mem'[c] = IF c < BufLen THEN FirstId' + c ELSE 0
  BY <1>1, <1>5 DEF Labelled
<1>7. mem' \in [Cells -> Allowed']
  <2>1. ASSUME NEW c \in Cells PROVE mem'[c] \in Allowed'
    <3>1. c \in Nat
      BY DEF TaintAssumption
    <3>2. CASE c < BufLen
      <4>1. mem'[c] = nextId + c
        BY <1>5, <1>6, <3>2
      <4>2. nextId + c \in nextId..(nextId + BufLen - 1) /\ nextId + c \in 0..(nextId' - 1)
        BY <1>1, <1>3, <3>1, <3>2
      <4> QED
        BY <1>5, <4>1, <4>2
    <3>3. CASE ~(c < BufLen)
      <4>1. mem'[c] = 0 /\ 0 \in 0..(nextId' - 1)
        BY <1>1, <1>3, <1>6, <3>3
      <4> QED
        BY <1>5, <4>1
    <3> QED
      BY <3>2, <3>3
  <2> QED
    BY <1>1, <2>1 DEF Labelled
<1>8. load' \in Operands(Allowed') \cup {NoTaint} /\ pending' \in Operands(Allowed') \cup {NoTaint}
  <2>1. CASE carried'
    <3>1. Allowed \subseteq Allowed'
      BY <1>1, <1>3, <1>5, <2>1
    <3>2. Operands(Allowed) \subseteq Operands(Allowed')
      BY <3>1 DEF Operands
    <3> QED
      BY <1>1, <1>2, <3>2 DEF Placed
  <2>2. CASE ~carried'
    BY <1>1, <2>2
  <2> QED
    BY <2>1, <2>2
<1>9. reg' \in [RegNames -> Words(Allowed') \cup {NoTaint}]
  BY <1>1
<1>10. bugs' \in Seq(BugsOf(Allowed') \cup FetchBugs)
  BY <1>1, NoBugs
<1>11. Placed'
  BY <1>7, <1>8, <1>9, <1>10 DEF Placed
<1>12. Kept'
  BY <1>6 DEF Kept
<1>13. ASSUME NEW a \in Addresses PROVE Once(a)'
  BY <1>1, NoBugs DEF Once
<1> QED
  BY <1>4, <1>11, <1>12, <1>13 DEF TaintInv

LEMMA EndInputKeeps == ASSUME TaintAssumption, TaintInv, EndInput PROVE TaintInv'
<1>1. /\ running' = FALSE /\ mem' = [c \in Cells |-> 0] /\ reads' = [a \in Addresses |-> 0]
      /\ flags' = FALSE /\ reg' = [r \in RegNames |-> NoTaint] /\ bugs' = <<>>
      /\ holds' = [r \in RegNames |-> NoTaint]
      /\ UNCHANGED <<runs, hooks, load, pending, nextId, lengths, stored, carried>>
  BY DEF EndInput, Reset
<1>2. Placed /\ Counted
  BY DEF TaintInv
<1>3. Counted'
  BY <1>1, <1>2 DEF Counted
<1>4. Allowed' = 0..(nextId - 1) /\ Allowed \subseteq 0..(nextId - 1) /\ nextId \in Nat \ {0}
  BY <1>1, <1>2, AllowedIds DEF Allowed, Counted
<1>5. Allowed \subseteq Allowed' /\ 0 \in Allowed'
  BY <1>4
<1>6. Operands(Allowed) \subseteq Operands(Allowed')
  BY <1>5 DEF Operands
<1>7. bugs' \in Seq(BugsOf(Allowed') \cup FetchBugs)
  BY <1>1, NoBugs
<1>8. load' \in Operands(Allowed') \cup {NoTaint} /\ pending' \in Operands(Allowed') \cup {NoTaint}
  BY <1>1, <1>2, <1>6 DEF Placed
<1>9. Placed'
  BY <1>1, <1>5, <1>7, <1>8 DEF Placed
<1>10. Kept'
  BY <1>1 DEF Kept
<1>11. ASSUME NEW a \in Addresses PROVE Once(a)'
  BY <1>1, NoBugs DEF Once
<1> QED
  BY <1>3, <1>9, <1>10, <1>11 DEF TaintInv

LEMMA InitTaint == ASSUME TaintAssumption, TaintInit PROVE TaintInv
<1>1. Counted
  <2>1. running = FALSE /\ flags = FALSE /\ lengths = FALSE /\ carried = FALSE
    BY DEF TaintInit
  <2>2. runs \in 0..InputRuns /\ hooks \in 0..MaxHooks /\ nextId \in Nat \ {0}
    BY DEF TaintInit, TaintAssumption
  <2>3. holds \in [RegNames -> Addresses \cup {NoTaint}] /\ reads \in [Addresses -> Nat]
    BY DEF TaintInit
  <2> QED
    BY <2>1, <2>2, <2>3 DEF Counted
<1>2. 0 \in Allowed
  BY <1>1, AllowedIds
<1>3. bugs \in Seq(BugsOf(Allowed) \cup FetchBugs)
  BY NoBugs DEF TaintInit
<1>4. Placed
  BY <1>2, <1>3 DEF TaintInit, Placed
<1>5. Kept
  BY DEF TaintInit, Kept
<1>6. ASSUME NEW a \in Addresses PROVE Once(a)
  BY NoBugs DEF Once, TaintInit
<1> QED
  BY <1>1, <1>4, <1>5, <1>6 DEF TaintInv

LEMMA NextTaint == ASSUME TaintAssumption, TaintInv, [TaintNext]_taintVars PROVE TaintInv'
<1>1. CASE EnableTaint
  BY <1>1, EnableTaintKeeps
<1>2. CASE EndInput
  BY <1>2, EndInputKeeps
<1>3. CASE Hook
  <2>1. ASSUME NEW a \in Addresses, NEW n \in Sizes, NEW op \in BOOLEAN, LoadMem(a, n, op)
        PROVE  TaintInv'
    BY <2>1, LoadMemKeeps
  <2>2. ASSUME NEW a \in Addresses, NEW n \in Sizes, StoreMem(a, n) PROVE TaintInv'
    BY <2>2, StoreMemKeeps
  <2>3. ASSUME NEW r \in RegNames, NEW n \in Sizes, LoadReg(r, n) PROVE TaintInv'
    BY <2>3, LoadRegKeeps
  <2>4. ASSUME NEW r \in RegNames, NEW n \in Sizes, WriteReg(r, n) PROVE TaintInv'
    BY <2>4, WriteRegKeeps
  <2>5. ASSUME NEW n \in Sizes, Alu(n) PROVE TaintInv'
    BY <2>5, AluKeeps
  <2>6. ASSUME NEW api \in Apis, CallApi(api) PROVE TaintInv'
    BY <2>6, CallApiKeeps
  <2>7. ASSUME NEW sink \in {"PORT_IO_TAINTED", "WRMSR_TAINTED", "MOV_CR_TAINTED"},
               PortOrControl(sink)
        PROVE  TaintInv'
    BY <2>7, PortOrControlKeeps
  <2>8. CASE Fault
    BY <2>8, FaultKeeps
  <2> QED
    BY <1>3, <2>1, <2>2, <2>3, <2>4, <2>5, <2>6, <2>7, <2>8 DEF Hook
<1>4. CASE UNCHANGED taintVars
  BY <1>4 DEF taintVars, TaintInv, Counted, Placed, Kept, Once, Allowed, OfThisInput, FirstId
<1> QED
  BY <1>1, <1>2, <1>3, <1>4 DEF TaintNext

\* The invariant of the taint engine.
THEOREM TaintInvariance == TaintSpec => []TaintInv
<1>1. TaintInit => TaintInv
  BY InitTaint, TaintAssumption
<1>2. TaintInv /\ [TaintNext]_taintVars => TaintInv'
  BY NextTaint, TaintAssumption
<1> QED
  BY <1>1, <1>2, PTL DEF TaintSpec

LEMMA IdsOf == ASSUME NEW S, NEW ids \in Seq(S) PROVE Ids(ids) \subseteq S \ {0}
  BY DEF Ids, ToSet

\* The taint is of the input that runs: an untouched byte of the buffer has its own id, no
\* other untouched byte has one, and unless an operand was left over from the input before
\* every id in memory, in the registers and in a bug is one of this input's.  A double
\* fetch is raised once for an address, at the second load.
THEOREM TaintAlwaysSound == TaintSpec => []TaintIsSound
<1>1. ASSUME TaintAssumption, TaintInv PROVE TaintIsSound
  <2>1. Placed /\ Counted /\ Kept /\ \A a \in Addresses : Once(a)
    BY <1>1 DEF TaintInv
  <2>2. Allowed \subseteq 0..(nextId - 1) /\ 0 \in Allowed
    BY <1>1, <2>1, AllowedIds
  <2>3. ASSUME NEW ids \in Operands(Allowed) \cup {NoTaint} PROVE OperandOK(ids)
    <3>1. CASE ids = NoTaint
      BY <3>1 DEF OperandOK
    <3>2. CASE ids # NoTaint
      <4>1. ids \in Seq(Allowed) /\ Len(ids) <= Width /\ Tainted(ids)
        BY <3>2 DEF Operands
      <4>2. ids \in Seq(0..(nextId - 1))
        BY <2>2, <4>1, WiderSeq
      <4> QED
        BY <4>1, <4>2 DEF OperandOK
    <3> QED
      BY <3>1, <3>2
  <2>4. \A i \in DOMAIN bugs : bugs[i] \in BugsOf(Allowed) \cup FetchBugs
    BY <2>1 DEF Placed
  <2>5. ASSUME NEW i \in DOMAIN bugs PROVE bugs[i].sink \in SinkNames
    BY <2>4 DEF BugsOf, FetchBugs, Fetch, Bug, SinkNames, RaisedElsewhere
  <2>6. \A r \in RegNames : reg[r] = NoTaint \/ Len(reg[r]) = Width
    BY <2>1 DEF Placed, Words
  <2>7. mem \in [Cells -> 0..(nextId - 1)]
    BY <2>1, <2>2 DEF Placed
  <2>8. OperandOK(load) /\ OperandOK(pending)
    BY <2>1, <2>3 DEF Placed
  <2>9. TaintTypeOK
    BY <2>1, <2>5, <2>6, <2>7, <2>8 DEF TaintTypeOK, Counted, SinkNames
  <2>10. ASSUME running, ~carried
         PROVE  /\ \A c \in Cells : mem[c] \in OfThisInput \cup {0}
                /\ \A r \in RegNames : Ids(reg[r]) \subseteq OfThisInput
                /\ \A i \in DOMAIN bugs :
                     bugs[i].sink # "DOUBLE_FETCH" => Ids(bugs[i].ids) \subseteq OfThisInput
    <3>1. Allowed = OfThisInput \cup {0}
      BY <2>10 DEF Allowed
    <3>2. \A c \in Cells : mem[c] \in OfThisInput \cup {0}
      BY <2>1, <3>1 DEF Placed
    <3>3. ASSUME NEW r \in RegNames PROVE Ids(reg[r]) \subseteq OfThisInput
      <4>1. CASE reg[r] = NoTaint
        BY <4>1 DEF Ids
      <4>2. CASE reg[r] # NoTaint
        <5>1. reg[r] \in Seq(Allowed)
          BY <2>1, <4>2 DEF Placed, Words
        <5> QED
          BY <3>1, <5>1, IdsOf
      <4> QED
        BY <4>1, <4>2
    <3>4. ASSUME NEW i \in DOMAIN bugs, bugs[i].sink # "DOUBLE_FETCH"
          PROVE  Ids(bugs[i].ids) \subseteq OfThisInput
      <4>1. bugs[i] \in BugsOf(Allowed)
        BY <2>4, <3>4 DEF FetchBugs, Fetch, Bug
      <4>2. bugs[i].ids \in Seq(Allowed)
        BY <4>1 DEF BugsOf
      <4> QED
        BY <3>1, <4>2, IdsOf
    <3> QED
      BY <3>2, <3>3, <3>4
  <2>11. TaintIsOfTheInput
    BY <2>1, <2>10 DEF TaintIsOfTheInput, Kept
  <2>12. DoubleFetchOnce
    BY <2>1 DEF DoubleFetchOnce, Once, FetchesOf, Fetch
  <2> QED
    BY <2>9, <2>11, <2>12 DEF TaintIsSound
<1>2. TaintInv => TaintIsSound
  BY <1>1, TaintAssumption
<1> QED
  BY <1>2, TaintInvariance, PTL
=============================================================================
