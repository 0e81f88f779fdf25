------------------------------ MODULE BugCampaign ------------------------------
(***************************************************************************)
(* findBugsCampaign of ntsim-analyzer/src/bug/engine.mjs.  A taint-        *)
(* tracking engine takes the place of the processor and the kernel's API   *)
(* functions and its allocator are wrapped; inputs are run on a snapshot   *)
(* each, the bugs the engine reports go into a database with the input     *)
(* that shows them, and now and then a child that raised no bug is handed  *)
(* to a concolic campaign nested in this one (ConcolicCampaign), whose     *)
(* inputs are run here again.  linux-analyzer/src/bug/linux-engine.mjs has *)
(* the same loop for file operations.                                      *)
(***************************************************************************)
EXTENDS ConcolicCampaign

CONSTANTS Seeds,       \* the seed buffers, in order
          Reach,       \* the buffers one mutation of a buffer can give
          SeedRuns,    \* how many seeds are run: 8
          Iterations,  \* opts.iterations
          Every,       \* a concolic campaign at most every so many children: 16
          Bugs         \* bug keys: sink, location and degree of control

ASSUME BugAssumption ==
    /\ Seeds \in Seq(Inputs)
    /\ Reach \in [Inputs -> SUBSET Inputs] /\ \A i \in Inputs : Reach[i] # {}
    /\ {SeedRuns, Iterations} \subseteq Nat /\ Every \in Nat \ {0}
    /\ IsFiniteSet(Bugs)
    /\ None \notin [buf : Inputs, cov : SUBSET Blocks]

VARIABLES
    pc,         \* "start", "seed", "loop", "concolic", "recheck": between runs;
                \* "seedrun", "childrun", "rerun": in one; "done"
    impls,      \* kernel.apiImpls and writeCr0: "own" or "wrapped"
    tracker,    \* the campaign's coverage tracker
    first,      \* snap0
    snap,       \* the snapshot of the current run
    next,       \* seeds run so far
    input,      \* the input of the current run
    raised,     \* bugCpu.bugs
    child,      \* the child being worked on: buffer, coverage
    found,      \* what its runs raised: input and bugs of each
    recheck,    \* inputs of the concolic campaign still to be run
    corpus, seen, hits,
    db,         \* the bug database
    iters,      \* iterationsDone
    reported    \* history: all bugs raised, with the input, and the child they came from

bvars == <<pc, impls, tracker, first, snap, next, input, raised, child, found, recheck,
           corpus, seen, hits, db, iters, reported>>
vars == <<kernel, alloc, cvars, bvars>>

Init ==
    /\ ConcolicInit
    /\ kernel = [FreshKernel(Engines, "real", FALSE) EXCEPT
                   !.engine["bug"] = [regs |-> "fresh", rest |-> "fresh"],
                   !.engine["concolic"] = [regs |-> "fresh", rest |-> "fresh"]]
    /\ alloc = "own"
    /\ pc = "start"
    /\ impls = "own"
    /\ tracker = Paused
    /\ first = None /\ snap = None
    /\ next = 0
    /\ input = None
    /\ raised = {}
    /\ child = None
    /\ found = <<>>
    /\ recheck = <<>>
    /\ corpus = <<>> /\ seen = {} /\ hits = [b \in Blocks |-> 0]
    /\ db = {}
    /\ iters = 0
    /\ reported = {}

-----------------------------------------------------------------------------
(* Taking over the kernel.                                                 *)

\* The bug engine gets the registers; its step count and fault are its own.
\* The seeds are the corpus from the start, with no coverage.
TakeOver ==
    /\ pc = "start"
    /\ pc' = "seed"
    /\ kernel' = [kernel EXCEPT !.cpu = "bug",
                                !.engine["bug"] = [regs |-> kernel.engine["real"].regs,
                                                   rest |-> "fresh"]]
    /\ impls' = "wrapped"
    /\ tracker' = Recording
    /\ first' = Capture(kernel')
    /\ corpus' = [i \in DOMAIN Seeds |-> [buf |-> Seeds[i], cov |-> {}]]
    /\ UNCHANGED <<alloc, cvars, snap, next, input, raised, child, found, recheck, seen, hits,
                   db, iters, reported>>

-----------------------------------------------------------------------------
(* One input: runWithBugs.                                                 *)

BeginRun(buf) ==
    /\ input' = buf
    /\ snap' = Capture(kernel)
    /\ alloc' = "bug"
    /\ tracker' = Recording
    /\ UNCHANGED <<kernel, cvars, impls, first, raised, reported>>

\* Driver code runs on the installed engine; with the taint of the input it
\* may raise a bug.
RunBlock ==
    /\ pc \in {"seedrun", "childrun", "rerun"}
    /\ \E b \in Blocks \cup {Outside} : tracker' = Hooked(tracker, b)
    /\ kernel' \in DriverRan(kernel, MaxLog)
    /\ raised' \in {raised} \cup {raised \cup {k} : k \in Bugs}
    /\ UNCHANGED <<alloc, cvars, pc, impls, first, snap, next, input, child, found, recheck,
                   corpus, seen, hits, db, iters, reported>>

\* The wrapper and the engine's list are reset, the snapshot is restored.
EndRun ==
    /\ kernel' = Restore(kernel, snap)
    /\ alloc' = "own"
    /\ tracker' = Paused
    /\ snap' = None
    /\ input' = None
    /\ raised' = {}
    /\ reported' = reported \cup {[key |-> k, by |-> input,
                                   from |-> IF child = None THEN input ELSE child.buf] : k \in raised}
    /\ UNCHANGED <<cvars, impls, first>>

-----------------------------------------------------------------------------
(* The bug database.                                                       *)

Keys(d) == {r.key : r \in d}

\* BugDB.add for the bugs of one run: a known key is dropped.  The witness is
\* the child in hand also when an input of the concolic campaign raised it.
Filed(d, run, shown) ==
    d \cup {[key |-> k, by |-> run.by, witness |-> shown] : k \in run.bugs \ Keys(d)}

-----------------------------------------------------------------------------
(* Seeds.                                                                  *)

SeedCount == Min({Len(Seeds), SeedRuns})

StartSeed ==
    /\ pc = "seed" /\ next < SeedCount
    /\ pc' = "seedrun"
    /\ next' = next + 1
    /\ BeginRun(Seeds[next + 1])
    /\ UNCHANGED <<child, found, recheck, corpus, seen, hits, db, iters>>

EndSeed ==
    /\ pc = "seedrun"
    /\ pc' = "seed"
    /\ EndRun
    /\ corpus' = [corpus EXCEPT ![next].cov = tracker.blocks]
    /\ seen' = seen \cup tracker.blocks
    /\ db' = Filed(db, [by |-> input, bugs |-> raised], input)
    /\ UNCHANGED <<next, child, found, recheck, hits, iters>>

SeedsDone ==
    /\ pc = "seed" /\ next = SeedCount
    /\ pc' = "loop"
    /\ hits' = Counts(corpus)
    /\ UNCHANGED <<kernel, alloc, cvars, impls, tracker, first, snap, next, input, raised, child,
                   found, recheck, corpus, seen, db, iters, reported>>

-----------------------------------------------------------------------------
(* The main loop.                                                          *)

\* One or two random bytes in a copy of a parent.  Parents are picked by their
\* distance to a sink in the graph of the edges seen so far, which is left
\* out: any entry may be picked.
StartChild ==
    /\ pc = "loop" /\ iters < Iterations /\ ~kernel.dead
    /\ pc' = "childrun"
    /\ iters' = iters + 1
    /\ \E parent \in DOMAIN corpus :
         \E buf \in Reach[corpus[parent].buf] : BeginRun(buf)
    /\ UNCHANGED <<next, child, found, recheck, corpus, seen, hits, db>>

\* A child without a bug that came close to a sink is worth a concolic
\* campaign, every so often.
EndChild ==
    /\ pc = "childrun"
    /\ EndRun
    /\ child' = [buf |-> input, cov |-> tracker.blocks]
    /\ found' = <<[by |-> input, bugs |-> raised]>>
    /\ \/ pc' = "recheck"
       \/ /\ raised = {} /\ tracker.blocks # {} /\ (iters - 1) % Every = 0
          /\ pc' = "concolic"
    /\ UNCHANGED <<next, recheck, corpus, seen, hits, db, iters>>

CallConcolic ==
    /\ pc = "concolic"
    /\ ConcolicStart(<<child>>)
    /\ UNCHANGED bvars

\* The inputs among the first n entries of the answer, but for the child itself.
Besides(bufs, buf) == IF buf = child.buf THEN bufs ELSE Append(bufs, buf)

Others[n \in 0..Len(ccorpus)] ==
    IF n = 0 THEN <<>> ELSE Besides(Others[n - 1], ccorpus[n].buf)

\* They are run one after the other.
TakeAnswer ==
    /\ pc = "concolic" /\ cpc = "answered"
    /\ pc' = "recheck"
    /\ recheck' = Others[Len(ccorpus)]
    /\ ConcolicReturn
    /\ UNCHANGED <<kernel, alloc>>
    /\ UNCHANGED <<impls, tracker, first, snap, next, input, raised, child, found, corpus, seen,
                   hits, db, iters, reported>>

StartRecheck ==
    /\ pc = "recheck" /\ recheck # <<>>
    /\ pc' = "rerun"
    /\ recheck' = Tail(recheck)
    /\ BeginRun(Head(recheck))
    /\ UNCHANGED <<next, child, found, corpus, seen, hits, db, iters>>

\* New coverage goes into the corpus, whatever its size.
EndRecheck ==
    /\ pc = "rerun"
    /\ pc' = "recheck"
    /\ EndRun
    /\ found' = Append(found, [by |-> input, bugs |-> raised])
    /\ corpus' = IF tracker.blocks \subseteq seen THEN corpus
                 ELSE Append(corpus, [buf |-> input, cov |-> tracker.blocks])
    /\ seen' = seen \cup tracker.blocks
    /\ UNCHANGED <<next, child, recheck, hits, db, iters>>

AnyFound == \E i \in DOMAIN found : found[i].bugs # {}

\* Mutant of KeepsChild: bugs alone do not count.
KeepsChildByCoverage == child.cov \ seen # {}
KeepsChild == child.cov \ seen # {} \/ AnyFound

\* The database once the first n runs of the iteration are filed.
Filing[n \in 0..Len(found)] ==
    IF n = 0 THEN db ELSE Filed(Filing[n - 1], found[n], child.buf)

\* End of an iteration: the child is kept for new coverage or for bugs, its
\* own or those of the inputs made from it; the bugs are filed.
FileChild ==
    /\ pc = "recheck" /\ recheck = <<>>
    /\ pc' = "loop"
    /\ IF KeepsChild
       THEN /\ seen' = seen \cup child.cov
            /\ corpus' = Evict(Append(corpus, child), hits)
            /\ hits' = Counts(corpus')
            /\ db' = Filing[Len(found)]
       ELSE UNCHANGED <<seen, corpus, hits, db>>
    /\ child' = None
    /\ found' = <<>>
    /\ UNCHANGED <<kernel, alloc, cvars, impls, tracker, first, snap, next, input, raised,
                   recheck, iters, reported>>

\* The original engine and functions are installed, then snap0 is restored:
\* what it holds of the bug engine goes into the original one.
GiveBack ==
    /\ pc = "loop" /\ (iters = Iterations \/ kernel.dead \/ corpus = <<>>)
    /\ pc' = "done"
    /\ kernel' = Restore([kernel EXCEPT !.cpu = "real"], first)
    /\ impls' = "own"
    /\ tracker' = Paused
    /\ UNCHANGED <<alloc, cvars, first, snap, next, input, raised, child, found, recheck, corpus,
                   seen, hits, db, iters, reported>>

Next ==
    \/ TakeOver \/ StartSeed \/ EndSeed \/ SeedsDone \/ StartChild \/ EndChild
    \/ CallConcolic \/ TakeAnswer \/ StartRecheck \/ EndRecheck \/ FileChild \/ GiveBack
    \/ RunBlock
    \/ ConcolicNext /\ UNCHANGED bvars

Spec == Init /\ [][Next]_vars

-----------------------------------------------------------------------------
(* Properties.                                                             *)

Running == pc \in {"seedrun", "childrun", "rerun"}

\* The shape of the state.
TypeOK ==
    /\ ConcolicTypeOK
    /\ impls \in {"own", "wrapped"}
    /\ tracker \in [enabled : BOOLEAN, blocks : SUBSET Blocks]
    /\ next \in 0..SeedCount
    /\ input \in Inputs \cup {None}
    /\ raised \subseteq Bugs
    /\ child \in [buf : Inputs, cov : SUBSET Blocks] \cup {None}
    /\ found \in Seq([by : Inputs, bugs : SUBSET Bugs])
    /\ recheck \in Seq(Inputs)
    /\ corpus \in Seq([buf : Inputs, cov : SUBSET Blocks])
    /\ seen \subseteq Blocks
    /\ hits \in [Blocks -> Nat]
    /\ db \subseteq [key : Bugs, by : Inputs, witness : Inputs]
    /\ iters \in 0..Iterations

\* Every input of this campaign runs on the engine that tracks its taint, with
\* the functions and the allocator wrapped, also after concolic campaigns that
\* replaced the engine; explored inputs run on the symbolic engine, which sees
\* their buffer.  No wrapper of the allocator outlives its run.
TracedRuns ==
    /\ Running => kernel.cpu = "bug" /\ impls = "wrapped" /\ alloc = "bug"
    /\ cpc = "seedrun" => kernel.cpu = "concolic" /\ alloc = "concolic"
    /\ ~Running /\ cpc # "seedrun" => alloc = "own"

\* Every run starts from the kernel the campaign found, and at the end the
\* kernel has its processor, functions, registers, memory and logs back.  (The
\* processor's step count and control registers are not among them.)
KernelAsFound ==
    /\ ~Running /\ cpc \notin {"seedrun", "confirm"} =>
         kernel.mem = "own" /\ kernel.log = <<"own">> /\ ~kernel.dead
    /\ pc \in {"start", "done"} =>
         kernel.cpu = "real" /\ kernel.engine["real"].regs = "own" /\ impls = "own"

\* Between two children the database has every bug raised so far, none twice,
\* and its witness is the input that raised it or the child from which the
\* concolic campaign made that input.
BugsAreKept ==
    pc \in {"loop", "done"} =>
      /\ Keys(db) = {r.key : r \in reported}
      /\ Cardinality(db) = Cardinality(Keys(db))
      /\ \A r \in db : [key |-> r.key, by |-> r.by, from |-> r.witness] \in reported
=============================================================================
