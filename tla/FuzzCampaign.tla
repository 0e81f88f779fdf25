----------------------------- MODULE FuzzCampaign -----------------------------
(***************************************************************************)
(* fuzzIoctl of ntsim-analyzer/src/fuzz.mjs: one coverage-guided campaign  *)
(* for one control code.  Every input is run on a snapshot of the kernel   *)
(* while the CoverageTracker (coverage.mjs) collects the blocks of the     *)
(* driver image that execute; the campaign keeps a corpus of inputs, the   *)
(* set of blocks seen, hit counts per block for scheduling, and the best   *)
(* input.  fuzzFileOp of linux-analyzer/src/fuzz-ops.mjs is the same code  *)
(* for file operations.                                                    *)
(***************************************************************************)
EXTENDS Snapshot, Corpus

CONSTANTS Inputs,      \* input buffers
          Reach,       \* the buffers one mutation of a buffer can give
          Seeds,       \* the seed buffers, in order
          Outside,     \* stands for code outside the image
          Iterations,  \* opts.iterations
          MaxLog,      \* bound: records in the kernel's logs
          None

\* The entries of a corpus.
EntryType == [buf : Inputs, cov : SUBSET Blocks, zero : BOOLEAN, won : BOOLEAN]

\* enrichWithCtlCode makes sure that there are seeds.
ASSUME CampaignAssumption ==
    /\ Seeds \in Seq(Inputs) /\ Seeds # <<>>
    /\ Reach \in [Inputs -> SUBSET Inputs] /\ \A i \in Inputs : Reach[i] # {}
    /\ Iterations \in Nat
    /\ MaxLog \in Nat \ {0}
    /\ Outside \notin Blocks
    /\ None \notin EntryType

VARIABLES
    pc,         \* "seed", "loop": between inputs; "seedrun", "childrun": in one; "done"
    kernel,     \* the kernel under test
    tracker,    \* the coverage tracker: enabled, blocks
    first,      \* snap0, taken before the first input
    snap,       \* the snapshot of the current input
    next,       \* seeds started so far
    input,      \* the input of the current run
    corpus,     \* entries kept, oldest first
    seen,       \* globalSeen
    hits,       \* globalHits: entries covering a block; 0 for one not counted
    best,       \* the best entry
    iters,      \* itersDone
    ran,        \* history: image blocks executed by the current input
    covered     \* history: image blocks executed by all inputs

vars == <<pc, kernel, tracker, first, snap, next, input, corpus, seen, hits, best, iters,
          ran, covered>>

Engines == {"real"}

-----------------------------------------------------------------------------
(* Scheduling.                                                             *)

\* Entries ahead of the i-th in the stable order by ascending score.
Rank(c, h, i) ==
    LET S(j) == Score(c[j].cov, h, 1) IN
    Cardinality({j \in DOMAIN c : Below(S(j), S(i)) \/ (~Below(S(i), S(j)) /\ j < i)})

\* pickParent: the rarest third of the corpus, three entries at most.
Pool(c, h) == {i \in DOMAIN c : Rank(c, h, i) < Min({3, (Len(c) + 2) \div 3})}

-----------------------------------------------------------------------------
(* One input: runInput.                                                    *)

Init ==
    /\ pc = "seed"
    /\ kernel = FreshKernel(Engines, "real", FALSE)
    /\ tracker = Recording
    /\ first = Capture(kernel)
    /\ snap = None
    /\ next = 0
    /\ input = None
    /\ corpus = <<>>
    /\ seen = {}
    /\ hits = [b \in Blocks |-> 0]
    /\ best = None
    /\ iters = 0
    /\ ran = {} /\ covered = {}

BeginRun(buf) ==
    /\ snap' = Capture(kernel)
    /\ tracker' = Recording
    /\ input' = buf
    /\ ran' = {}
    /\ UNCHANGED <<kernel, first, corpus, seen, hits, best, covered>>

\* sendIrp runs driver code, one block after the other.
RunBlock ==
    /\ pc \in {"seedrun", "childrun"}
    /\ \E b \in Blocks \cup {Outside} :
         /\ tracker' = Hooked(tracker, b)
         /\ ran' = ran \cup ({b} \cap Blocks)
    /\ kernel' \in DriverRan(kernel, MaxLog)
    /\ UNCHANGED <<pc, first, snap, next, input, corpus, seen, hits, best, iters, covered>>

\* sendIrp has answered or thrown: pause, restore, reset.
EndRun ==
    /\ kernel' = Restore(kernel, snap)
    /\ tracker' = Paused
    /\ snap' = None
    /\ input' = None
    /\ ran' = {}
    /\ covered' = covered \cup ran
    /\ UNCHANGED first

\* won: a success of the main loop; zero: ntstatus is 0 whatever the status.
Entry(zero, won) == [buf |-> input, cov |-> tracker.blocks, zero |-> zero, won |-> won]

NewBlocks == tracker.blocks \ seen

-----------------------------------------------------------------------------
(* The seed phase.                                                         *)

SeedCount == Min({Len(Seeds), 2 * Cap})

StartSeed ==
    /\ pc = "seed"
    /\ pc' = "seedrun"
    /\ next' = next + 1
    /\ BeginRun(Seeds[next + 1])
    /\ UNCHANGED iters

\* A seed is kept if it covers something new, the first one always.  At the cap,
\* or on a kernel that is dead after the restore, the loop ends before the
\* counts are brought up to date.  After the last seed best is the first entry
\* with status 0.
EndSeed ==
    /\ pc = "seedrun"
    /\ EndRun
    /\ \E zero \in BOOLEAN :
         corpus' = IF NewBlocks # {} \/ corpus = <<>> THEN Append(corpus, Entry(zero, FALSE))
                   ELSE corpus
    /\ seen' = seen \cup (IF corpus' # corpus THEN tracker.blocks ELSE {})
    /\ LET break == Len(corpus') >= Cap \/ kernel'.dead
           winners == {i \in DOMAIN corpus' : corpus'[i].zero}
           last == break \/ next = SeedCount IN
         /\ hits' = IF break THEN hits ELSE Counts(corpus')
         /\ pc' = IF last THEN "loop" ELSE "seed"
         /\ best' = IF last /\ winners # {} THEN corpus'[Min(winners)] ELSE None
    /\ UNCHANGED <<next, iters>>

-----------------------------------------------------------------------------
(* The main loop.                                                          *)

\* mutateSingle: a flipped bit or byte, an interesting value, a splice with
\* another entry, a resize to 1..256 bytes, or up to four of them.
Mutants(buf) == Reach[buf]

\* A child of a parent from the pool is run.
StartChild ==
    /\ pc = "loop" /\ iters < Iterations /\ ~kernel.dead
    /\ pc' = "childrun"
    /\ iters' = iters + 1
    /\ \E parent \in Pool(corpus, hits) :
         \E child \in Mutants(corpus[parent].buf) : BeginRun(child)
    /\ UNCHANGED next

AlreadyHave == \E i \in DOMAIN corpus : corpus[i].cov = tracker.blocks /\ corpus[i].buf = input

\* New coverage is kept, a success only while there is room.
Keeps(success) == ~AlreadyHave /\ (NewBlocks # {} \/ (success /\ Len(corpus) < Cap))

\* A kept success replaces a best entry with less coverage, any other only none.
Better(kept) == best = None \/ (kept /\ Cardinality(tracker.blocks) > Cardinality(best.cov))

\* Mutant of Rescored: counted before the eviction.
RescoredEarly(c) == Counts(Append(corpus, Entry(FALSE, FALSE)))
Rescored(c) == Counts(c)

EndChild ==
    /\ pc = "childrun"
    /\ pc' = "loop"
    /\ EndRun
    /\ \E success \in BOOLEAN, zero \in BOOLEAN :
         /\ success => zero
         /\ IF Keeps(success)
            THEN /\ seen' = seen \cup tracker.blocks
                 /\ corpus' = Evict(Append(corpus, Entry(zero, success)), hits)
                 /\ hits' = Rescored(corpus')
            ELSE UNCHANGED <<seen, corpus, hits>>
         /\ best' = IF success /\ Better(Keeps(success)) THEN Entry(zero, success) ELSE best
    /\ UNCHANGED <<next, iters>>

\* Budget used up, or the kernel is dead: back to snap0; the tracker is disposed.
Finish ==
    /\ pc = "loop" /\ (iters = Iterations \/ kernel.dead)
    /\ pc' = "done"
    /\ kernel' = Restore(kernel, first)
    /\ tracker' = [tracker EXCEPT !.enabled = FALSE]
    /\ UNCHANGED <<first, snap, next, input, corpus, seen, hits, best, iters, ran, covered>>

Next == StartSeed \/ StartChild \/ RunBlock \/ EndSeed \/ EndChild \/ Finish

Spec == Init /\ [][Next]_vars

-----------------------------------------------------------------------------
(* Properties.                                                             *)

Between == pc \in {"seed", "loop", "done"}

\* The shape of the state.
TypeOK ==
    /\ pc \in {"seed", "loop", "seedrun", "childrun", "done"}
    /\ kernel \in KernelType(Engines, MaxLog)
    /\ tracker \in [enabled : BOOLEAN, blocks : SUBSET Blocks]
    /\ next \in 0..SeedCount
    /\ input \in Inputs \cup {None}
    /\ corpus \in Seq(EntryType)
    /\ seen \subseteq Blocks
    /\ hits \in [Blocks -> Nat]
    /\ best \in EntryType \cup {None}
    /\ iters \in 0..Iterations
    /\ ran \subseteq Blocks /\ covered \subseteq Blocks

\* snapshot.mjs: each iteration starts from a clean device and driver state.
\* Whatever an input did to memory, logs, bugcheck and processor, the next one
\* finds the kernel as the campaign found it, and a run's coverage has the
\* image's blocks that this run executed, no other run's and no other code's.
CleanRuns ==
    /\ Between => kernel = FreshKernel(Engines, "real", kernel.queue)
    /\ pc \in {"seedrun", "childrun"} => tracker.blocks = ran

\* No coverage is forgotten: globalSeen has every image block that some input
\* executed, whether the input was kept, evicted or dropped.
NothingForgotten == Between => seen = covered

\* The corpus keeps its cap and has no input twice with the same coverage;
\* as long as there is room in it, its entries cover all that was seen.
CorpusSound ==
    /\ Len(corpus) <= Cap
    /\ \A i, j \in DOMAIN corpus :
         i # j => corpus[i].buf # corpus[j].buf \/ corpus[i].cov # corpus[j].cov
    /\ Len(corpus) < Cap => seen = UNION {corpus[i].cov : i \in DOMAIN corpus}

\* Scheduling works on the counts of the corpus as it is, but for one case: a
\* seed phase that ended at the cap did not count the last seed.
HitsFollowCorpus ==
    pc = "loop" =>
      \/ hits = Counts(corpus)
      \/ /\ Len(corpus) = Cap /\ \A i \in DOMAIN corpus : ~corpus[i].won
         /\ hits = Counts(Front(corpus))

\* No successful child in the corpus covers more than best; best is only ever
\* replaced by an entry that covers more, so that it outlives evictions.
BestIsLargest ==
    \A i \in DOMAIN corpus :
      corpus[i].won => best # None /\ Cardinality(corpus[i].cov) <= Cardinality(best.cov)

\* What the campaign keeps of its inputs agrees with what they executed: nothing is
\* forgotten, and the corpus, its block counts and its best entry belong together.
CorpusTellsAll == NothingForgotten /\ CorpusSound /\ HitsFollowCorpus /\ BestIsLargest

\* An input that stops the kernel costs the campaign one run: it is rewound and
\* the whole budget is used.
CampaignSurvives == pc = "done" => iters = Iterations /\ ~kernel.dead
=============================================================================
